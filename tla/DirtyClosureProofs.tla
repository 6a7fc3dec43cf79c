------------------------- MODULE DirtyClosureProofs -------------------------
(***************************************************************************)
(* Proofs about the dirty-node closure, for every graph, every seed set    *)
(* and every max_size.                                                     *)
(***************************************************************************)
EXTENDS DirtyClosure, RankProofs, FiniteSetTheorems, TLAPS

LiveSeeds == {n \in seeds : ~Dead(n)}

Closed(S) == LiveSeeds \subseteq S /\ \A n \in S : Dependents(n) \subseteq S

(* A round's snapshot never exceeds the vector, which only grows. *)
SnapshotInv == phase = "scan" => snapshot_size <= Cardinality(dirtyNodes)

(* The loop invariant.  While a round has changed nothing, the vector has   *)
(* not moved and every node before the index has its dependents in it; a    *)
(* round that ends so leaves a closed set.                                  *)
LoopInv ==
    /\ dirtyNodes \subseteq Closure
    /\ phase = "start" => iterations = 0 /\ changed /\ ~budget_exceeded
    /\ phase # "start" => LiveSeeds \subseteq dirtyNodes
    /\ phase = "scan" /\ ~changed =>
         /\ snapshot_size = Cardinality(dirtyNodes)
         /\ \A n \in dirtyNodes : Rank(dirtyNodes, n) < i => Dependents(n) \subseteq dirtyNodes
    /\ phase \in {"round", "done"} /\ ~changed =>
         \A n \in dirtyNodes : Dependents(n) \subseteq dirtyNodes
    /\ phase = "done" => ~changed \/ budget_exceeded
    /\ budget_exceeded => Cardinality(dirtyNodes) > max_size

(* Every round but the last has added a node. *)
CountInv ==
    /\ phase = "start" => iterations = 0
    /\ iterations <= 1 \/ iterations <= Cardinality(dirtyNodes)
    /\ changed => iterations = 0 \/ iterations < Cardinality(dirtyNodes)

----------------------------------------------------------------------------
(* The sorted vector. *)

LEMMA LiveFinite ==
    ASSUME TypeOK
    PROVE  /\ IsFiniteSet(dirtyNodes) /\ dirtyNodes \subseteq Nat
           /\ IsFiniteSet(LiveNodes) /\ Cardinality(LiveNodes) \in Nat
           /\ Cardinality(dirtyNodes) \in 0 .. Cardinality(LiveNodes)
           /\ Cardinality(LiveNodes) <= N
<1>1. N \in Nat
  BY GraphAssumption
<1>2. IsFiniteSet(NodeIds) /\ Cardinality(NodeIds) = N
  BY <1>1, FS_Interval DEF NodeIds
<1>3. LiveNodes \in SUBSET NodeIds /\ dirtyNodes \in SUBSET LiveNodes
  BY DEF LiveNodes, TypeOK
<1>4. IsFiniteSet(LiveNodes) /\ Cardinality(LiveNodes) <= N
  BY <1>2, <1>3, FS_Subset
<1>5. IsFiniteSet(dirtyNodes) /\ Cardinality(dirtyNodes) <= Cardinality(LiveNodes)
  BY <1>3, <1>4, FS_Subset
<1>6. Cardinality(LiveNodes) \in Nat /\ Cardinality(dirtyNodes) \in Nat
  BY <1>4, <1>5, FS_CardinalityType
<1>7. QED
  BY <1>1, <1>3, <1>4, <1>5, <1>6 DEF NodeIds

LEMMA NthIsDirty ==
    ASSUME TypeOK, NEW k \in 0 .. Cardinality(dirtyNodes) - 1
    PROVE  Nth(k) \in dirtyNodes /\ Rank(dirtyNodes, Nth(k)) = k
<1>1. \E n \in dirtyNodes : Rank(dirtyNodes, n) = k
  BY LiveFinite, RankOnto
<1>2. QED
  BY <1>1 DEF Nth, NthOf
----------------------------------------------------------------------------
(* The reference closure. *)

LEMMA DependentsLive == \A n : Dependents(n) \subseteq LiveNodes
BY DEF Dependents, semanticsDependOn, Dead, LiveNodes

LEMMA ClosureLeast ==
    Closure = {n \in LiveNodes : \A S \in SUBSET LiveNodes : Closed(S) => n \in S}
<1> DEFINE step == [n \in LiveNodes |-> Dependents(n)]
<1>1. \A S \in SUBSET LiveNodes :
        Closed(S) <=> LiveSeeds \subseteq S /\ \A n \in S : step[n] \subseteq S
  BY DEF Closed
<1>2. QED
  BY <1>1 DEF Closure, LiveSeeds

LEMMA NotDead == \A n \in Nat : ~Dead(n) <=> n \in LiveNodes
<1>1. N \in Nat
  BY GraphAssumption
<1>2. \A n \in Nat : n \in NodeIds <=> ~(n >= N)
  BY <1>1 DEF NodeIds
<1>3. QED
  BY <1>2 DEF Dead, LiveNodes

LEMMA SeedsInClosure ==
    ASSUME TypeOK
    PROVE  LiveSeeds \subseteq Closure
<1>1. seeds \subseteq Nat
  BY GraphAssumption DEF TypeOK
<1>2. LiveSeeds \subseteq LiveNodes
  BY <1>1, NotDead DEF LiveSeeds
<1>3. QED
  BY <1>2, ClosureLeast DEF Closed

LEMMA ClosureClosed ==
    ASSUME NEW n \in Closure
    PROVE  Dependents(n) \subseteq Closure
BY ClosureLeast, DependentsLive DEF Closed

LEMMA ClosedIsAll ==
    ASSUME NEW S \in SUBSET LiveNodes, Closed(S)
    PROVE  Closure \subseteq S
BY ClosureLeast

(* No step changes the arguments. *)
LEMMA SameGraph ==
    ASSUME UNCHANGED args
    PROVE  /\ LiveNodes' = LiveNodes /\ LiveSeeds' = LiveSeeds /\ Closure' = Closure
           /\ \A n : Dependents(n)' = Dependents(n)
<1>1. g' = g /\ seeds' = seeds
  BY DEF args
<1>2. \A n : Dead(n)' = Dead(n)
  BY <1>1 DEF Dead
<1>3. \A n : Dependents(n)' = Dependents(n)
  BY <1>1 DEF Dependents, semanticsDependOn, Dead, isSideEffectingUser
<1>4. LiveNodes' = LiveNodes /\ LiveSeeds' = LiveSeeds
  BY <1>1 DEF LiveNodes, LiveSeeds, Dead
<1>5. Closure' = Closure
  BY <1>1 DEF Closure, LiveNodes, Dependents, semanticsDependOn, Dead, isSideEffectingUser
<1>6. QED
  BY <1>3, <1>4, <1>5

(* What visiting one index does, whatever the order of the use list. *)
LEMMA ScanStep ==
    ASSUME TypeOK, phase = "scan", snapshot_size <= Cardinality(dirtyNodes), Scan
    PROVE  /\ i < snapshot_size /\ Nth(i) \in dirtyNodes
           /\ Rank(dirtyNodes, Nth(i)) = i
           /\ NewDependents = Dependents(Nth(i)) \ dirtyNodes
           /\ dirtyNodes \subseteq dirtyNodes'
           /\ dirtyNodes' \subseteq dirtyNodes \cup NewDependents
           /\ IsFiniteSet(dirtyNodes') /\ Cardinality(dirtyNodes') \in Nat
           /\ changed' = (changed \/ NewDependents # {})
           /\ NewDependents = {} => dirtyNodes' = dirtyNodes
           /\ NewDependents # {} => Cardinality(dirtyNodes') > Cardinality(dirtyNodes)
           /\ Cardinality(dirtyNodes') >= Cardinality(dirtyNodes)
           /\ budget_exceeded' => Cardinality(dirtyNodes') > max_size
           /\ i' \in {i + 1, snapshot_size}
           /\ ~budget_exceeded' => i' = i + 1
           /\ budget_exceeded' \in BOOLEAN
           /\ budget_exceeded' => NewDependents # {}
           /\ UNCHANGED <<args, snapshot_size, iterations, phase>>
<1> DEFINE new == NewDependents
           size == Cardinality(dirtyNodes)
           cap == IF max_size > size THEN max_size ELSE size
           over == Cardinality(dirtyNodes \cup new) > cap
<1>1. /\ i < snapshot_size
      /\ \E T \in SUBSET new :
           /\ IF over THEN Cardinality(dirtyNodes \cup T) = cap + 1 ELSE T = new
           /\ dirtyNodes' = dirtyNodes \cup T
      /\ changed' = (changed \/ new # {})
      /\ budget_exceeded' = over
      /\ i' = IF over THEN snapshot_size ELSE i + 1
      /\ UNCHANGED <<args, snapshot_size, iterations, phase>>
  BY DEF Scan, ScanMarking
<1>2. PICK T \in SUBSET new :
        /\ IF over THEN Cardinality(dirtyNodes \cup T) = cap + 1 ELSE T = new
        /\ dirtyNodes' = dirtyNodes \cup T
  BY <1>1
<1>3. /\ IsFiniteSet(dirtyNodes) /\ IsFiniteSet(LiveNodes) /\ size \in Nat
      /\ max_size \in Nat /\ i \in Nat /\ snapshot_size \in Nat /\ N \in Nat
  BY LiveFinite, GraphAssumption DEF TypeOK
<1>4. Nth(i) \in dirtyNodes /\ Rank(dirtyNodes, Nth(i)) = i
  BY <1>1, <1>3, NthIsDirty
<1>5. ~Dead(Nth(i))
  BY <1>4, LiveFinite, NotDead DEF TypeOK
<1>6. new = Dependents(Nth(i)) \ dirtyNodes
  BY <1>5 DEF NewDependents
<1>7. new \subseteq LiveNodes /\ dirtyNodes \subseteq LiveNodes
  BY <1>6, DependentsLive DEF TypeOK
<1> HIDE DEF new
<1>8. /\ IsFiniteSet(dirtyNodes \cup new) /\ Cardinality(dirtyNodes \cup new) \in Nat
      /\ IsFiniteSet(dirtyNodes') /\ Cardinality(dirtyNodes') \in Nat
  BY <1>2, <1>3, <1>7, FS_Subset, FS_CardinalityType
<1>9. /\ Cardinality(dirtyNodes') >= size
      /\ Cardinality(dirtyNodes') = size => dirtyNodes' = dirtyNodes
  BY <1>2, <1>8, FS_Subset
<1>10. new = {} => ~over
  BY <1>3
<1>11. new = {} => dirtyNodes' = dirtyNodes
  BY <1>2
<1>12. new # {} => Cardinality(dirtyNodes') > size
  <2> SUFFICES ASSUME new # {} PROVE Cardinality(dirtyNodes') > size
    OBVIOUS
  <2>1. CASE over
    BY <1>2, <1>3, <2>1
  <2>2. CASE ~over
    <3>1. dirtyNodes' = dirtyNodes \cup new /\ dirtyNodes' # dirtyNodes
      BY <1>2, <1>6, <2>2
    <3>2. QED
      BY <3>1, <1>3, <1>8, <1>9
  <2>3. QED
    BY <2>1, <2>2
<1>13. over => Cardinality(dirtyNodes') > max_size
  BY <1>2, <1>3
<1>14. dirtyNodes \subseteq dirtyNodes' /\ dirtyNodes' \subseteq dirtyNodes \cup new
  BY <1>2
<1>15. over \in BOOLEAN
  OBVIOUS
<1> HIDE DEF over, size, cap
<1>16. /\ i' \in {i + 1, snapshot_size} /\ (~budget_exceeded' => i' = i + 1)
       /\ budget_exceeded' \in BOOLEAN
       /\ budget_exceeded' => new # {}
       /\ budget_exceeded' => Cardinality(dirtyNodes') > max_size
  BY <1>1, <1>10, <1>13, <1>15
<1>17. QED
  BY <1>1, <1>4, <1>6, <1>8, <1>9, <1>11, <1>12, <1>14, <1>16, Zenon DEF new, size

----------------------------------------------------------------------------
(* The invariant the others rest on: types, and the snapshot within the     *)
(* vector that the loop indexes (expandDirtyClosure).                       *)
LEMMA Bounded == Spec => [](TypeOK /\ SnapshotInv)
<1> DEFINE Inv == TypeOK /\ SnapshotInv
<1>1. Init => Inv
  <2> SUFFICES ASSUME Init PROVE Inv
    OBVIOUS
  <2>1. changed \in BOOLEAN /\ budget_exceeded \in BOOLEAN
    BY Zenon DEF Init
  <2>2. N \in Nat
    BY GraphAssumption
  <2>3. snapshot_size \in 0 .. N /\ i \in 0 .. snapshot_size /\ iterations \in Nat
    BY <2>2 DEF Init
  <2>4. QED
    BY <2>1, <2>3, Zenon DEF Init, TypeOK, SnapshotInv
<1>2. Inv /\ [Next]_vars => Inv'
  <2> SUFFICES ASSUME TypeOK, SnapshotInv, [Next]_vars PROVE Inv'
    OBVIOUS
  <2>1. CASE Start
    <3>1. UNCHANGED args
      BY <2>1 DEF Start
    <3>2. dirtyNodes' \subseteq LiveNodes'
      BY <2>1, <3>1, SameGraph, NotDead, GraphAssumption DEF Start, TypeOK
    <3>3. QED
      BY <2>1, <3>2 DEF Start, TypeOK, SnapshotInv, args
  <2>2. CASE Round
    <3>1. UNCHANGED <<args, dirtyNodes>> /\ snapshot_size' = Cardinality(dirtyNodes)
      BY <2>2 DEF Round
    <3>2. LiveNodes' = LiveNodes
      BY <3>1, SameGraph
    <3>3. snapshot_size' \in 0 .. N /\ snapshot_size' <= Cardinality(dirtyNodes')
      BY <3>1, LiveFinite, GraphAssumption
    <3>4. changed' \in BOOLEAN /\ budget_exceeded' \in BOOLEAN
      BY <2>2, Zenon DEF Round, TypeOK
    <3>5. i' \in 0 .. snapshot_size' /\ iterations' \in Nat
      BY <2>2, <3>3 DEF Round, TypeOK
    <3>6. g' = g /\ seeds' = seeds /\ max_size' = max_size
      BY <3>1 DEF args
    <3>7. QED
      BY <2>2, <3>2, <3>3, <3>4, <3>5, <3>6, Zenon DEF Round, TypeOK, SnapshotInv
  <2>3. CASE Scan
    <3>1. phase = "scan"
      BY <2>3 DEF Scan, ScanMarking
    <3>2. snapshot_size <= Cardinality(dirtyNodes)
      BY <3>1 DEF SnapshotInv
    <3>3. UNCHANGED <<args, snapshot_size, iterations, phase>>
      BY <2>3, <3>1, <3>2, ScanStep
    <3>4. dirtyNodes' \subseteq LiveNodes'
      BY <2>3, <3>1, <3>2, <3>3, ScanStep, SameGraph, DependentsLive DEF TypeOK
    <3>5. i' \in 0 .. snapshot_size' /\ snapshot_size' <= Cardinality(dirtyNodes')
      BY <2>3, <3>1, <3>2, <3>3, ScanStep, LiveFinite DEF TypeOK
    <3>6. changed' \in BOOLEAN /\ budget_exceeded' \in BOOLEAN
      BY <2>3, <3>1, <3>2, ScanStep
    <3>7. QED
      BY <3>3, <3>4, <3>5, <3>6 DEF TypeOK, SnapshotInv, args
  <2>4. CASE EndRound
    BY <2>4 DEF EndRound, TypeOK, SnapshotInv, args, LiveNodes
  <2>5. CASE Return
    BY <2>5 DEF Return, TypeOK, SnapshotInv, args, LiveNodes
  <2>6. CASE UNCHANGED vars
    BY <2>6 DEF vars, TypeOK, SnapshotInv, args, LiveNodes
  <2>7. QED
    BY <2>1, <2>2, <2>3, <2>4, <2>5, <2>6 DEF Next
<1>3. QED
  BY <1>1, <1>2, PTL DEF Spec

(* The type invariant: only live nodes of the graph enter the vector, and   *)
(* the index stays within the round's snapshot (expandDirtyClosure).        *)
THEOREM TypeCorrect == Spec => []TypeOK
BY Bounded, PTL

LEMMA LoopInvInit == Init => LoopInv
<1> SUFFICES ASSUME Init PROVE LoopInv
  OBVIOUS
<1>1. phase = "start" /\ iterations = 0 /\ changed /\ ~budget_exceeded /\ dirtyNodes = {}
  BY Zenon DEF Init
<1>2. QED
  BY <1>1, Zenon DEF LoopInv

LEMMA LoopInvScan ==
    ASSUME TypeOK, SnapshotInv, LoopInv, Scan
    PROVE  LoopInv'
<1>1. phase = "scan"
  BY DEF Scan, ScanMarking
<1>2. snapshot_size <= Cardinality(dirtyNodes)
  BY <1>1 DEF SnapshotInv
<1>3. UNCHANGED args /\ UNCHANGED snapshot_size /\ phase' = "scan"
  BY <1>1, <1>2, ScanStep
<1>4. Closure' = Closure /\ LiveSeeds' = LiveSeeds /\ \A n : Dependents(n)' = Dependents(n)
  BY <1>3, SameGraph
<1>5. dirtyNodes' \subseteq Closure'
  <2>1. Dependents(Nth(i)) \subseteq Closure
    BY <1>1, <1>2, ScanStep, ClosureClosed DEF LoopInv
  <2>2. QED
    BY <1>1, <1>2, <1>4, <2>1, ScanStep DEF LoopInv
<1>6. LiveSeeds' \subseteq dirtyNodes'
  BY <1>1, <1>2, <1>4, ScanStep DEF LoopInv
<1>7. ASSUME ~changed'
      PROVE  /\ snapshot_size' = Cardinality(dirtyNodes')
             /\ \A n \in dirtyNodes' : Rank(dirtyNodes', n) < i' => Dependents(n)' \subseteq dirtyNodes'
  <2>1. ~changed /\ NewDependents = {}
    BY <1>1, <1>2, <1>7, ScanStep, Zenon
  <2>2. dirtyNodes' = dirtyNodes /\ ~budget_exceeded'
    BY <1>1, <1>2, <2>1, ScanStep
  <2>3. i' = i + 1
    BY <1>1, <1>2, <2>2, ScanStep
  <2>4. snapshot_size = Cardinality(dirtyNodes)
    BY <1>1, <2>1 DEF LoopInv
  <2>5. ASSUME NEW n \in dirtyNodes, Rank(dirtyNodes, n) < i + 1
        PROVE  Dependents(n) \subseteq dirtyNodes
    <3>1. Rank(dirtyNodes, n) \in Nat /\ i \in Nat
      BY LiveFinite, RankBound DEF TypeOK
    <3>2. CASE Rank(dirtyNodes, n) < i
      BY <1>1, <2>1, <3>2 DEF LoopInv
    <3>3. CASE Rank(dirtyNodes, n) = i
      <4>1. n = Nth(i)
        BY <1>1, <1>2, <3>3, ScanStep, LiveFinite, RankInjective
      <4>2. QED
        BY <1>1, <1>2, <2>1, <4>1, ScanStep
    <3>4. QED
      BY <2>5, <3>1, <3>2, <3>3
  <2>6. QED
    BY <1>3, <1>4, <2>2, <2>3, <2>4, <2>5
<1>8. budget_exceeded' => Cardinality(dirtyNodes') > max_size'
  BY <1>1, <1>2, <1>3, ScanStep DEF args
<1>9. QED
  BY <1>3, <1>5, <1>6, <1>7, <1>8, Zenon DEF LoopInv

(* A round that ended without a change leaves a closed set. *)
LEMMA LoopInvEndRound ==
    ASSUME TypeOK, SnapshotInv, LoopInv, EndRound
    PROVE  LoopInv'
<1>1. /\ phase = "scan" /\ phase' = "round" /\ i = snapshot_size
      /\ UNCHANGED args /\ UNCHANGED dirtyNodes /\ UNCHANGED changed
      /\ UNCHANGED budget_exceeded /\ max_size' = max_size
  BY DEF EndRound, args
<1>2. Closure' = Closure /\ LiveSeeds' = LiveSeeds /\ \A n : Dependents(n)' = Dependents(n)
  BY <1>1, SameGraph
<1>3. ASSUME ~changed, NEW n \in dirtyNodes
      PROVE  Dependents(n) \subseteq dirtyNodes
  <2>1. Rank(dirtyNodes, n) < i
    BY <1>1, <1>3, LiveFinite, RankBound DEF LoopInv
  <2>2. QED
    BY <1>1, <1>3, <2>1 DEF LoopInv
<1>4. QED
  BY <1>1, <1>2, <1>3, Zenon DEF LoopInv

LEMMA LoopInvNext ==
    ASSUME TypeOK, SnapshotInv, LoopInv, [Next]_vars
    PROVE  LoopInv'
<1>1. CASE Start
  <2>1. /\ phase = "start" /\ phase' = "round" /\ dirtyNodes' = LiveSeeds
        /\ UNCHANGED args /\ UNCHANGED changed /\ UNCHANGED budget_exceeded
    BY <1>1 DEF Start, LiveSeeds
  <2>2. Closure' = Closure /\ LiveSeeds' = LiveSeeds
    BY <2>1, SameGraph
  <2>3. LiveSeeds \subseteq Closure /\ changed /\ ~budget_exceeded
    BY <2>1, SeedsInClosure DEF LoopInv
  <2>4. QED
    BY <2>1, <2>2, <2>3, Zenon DEF LoopInv
<1>2. CASE Round
  <2>1. /\ phase = "round" /\ phase' = "scan" /\ ~budget_exceeded /\ i' = 0
        /\ snapshot_size' = Cardinality(dirtyNodes')
        /\ UNCHANGED args /\ UNCHANGED dirtyNodes /\ UNCHANGED budget_exceeded
    BY <1>2 DEF Round
  <2>2. Closure' = Closure /\ LiveSeeds' = LiveSeeds
    BY <2>1, SameGraph
  <2>3. \A n \in dirtyNodes' : ~(Rank(dirtyNodes', n) < i')
    BY <2>1, LiveFinite, RankBound
  <2>4. QED
    BY <2>1, <2>2, <2>3, Zenon DEF LoopInv
<1>3. CASE Return
  <2>1. /\ phase = "round" /\ phase' = "done" /\ (~changed \/ budget_exceeded)
        /\ UNCHANGED args /\ UNCHANGED dirtyNodes /\ UNCHANGED changed
        /\ UNCHANGED budget_exceeded /\ max_size' = max_size
    BY <1>3 DEF Return, args
  <2>2. Closure' = Closure /\ LiveSeeds' = LiveSeeds /\ \A n : Dependents(n)' = Dependents(n)
    BY <2>1, SameGraph
  <2>3. QED
    BY <2>1, <2>2, Zenon DEF LoopInv
<1>4. CASE UNCHANGED vars
  <2>1. /\ UNCHANGED args /\ UNCHANGED <<dirtyNodes, i, snapshot_size, changed, iterations,
                                         budget_exceeded, phase>> /\ max_size' = max_size
    BY <1>4 DEF vars, args
  <2>2. Closure' = Closure /\ LiveSeeds' = LiveSeeds /\ \A n : Dependents(n)' = Dependents(n)
    BY <2>1, SameGraph
  <2>3. QED
    BY <2>1, <2>2, Zenon DEF LoopInv
<1>5. QED
  BY <1>1, <1>2, <1>3, <1>4, LoopInvScan, LoopInvEndRound DEF Next

LEMMA LoopInvariant == Spec => []LoopInv
BY Bounded, LoopInvInit, LoopInvNext, PTL DEF Spec

----------------------------------------------------------------------------
(* An expansion that returns without budget_exceeded returns the whole      *)
(* dependence closure of its seeds, on every graph (expandDirtyClosure).    *)
THEOREM Complete == Spec => []ClosureComplete
<1>1. TypeOK /\ LoopInv => ClosureComplete
  <2> SUFFICES ASSUME TypeOK, LoopInv, phase = "done", ~budget_exceeded
               PROVE  dirtyNodes = Closure
    BY DEF ClosureComplete
  <2>1. Closed(dirtyNodes)
    BY DEF LoopInv, Closed
  <2>2. Closure \subseteq dirtyNodes
    BY <2>1, ClosedIsAll DEF TypeOK
  <2>3. QED
    BY <2>2 DEF LoopInv
<1>2. QED
  BY <1>1, Bounded, LoopInvariant, PTL

(* budget_exceeded is reported only when the closure really has more than   *)
(* max_size nodes, and nothing outside the closure is ever marked.          *)
THEOREM Escalation == Spec => []NoFalseEscalation
<1>1. TypeOK /\ LoopInv => NoFalseEscalation
  <2> SUFFICES ASSUME TypeOK, LoopInv
               PROVE  /\ dirtyNodes \subseteq Closure
                      /\ budget_exceeded => Cardinality(Closure) > max_size
    BY DEF NoFalseEscalation
  <2>1. dirtyNodes \subseteq Closure /\ Closure \subseteq LiveNodes
    BY DEF LoopInv, Closure
  <2>2. IsFiniteSet(Closure) /\ Cardinality(Closure) \in Nat
    BY <2>1, LiveFinite, FS_Subset, FS_CardinalityType
  <2>3. Cardinality(dirtyNodes) <= Cardinality(Closure) /\ Cardinality(dirtyNodes) \in Nat
    BY <2>1, <2>2, LiveFinite, FS_Subset
  <2>4. max_size \in Nat
    BY GraphAssumption DEF TypeOK
  <2>5. QED
    BY <2>1, <2>2, <2>3, <2>4 DEF LoopInv
<1>2. QED
  BY <1>1, Bounded, LoopInvariant, PTL

LEMMA CountInvScan ==
    ASSUME TypeOK, SnapshotInv, CountInv, Scan
    PROVE  CountInv'
<1>1. phase = "scan"
  BY DEF Scan, ScanMarking
<1>2. snapshot_size <= Cardinality(dirtyNodes)
  BY <1>1 DEF SnapshotInv
<1>3. /\ phase' = "scan" /\ iterations' = iterations /\ i < snapshot_size
      /\ Cardinality(dirtyNodes') \in Nat
      /\ Cardinality(dirtyNodes') >= Cardinality(dirtyNodes)
      /\ NewDependents # {} => Cardinality(dirtyNodes') > Cardinality(dirtyNodes)
  BY <1>1, <1>2, ScanStep
<1>4. changed' => changed \/ NewDependents # {}
  BY <1>1, <1>2, ScanStep, Zenon
<1>5. /\ Cardinality(dirtyNodes) \in Nat \ {0} /\ iterations \in Nat
  BY <1>2, <1>3, LiveFinite DEF TypeOK
<1>6. CASE changed
  BY <1>3, <1>5, <1>6 DEF CountInv
<1>7. CASE ~changed
  BY <1>3, <1>4, <1>5, <1>7 DEF CountInv
<1>8. QED
  BY <1>6, <1>7

LEMMA CountInvariant == Spec => []CountInv
<1>1. Init => CountInv
  BY DEF Init, CountInv
<1>2. TypeOK /\ SnapshotInv /\ CountInv /\ [Next]_vars => CountInv'
  <2> SUFFICES ASSUME TypeOK, SnapshotInv, CountInv, [Next]_vars PROVE CountInv'
    OBVIOUS
  <2>1. Cardinality(dirtyNodes) \in Nat /\ iterations \in Nat
    BY LiveFinite DEF TypeOK
  <2>2. CASE Start
    BY <2>2 DEF Start, CountInv
  <2>3. CASE Round
    <3>1. /\ changed /\ iterations' = iterations + 1 /\ dirtyNodes' = dirtyNodes
          /\ ~changed' /\ phase' = "scan"
      BY <2>3, Zenon DEF Round
    <3>2. QED
      BY <2>1, <3>1 DEF CountInv
  <2>4. CASE EndRound \/ Return \/ UNCHANGED vars
    <3>1. /\ UNCHANGED dirtyNodes /\ UNCHANGED iterations /\ UNCHANGED changed
          /\ phase' = "start" => phase = "start"
      BY <2>4 DEF EndRound, Return, vars
    <3>2. QED
      BY <3>1 DEF CountInv
  <2>5. QED
    BY <2>2, <2>3, <2>4, CountInvScan DEF Next
<1>3. QED
  BY <1>1, <1>2, Bounded, PTL DEF Spec

(* The fixpoint runs at most one round per live node, as the comment on     *)
(* DirtyClosureResult::iterations says.                                     *)
THEOREM RoundsBounded == Spec => []IterationsBounded
<1>1. TypeOK /\ CountInv => IterationsBounded
  BY LiveFinite DEF CountInv, IterationsBounded, TypeOK
<1>2. QED
  BY <1>1, Bounded, CountInvariant, PTL

=============================================================================
