---------------------------- MODULE GraphProofs ----------------------------
(***************************************************************************)
(* Proofs about Graph, for every number of nodes, inputs and epochs: its   *)
(* types, the order of the replacement log, both halves of the def-use     *)
(* invariant, and that replaceNode leaves no reader behind.                *)
(***************************************************************************)
EXTENDS Graph, WellFoundedInduction, TLAPS

(***************************************************************************)
(* Maxima, and what the two CHOOSEs of a reload pick.                      *)
(***************************************************************************)

\* A nonempty set of naturals has a least element.
LEMMA Smallest ==
    ASSUME NEW S \in SUBSET Nat, S # {}
    PROVE  \E m \in S : \A j \in S : m <= j
<1>1. PICK m \in S : \A j \in S : <<j, m>> \notin OpToRel(<, Nat)
    BY NatLessThanWellFounded, WFMin, Zenon
<1>2. \A j \in S : ~(j < m)
    BY <1>1, Zenon DEF OpToRel
<1>3. QED BY <1>2

\* A nonempty set of naturals that is bounded has a greatest element.
LEMMA Largest ==
    ASSUME NEW k \in Nat, NEW S \in SUBSET (0 .. k), S # {}
    PROVE  \E m \in S : \A j \in S : j <= m
<1> DEFINE T == {k - j : j \in S}
<1>1. T \in SUBSET Nat /\ T # {}
    OBVIOUS
<1>2. PICK m \in T : \A j \in T : m <= j
    BY <1>1, Smallest
<1>3. PICK i \in S : m = k - i
    BY <1>2
<1>4. QED BY <1>2, <1>3

\* An input list, a function on 1 .. k, is a sequence of length k.
LEMMA FunctionIsSeq ==
    ASSUME NEW S, NEW k \in Nat, NEW f \in [1 .. k -> S]
    PROVE  f \in Seq(S) /\ Len(f) = k /\ DOMAIN f = 1 .. k
OBVIOUS

\* The epochs of the log are naturals.
LEMMA EntryEpochs ==
    ASSUME TypeOK
    PROVE  \A i \in DOMAIN replacements : replacements[i].epoch \in Nat
<1>1. \A i \in DOMAIN replacements : replacements[i] \in Entries
    BY DEF TypeOK
<1>2. QED BY <1>1 DEF Entries

\* The epoch after a replay is a natural that no log entry is ahead of.
LEMMA LogEpochIs ==
    ASSUME TypeOK, LogOrdered
    PROVE  LogEpoch \in Nat /\ \A i \in DOMAIN replacements : replacements[i].epoch <= LogEpoch
<1> DEFINE P(e) == \A f \in LogEpochs : f <= e
<1>1. replacements \in Seq(Entries) /\ LogEpochs \subseteq Nat
    BY EntryEpochs DEF TypeOK, LogEpochs
<1>2. \E e \in LogEpochs \cup {0} : P(e)
  <2>1. CASE Len(replacements) = 0
    BY <1>1, <2>1 DEF LogEpochs
  <2>2. CASE Len(replacements) # 0
    <3> DEFINE last == replacements[Len(replacements)].epoch
    <3>1. Len(replacements) \in DOMAIN replacements
        BY <1>1, <2>2
    <3>2. \A i \in DOMAIN replacements : replacements[i].epoch <= last
      <4>1. SUFFICES ASSUME NEW i \in DOMAIN replacements PROVE replacements[i].epoch <= last
          OBVIOUS
      <4>2. replacements[i].epoch \in Nat /\ last \in Nat
          BY EntryEpochs, <3>1
      <4>3. i = Len(replacements) \/ i < Len(replacements)
          BY <1>1
      <4>4. QED BY <3>1, <4>2, <4>3 DEF LogOrdered
    <3>3. last \in LogEpochs /\ P(last)
        BY <3>1, <3>2 DEF LogEpochs
    <3>4. QED BY <3>3
  <2>3. QED BY <2>1, <2>2
<1>3. LogEpoch \in LogEpochs \cup {0} /\ P(LogEpoch)
    BY <1>2 DEF LogEpoch
<1>4. QED BY <1>1, <1>3 DEF LogEpochs

\* The entry a reload takes a tag from is one of the log about that node.
LEMMA LastEntryIs ==
    ASSUME TypeOK, NEW n
    PROVE  /\ LastEntry(n) \in DOMAIN replacements \cup {0}
           /\ LastEntry(n) # 0 => replacements[LastEntry(n)].oldNode = n
<1> DEFINE P(i) == /\ i # 0 => replacements[i].oldNode = n
                   /\ \A j \in DOMAIN replacements : replacements[j].oldNode = n => j <= i
           S == {i \in DOMAIN replacements : replacements[i].oldNode = n} \cup {0}
<1>1. DOMAIN replacements = 1 .. Len(replacements) /\ Len(replacements) \in Nat
    BY DEF TypeOK
<1>2. S \in SUBSET (0 .. Len(replacements)) /\ S # {}
    BY <1>1
<1>3. PICK m \in S : \A j \in S : j <= m
    BY <1>1, <1>2, Largest
<1>4. m \in DOMAIN replacements \cup {0} /\ P(m)
    BY <1>3
<1>5. QED BY <1>4 DEF LastEntry

(***************************************************************************)
(* Types and the log.                                                      *)
(***************************************************************************)
\* What the log needs to stay ordered across a reload, with the types.
Shape == TypeOK /\ LogOrdered

\* A new graph has the types and an ordered, empty log.
LEMMA ShapeInit == Init => Shape
<1> SUFFICES ASSUME Init PROVE Shape
    OBVIOUS
<1>1. Ids = {0}
    BY DEF Init, Ids
<1>2. QED BY <1>1, BoundAssumption DEF Init, Shape, TypeOK, LogOrdered, Fresh

\* makeRaw keeps them: the arrays grow by the new node.
LEMMA MakeShape ==
    ASSUME Shape, NEW k \in 0 .. MaxInputs, NEW ins \in [1 .. k -> Operands(nodeCount + 1)],
           Make(ins)
    PROVE  Shape'
<1>0. nodeCount \in Nat /\ nodeCount' \in 1 .. MaxNodes /\ Ids' = 0 .. nodeCount
    BY BoundAssumption DEF Shape, TypeOK, Make, Ids
<1>1. ins \in Seq(Nat) /\ Len(ins) = k
  <2>1. Operands(nodeCount + 1) \subseteq Nat
      BY <1>0, BoundAssumption DEF Operands
  <2>2. k \in Nat /\ ins \in [1 .. k -> Nat]
      BY <2>1, BoundAssumption
  <2>3. QED BY <2>2
<1>2. nodes' \in [Ids' -> [dead : BOOLEAN, replaced : BOOLEAN, epoch : Nat]]
    BY <1>0 DEF Shape, TypeOK, Make, Ids, Fresh
<1>3. /\ DOMAIN inputs' = Ids'
      /\ \A n \in Ids' : inputs'[n] \in Seq(Nat) /\ Len(inputs'[n]) <= MaxInputs
    BY <1>0, <1>1, BoundAssumption DEF Shape, TypeOK, Make, Ids
<1>4. uses' \in [Ids' -> [Uses -> Nat]]
  <2>1. uses' = UsesWith(ins) /\ uses \in [Ids -> [Uses -> Nat]]
      BY DEF Shape, TypeOK, Make
  <2>2. \A d \in 0 .. nodeCount : \A u \in Uses :
            (IF d = nodeCount THEN 0 ELSE uses[d][u]) \in Nat
      BY <1>0, <2>1 DEF Ids
  <2>3. QED BY <1>0, <2>1, <2>2 DEF UsesWith
<1>5. QED BY <1>0, <1>2, <1>3, <1>4 DEF Shape, TypeOK, LogOrdered, Make

\* setInput, on any set of slots, keeps slices and use lists in their types.
LEMMA RewireTypes ==
    ASSUME TypeOK, NEW S, NEW v \in Nat, Rewire(S, v)
    PROVE  /\ DOMAIN inputs' = Ids
           /\ \A n \in Ids : /\ inputs'[n] \in Seq(Nat)
                             /\ Len(inputs'[n]) = Len(inputs[n])
                             /\ DOMAIN inputs'[n] = DOMAIN inputs[n]
           /\ uses' \in [Ids -> [Uses -> Nat]]
<1>1. DOMAIN inputs' = Ids
    BY DEF Rewire
<1>2. ASSUME NEW n \in Ids
      PROVE  /\ inputs'[n] \in Seq(Nat) /\ Len(inputs'[n]) = Len(inputs[n])
             /\ DOMAIN inputs'[n] = DOMAIN inputs[n]
  <2>1. inputs[n] \in Seq(Nat) /\ DOMAIN inputs[n] = 1 .. Len(inputs[n]) /\ Len(inputs[n]) \in Nat
      BY DEF TypeOK
  <2>2. inputs'[n] = [s \in 1 .. Len(inputs[n]) |-> IF <<n, s>> \in S THEN v ELSE inputs[n][s]]
      BY <2>1 DEF Rewire
  <2>3. inputs'[n] \in [1 .. Len(inputs[n]) -> Nat]
      BY <2>1, <2>2
  <2>4. QED BY <2>1, <2>3, FunctionIsSeq
<1>3. uses' \in [Ids -> [Uses -> Nat]]
  <2>1. \A d \in Ids : \A u \in Uses : uses[d][u] \in Nat
      BY DEF TypeOK
  <2>2. \A d \in Ids : \A u \in Uses :
            uses[d][u]
            - (IF u \in S /\ inputs[u[1]][u[2]] = d /\ uses[d][u] > 0 THEN 1 ELSE 0)
            + (IF u \in S /\ d = v THEN 1 ELSE 0) \in Nat
      BY <2>1
  <2>3. QED BY <2>2 DEF Rewire
<1>4. QED BY <1>1, <1>2, <1>3

\* setInput keeps types and log.
LEMMA SetInputShape ==
    ASSUME Shape, NEW n, NEW s, NEW v \in Nat, setInput(n, s, v)
    PROVE  Shape'
<1>1. Ids' = Ids /\ Rewire({<<n, s>>}, v)
    BY DEF setInput, Ids
<1>2. QED BY <1>1, RewireTypes DEF Shape, TypeOK, LogOrdered, setInput

\* appendInput keeps them while numInputs has room.
LEMMA AppendInputShape ==
    ASSUME Shape, NEW n, NEW v \in Nat, appendInput(n, v)
    PROVE  Shape'
<1>1. Ids' = Ids /\ n \in Ids
    BY DEF appendInput, Ids
<1>2. inputs' = [inputs EXCEPT ![n] = Append(inputs[n], v)] /\ Len(inputs[n]) < MaxInputs
    BY DEF appendInput
<1>3. /\ DOMAIN inputs' = Ids
      /\ \A m \in Ids : inputs'[m] \in Seq(Nat) /\ Len(inputs'[m]) <= MaxInputs
    BY <1>1, <1>2, BoundAssumption DEF Shape, TypeOK
<1>4. uses' \in [Ids -> [Uses -> Nat]]
    BY DEF appendInput, Shape, TypeOK
<1>5. QED BY <1>1, <1>3, <1>4 DEF Shape, TypeOK, LogOrdered, appendInput

\* replaceNode keeps them: its entry has an epoch above all before it.
LEMMA ReplaceNodeShape ==
    ASSUME Shape, NEW old, NEW with, replaceNode(old, with)
    PROVE  Shape'
<1> DEFINE r == [oldNode |-> old, newNode |-> with, epoch |-> epoch + 1]
<1>1. /\ Ids' = Ids /\ old \in Ids /\ with \in Ids /\ Ids \subseteq Nat /\ epoch \in Nat
      /\ Rewire(Rewired(old), with) /\ epoch' = epoch + 1
      /\ replacements' = Append(replacements, r) /\ replacements \in Seq(Entries)
    BY DEF replaceNode, Ids, Shape, TypeOK
<1>2. r \in Entries
    BY <1>1 DEF Entries
<1>3. nodes' \in [Ids -> [dead : BOOLEAN, replaced : BOOLEAN, epoch : Nat]]
    BY <1>1 DEF replaceNode, Shape, TypeOK
<1>4. TypeOK'
  <2> HIDE DEF r
  <2>1. replacements' \in Seq(Entries)
      BY <1>1, <1>2
  <2>2. QED BY <1>1, <1>3, <2>1, RewireTypes DEF Shape, TypeOK, replaceNode
<1>5. LogOrdered'
  <2>1. r.epoch = epoch + 1
      OBVIOUS
  <2> HIDE DEF r
  <2>2. /\ DOMAIN replacements = 1 .. Len(replacements) /\ Len(replacements) \in Nat
        /\ DOMAIN replacements' = 1 .. Len(replacements) + 1
        /\ \A i \in 1 .. Len(replacements) : replacements'[i] = replacements[i]
        /\ replacements'[Len(replacements) + 1] = r
      BY <1>1, <1>2
  <2>3. \A i \in DOMAIN replacements : replacements[i].epoch \in Nat
      BY EntryEpochs DEF Shape
  <2>4. QED BY <1>1, <2>1, <2>2, <2>3 DEF LogOrdered, Shape
<1>6. QED BY <1>4, <1>5 DEF Shape

\* killNode keeps them: it advances the epoch and logs nothing.
LEMMA KillNodeShape ==
    ASSUME Shape, NEW n, killNode(n)
    PROVE  Shape'
<1>1. Ids' = Ids /\ n \in Ids /\ epoch \in Nat /\ epoch' = epoch + 1
    BY DEF killNode, Ids, Shape, TypeOK
<1>2. nodes' \in [Ids -> [dead : BOOLEAN, replaced : BOOLEAN, epoch : Nat]]
  <2>1. nodes[n] \in [dead : BOOLEAN, replaced : BOOLEAN, epoch : Nat]
      BY <1>1 DEF Shape, TypeOK
  <2>2. nodes[n].replaced \in BOOLEAN
      BY <2>1
  <2>3. QED BY <1>1, <2>2 DEF killNode, Shape, TypeOK
<1>3. \A i \in DOMAIN replacements : replacements[i].epoch \in Nat
    BY EntryEpochs DEF Shape
<1>4. QED BY <1>1, <1>2, <1>3 DEF Shape, TypeOK, LogOrdered, killNode

\* nextEpoch keeps them.
LEMMA NextEpochShape ==
    ASSUME Shape, nextEpoch
    PROVE  Shape'
<1>1. Ids' = Ids /\ epoch \in Nat /\ epoch' = epoch + 1
    BY DEF nextEpoch, Ids, Shape, TypeOK
<1>2. \A i \in DOMAIN replacements : replacements[i].epoch \in Nat
    BY EntryEpochs DEF Shape
<1>3. QED BY <1>1, <1>2 DEF Shape, TypeOK, LogOrdered, nextEpoch

\* A reload keeps them: it sets the epoch to the highest of the log.
LEMMA ReloadShape ==
    ASSUME Shape, Reload
    PROVE  Shape'
<1>1. Ids' = Ids /\ epoch' = LogEpoch
    BY DEF Reload, Ids
<1>2. LogEpoch \in Nat /\ \A i \in DOMAIN replacements : replacements[i].epoch <= LogEpoch
    BY LogEpochIs DEF Shape
<1>3. nodes' \in [Ids -> [dead : BOOLEAN, replaced : BOOLEAN, epoch : Nat]]
  <2>1. \A n \in Ids : LastEntry(n) # 0 => replacements[LastEntry(n)].epoch \in Nat
      BY LastEntryIs, EntryEpochs DEF Shape
  <2>2. QED BY <2>1 DEF Reload, Shape, TypeOK
<1>4. uses' \in [Ids -> [Uses -> Nat]]
    BY DEF Reload
<1>5. QED BY <1>1, <1>2, <1>3, <1>4 DEF Shape, TypeOK, LogOrdered, Reload

\* Every step keeps types and log: the induction step.
LEMMA ShapeNext == Shape /\ [Next]_vars => Shape'
<1> SUFFICES ASSUME Shape, [Next]_vars PROVE Shape'
    OBVIOUS
<1>0. Ids \subseteq Nat /\ Operands(nodeCount) \subseteq Nat
    BY BoundAssumption DEF Shape, TypeOK, Ids, Operands
<1>1. ASSUME NEW k \in 0 .. MaxInputs, NEW ins \in [1 .. k -> Operands(nodeCount + 1)], Make(ins)
      PROVE  Shape'
    BY <1>1, MakeShape
<1>2. ASSUME NEW n \in Ids, NEW s \in 1 .. MaxInputs, NEW v \in Operands(nodeCount),
             setInput(n, s, v)
      PROVE  Shape'
    BY <1>0, <1>2, SetInputShape
<1>3. ASSUME NEW n \in Ids \ {0}, NEW v \in Operands(nodeCount), appendInput(n, v)
      PROVE  Shape'
    BY <1>0, <1>3, AppendInputShape
<1>4. ASSUME NEW old \in Ids \ {0}, NEW with \in Ids, replaceNode(old, with)
      PROVE  Shape'
    BY <1>4, ReplaceNodeShape
<1>5. ASSUME NEW n \in Ids \ {0}, killNode(n)
      PROVE  Shape'
    BY <1>5, KillNodeShape
<1>6. CASE nextEpoch
    BY <1>6, NextEpochShape
<1>7. CASE Reload
    BY <1>7, ReloadShape
<1>8. CASE UNCHANGED vars
  <2>1. Ids' = Ids
      BY <1>8 DEF vars, Ids
  <2>2. QED BY <1>8, <2>1 DEF vars, Shape, TypeOK, LogOrdered
<1>9. QED BY <1>1, <1>2, <1>3, <1>4, <1>5, <1>6, <1>7, <1>8 DEF Next

\* Types and log are always as they should be.
LEMMA ShapeAlways == Spec => []Shape
BY ShapeInit, ShapeNext, PTL DEF Spec

\* The variables of the graph keep their shape (TypeOK), for every bound.
THEOREM TypeCorrect == Spec => []TypeOK
<1>1. Shape => TypeOK
    BY DEF Shape
<1>2. QED BY <1>1, ShapeAlways, PTL

\* The replacement log stays in strict epoch order, through every mutation and
\* although deserializeInto restarts the epoch from the log (LogOrdered).
THEOREM LogInOrder == Spec => []LogOrdered
<1>1. Shape => LogOrdered
    BY DEF Shape
<1>2. QED BY <1>1, ShapeAlways, PTL

(***************************************************************************)
(* Use lists.                                                              *)
(***************************************************************************)
\* makeRaw keeps use lists sound: the new entries are those of the new node.
LEMMA MakeSound ==
    ASSUME TypeOK, UsesSound, NEW ins, Make(ins)
    PROVE  UsesSound'
<1>0. nodeCount \in Nat /\ Ids' = 0 .. nodeCount /\ Ids = 0 .. nodeCount - 1
    BY DEF TypeOK, Make, Ids
<1> SUFFICES ASSUME NEW d \in Ids', NEW u \in Uses, uses'[d][u] > 0
             PROVE  uses'[d][u] = 1 /\ u[1] \in Ids' /\ Reads(inputs', u[1], u[2], d)
    BY DEF UsesSound
<1> DEFINE old == IF d = nodeCount THEN 0 ELSE uses[d][u]
           new == u[1] = nodeCount /\ u[2] \in DOMAIN ins /\ ins[u[2]] = d
<1>1. uses'[d][u] = old + (IF new THEN 1 ELSE 0) /\ old \in Nat
    BY <1>0 DEF Make, UsesWith, TypeOK
<1>2. old > 0 => d \in Ids /\ old = 1 /\ u[1] \in Ids /\ Reads(inputs, u[1], u[2], d)
    BY <1>0 DEF UsesSound
<1>3. CASE new
  <2>1. u[1] = nodeCount /\ inputs'[u[1]] = ins
      BY <1>0, <1>3 DEF Make
  <2>2. old = 0
      BY <1>0, <1>1, <1>2, <2>1
  <2>3. QED BY <1>0, <1>1, <1>3, <2>1, <2>2 DEF Reads
<1>4. CASE ~new
  <2>1. old > 0 /\ uses'[d][u] = old
      BY <1>1, <1>4
  <2>2. inputs'[u[1]] = inputs[u[1]]
      BY <1>0, <1>2, <2>1 DEF Make
  <2>3. QED BY <1>0, <1>2, <2>1, <2>2 DEF Reads
<1>5. QED BY <1>3, <1>4

\* Rewiring slots none of which holds v keeps use lists sound.
LEMMA RewireSound ==
    ASSUME TypeOK, UsesSound, NEW S \in SUBSET Uses, NEW v \in Nat,
           \A u \in S : u[1] \in Ids /\ u[2] \in DOMAIN inputs[u[1]] /\ inputs[u[1]][u[2]] # v,
           Rewire(S, v), nodeCount' = nodeCount
    PROVE  UsesSound'
<1>0. Ids' = Ids
    BY DEF Ids
<1> SUFFICES ASSUME NEW d \in Ids, NEW u \in Uses, uses'[d][u] > 0
             PROVE  uses'[d][u] = 1 /\ u[1] \in Ids /\ Reads(inputs', u[1], u[2], d)
    BY <1>0 DEF UsesSound
<1>1. /\ uses'[d][u] = uses[d][u]
            - (IF u \in S /\ inputs[u[1]][u[2]] = d /\ uses[d][u] > 0 THEN 1 ELSE 0)
            + (IF u \in S /\ d = v THEN 1 ELSE 0)
      /\ uses[d][u] \in Nat
    BY DEF Rewire, TypeOK
<1>2. uses[d][u] > 0 => uses[d][u] = 1 /\ u[1] \in Ids /\ Reads(inputs, u[1], u[2], d)
    BY DEF UsesSound
<1>3. u = <<u[1], u[2]>>
    BY DEF Uses
<1>4. u[1] \in Ids /\ u[2] \in DOMAIN inputs[u[1]] =>
          /\ u[2] \in DOMAIN inputs'[u[1]]
          /\ inputs'[u[1]][u[2]] = IF u \in S THEN v ELSE inputs[u[1]][u[2]]
    BY <1>3 DEF Rewire
<1>5. CASE u \in S
  <2>1. CASE d = v
      BY <1>1, <1>2, <1>4, <1>5, <2>1 DEF Reads
  <2>2. CASE d # v
      BY <1>1, <1>2, <1>5, <2>2 DEF Reads
  <2>3. QED BY <2>1, <2>2
<1>6. CASE u \notin S
    BY <1>1, <1>2, <1>4, <1>6 DEF Reads
<1>7. QED BY <1>5, <1>6

\* appendInput keeps use lists sound: the slot it enters is new.
LEMMA AppendInputSound ==
    ASSUME TypeOK, UsesSound, NEW n, NEW v \in Nat, appendInput(n, v)
    PROVE  UsesSound'
<1> DEFINE here == <<n, Len(inputs[n]) + 1>>
<1>0. Ids' = Ids /\ n \in Ids /\ inputs[n] \in Seq(Nat)
    BY DEF appendInput, Ids, TypeOK
<1>1. /\ DOMAIN inputs[n] = 1 .. Len(inputs[n]) /\ Len(inputs[n]) \in Nat
      /\ inputs'[n] = Append(inputs[n], v)
      /\ \A m \in Ids : m # n => inputs'[m] = inputs[m]
    BY <1>0 DEF appendInput, TypeOK
<1>2. /\ DOMAIN inputs'[n] = 1 .. Len(inputs[n]) + 1
      /\ \A s \in 1 .. Len(inputs[n]) : inputs'[n][s] = inputs[n][s]
      /\ inputs'[n][Len(inputs[n]) + 1] = v
    BY <1>0, <1>1
<1> SUFFICES ASSUME NEW d \in Ids, NEW u \in Uses, uses'[d][u] > 0
             PROVE  uses'[d][u] = 1 /\ u[1] \in Ids /\ Reads(inputs', u[1], u[2], d)
    BY <1>0 DEF UsesSound
<1>3. /\ uses'[d][u] = uses[d][u] + IF d = v /\ u = here THEN 1 ELSE 0
      /\ uses[d][u] \in Nat
    BY DEF appendInput, TypeOK
<1>4. uses[d][u] > 0 => uses[d][u] = 1 /\ u[1] \in Ids /\ Reads(inputs, u[1], u[2], d)
    BY DEF UsesSound
<1>5. CASE d = v /\ u = here
  <2>1. u[1] = n /\ u[2] = Len(inputs[n]) + 1
      BY <1>5
  <2>2. uses[d][u] = 0
      BY <1>1, <1>3, <1>4, <2>1 DEF Reads
  <2>3. QED BY <1>0, <1>1, <1>2, <1>3, <1>5, <2>1, <2>2 DEF Reads
<1>6. CASE ~(d = v /\ u = here)
  <2>1. uses[d][u] > 0 /\ uses'[d][u] = uses[d][u]
      BY <1>3, <1>6
  <2>2. QED BY <1>1, <1>2, <1>4, <2>1 DEF Reads
<1>7. QED BY <1>5, <1>6

\* The use lists of a reloaded graph are sound.
LEMMA ReloadSound ==
    ASSUME TypeOK, Reload
    PROVE  UsesSound'
<1>1. Ids' = Ids /\ inputs' = inputs
    BY DEF Reload, Ids
<1>2. \A d \in Ids, u \in Uses :
          uses'[d][u] = IF u[1] \in Ids /\ Reads(inputs, u[1], u[2], d) THEN 1 ELSE 0
    BY DEF Reload
<1>3. QED BY <1>1, <1>2 DEF UsesSound, Reads

\* Every slot holds a node that exists or an id a caller made up.
Named == \A n \in Ids : \A s \in DOMAIN inputs[n] : inputs[n][s] \in Ids \cup Strays

\* makeRaw enters every edge of the new node, and an older edge cannot point at
\* it when stray ids are never created.
LEMMA MakeComplete ==
    ASSUME TypeOK, Named, NEW k \in 0 .. MaxInputs,
           NEW ins \in [1 .. k -> Operands(nodeCount + 1)], Make(ins)
    PROVE  Named' /\ (StraysNeverCreated /\ UsesComplete => UsesComplete')
<1>0. /\ nodeCount \in Nat /\ nodeCount < MaxNodes
      /\ Ids' = 0 .. nodeCount /\ Ids = 0 .. nodeCount - 1
    BY DEF TypeOK, Make, Ids
<1>1. \A n \in Ids' : inputs'[n] = IF n = nodeCount THEN ins ELSE inputs[n]
    BY <1>0 DEF Make
<1>2. Named'
  <2>1. Operands(nodeCount + 1) = Ids' \cup Strays
      BY <1>0 DEF Operands
  <2>2. QED BY <1>0, <1>1, <2>1 DEF Named
<1>3. ASSUME StraysNeverCreated, UsesComplete PROVE UsesComplete'
  <2> SUFFICES ASSUME NEW n \in Ids', NEW s \in DOMAIN inputs'[n], inputs'[n][s] \in Ids'
               PROVE  uses'[inputs'[n][s]][<<n, s>>] > 0
      BY DEF UsesComplete
  <2> DEFINE d == inputs'[n][s]
             u == <<n, s>>
  <2>1. u \in Uses /\ u[1] = n /\ u[2] = s
    <3>1. n \in 0 .. MaxNodes - 1
        BY <1>0, BoundAssumption
    <3>2. s \in 1 .. MaxInputs
      <4>1. CASE n = nodeCount
          BY <1>1, <4>1, BoundAssumption
      <4>2. CASE n # nodeCount
        <5>1. n \in Ids /\ inputs'[n] = inputs[n]
            BY <1>0, <1>1, <4>2
        <5>2. inputs[n] \in Seq(Nat) /\ Len(inputs[n]) <= MaxInputs
            BY <5>1 DEF TypeOK
        <5>3. QED BY <5>1, <5>2, BoundAssumption
      <4>3. QED BY <4>1, <4>2
    <3>3. QED BY <3>1, <3>2 DEF Uses
  <2>2. uses'[d][u] = (IF d = nodeCount THEN 0 ELSE uses[d][u])
                      + (IF u[1] = nodeCount /\ u[2] \in DOMAIN ins /\ ins[u[2]] = d
                         THEN 1 ELSE 0)
      BY <1>0, <2>1 DEF Make, UsesWith
  <2>3. d # nodeCount => uses[d][u] \in Nat
      BY <1>0, <2>1 DEF TypeOK
  <2>4. CASE n = nodeCount
      BY <1>1, <2>1, <2>2, <2>3, <2>4
  <2>5. CASE n # nodeCount
    <3>1. n \in Ids /\ s \in DOMAIN inputs[n] /\ d = inputs[n][s]
        BY <1>0, <1>1, <2>5
    <3>2. d \in Ids
        BY <1>0, <1>3, <3>1, BoundAssumption DEF Named, StraysNeverCreated
    <3>3. uses[d][u] > 0
        BY <1>3, <3>1, <3>2 DEF UsesComplete
    <3>4. QED BY <1>0, <2>2, <2>3, <3>2, <3>3
  <2>6. QED BY <2>4, <2>5
<1>4. QED BY <1>2, <1>3

\* Rewiring enters the new edges and removes no entry that is still needed.
LEMMA RewireComplete ==
    ASSUME TypeOK, Named, NEW S \in SUBSET Uses, NEW v \in Ids \cup Strays,
           \A u \in S : u[1] \in Ids /\ u[2] \in DOMAIN inputs[u[1]] /\ inputs[u[1]][u[2]] # v,
           Rewire(S, v), nodeCount' = nodeCount
    PROVE  Named' /\ (UsesComplete => UsesComplete')
<1>0. Ids' = Ids
    BY DEF Ids
<1>1. \A n \in Ids : /\ DOMAIN inputs'[n] = DOMAIN inputs[n]
                     /\ \A s \in DOMAIN inputs[n] :
                           inputs'[n][s] = IF <<n, s>> \in S THEN v ELSE inputs[n][s]
    BY DEF Rewire
<1>2. Named'
    BY <1>0, <1>1 DEF Named
<1>3. ASSUME UsesComplete PROVE UsesComplete'
  <2> SUFFICES ASSUME NEW n \in Ids, NEW s \in DOMAIN inputs[n], inputs'[n][s] \in Ids
               PROVE  uses'[inputs'[n][s]][<<n, s>>] > 0
      BY <1>0, <1>1 DEF UsesComplete
  <2> DEFINE d == inputs'[n][s]
             u == <<n, s>>
  <2>1. u \in Uses /\ u[1] = n /\ u[2] = s
    <3>1. n \in 0 .. MaxNodes - 1
        BY BoundAssumption DEF TypeOK, Ids
    <3>2. s \in 1 .. MaxInputs
        BY BoundAssumption DEF TypeOK
    <3>3. QED BY <3>1, <3>2 DEF Uses
  <2>2. /\ uses'[d][u] = uses[d][u]
              - (IF u \in S /\ inputs[u[1]][u[2]] = d /\ uses[d][u] > 0 THEN 1 ELSE 0)
              + (IF u \in S /\ d = v THEN 1 ELSE 0)
        /\ uses[d][u] \in Nat
      BY <2>1 DEF Rewire, TypeOK
  <2>3. CASE u \in S
      BY <1>1, <2>1, <2>2, <2>3
  <2>4. CASE u \notin S
      BY <1>1, <1>3, <2>1, <2>2, <2>4 DEF UsesComplete
  <2>5. QED BY <2>3, <2>4
<1>4. QED BY <1>2, <1>3

\* appendInput enters the edge it adds.
LEMMA AppendInputComplete ==
    ASSUME TypeOK, Named, NEW n, NEW v \in Ids \cup Strays, appendInput(n, v)
    PROVE  Named' /\ (UsesComplete => UsesComplete')
<1>0. Ids' = Ids /\ n \in Ids /\ inputs[n] \in Seq(Nat) /\ v \in Nat /\ Len(inputs[n]) < MaxInputs
    BY BoundAssumption DEF appendInput, Ids, TypeOK
<1>1. /\ DOMAIN inputs[n] = 1 .. Len(inputs[n]) /\ Len(inputs[n]) \in Nat
      /\ inputs'[n] = Append(inputs[n], v)
      /\ \A m \in Ids : m # n => inputs'[m] = inputs[m]
    BY <1>0 DEF appendInput, TypeOK
<1>2. /\ DOMAIN inputs'[n] = 1 .. Len(inputs[n]) + 1
      /\ \A s \in 1 .. Len(inputs[n]) : inputs'[n][s] = inputs[n][s]
      /\ inputs'[n][Len(inputs[n]) + 1] = v
    BY <1>0, <1>1
<1>3. Named'
  <2> SUFFICES ASSUME NEW m \in Ids, NEW s \in DOMAIN inputs'[m]
               PROVE  inputs'[m][s] \in Ids \cup Strays
      BY <1>0 DEF Named
  <2>1. CASE m = n /\ s = Len(inputs[n]) + 1
      BY <1>2, <2>1
  <2>2. CASE m = n /\ s # Len(inputs[n]) + 1
    <3>1. s \in 1 .. Len(inputs[n])
        BY <1>1, <1>2, <2>2
    <3>2. QED BY <1>1, <1>2, <2>2, <3>1 DEF Named
  <2>3. CASE m # n
      BY <1>1, <2>3 DEF Named
  <2>4. QED BY <2>1, <2>2, <2>3
<1>4. ASSUME UsesComplete PROVE UsesComplete'
  <2> SUFFICES ASSUME NEW m \in Ids, NEW s \in DOMAIN inputs'[m], inputs'[m][s] \in Ids
               PROVE  uses'[inputs'[m][s]][<<m, s>>] > 0
      BY <1>0 DEF UsesComplete
  <2> DEFINE d == inputs'[m][s]
             u == <<m, s>>
  <2>1. u \in Uses
    <3>1. m \in 0 .. MaxNodes - 1
        BY BoundAssumption DEF TypeOK, Ids
    <3>2. s \in 1 .. MaxInputs
      <4>1. CASE m = n
          BY <1>0, <1>2, <4>1, BoundAssumption
      <4>2. CASE m # n
        <5>1. inputs'[m] = inputs[m]
            BY <1>1, <4>2
        <5>2. inputs[m] \in Seq(Nat) /\ Len(inputs[m]) <= MaxInputs
            BY DEF TypeOK
        <5>3. QED BY <5>1, <5>2, BoundAssumption
      <4>3. QED BY <4>1, <4>2
    <3>3. QED BY <3>1, <3>2 DEF Uses
  <2>2. /\ uses'[d][u] = uses[d][u] + IF d = v /\ u = <<n, Len(inputs[n]) + 1>> THEN 1 ELSE 0
        /\ uses[d][u] \in Nat
      BY <2>1 DEF appendInput, TypeOK
  <2>3. CASE u = <<n, Len(inputs[n]) + 1>>
      BY <1>2, <2>2, <2>3
  <2>4. CASE u # <<n, Len(inputs[n]) + 1>>
    <3>1. s \in DOMAIN inputs[m] /\ d = inputs[m][s]
        BY <1>1, <1>2, <2>4
    <3>2. QED BY <1>4, <2>2, <3>1 DEF UsesComplete
  <2>5. QED BY <2>3, <2>4
<1>5. QED BY <1>3, <1>4

\* The use lists of a reloaded graph are complete.
LEMMA ReloadComplete ==
    ASSUME TypeOK, Named, Reload
    PROVE  Named' /\ UsesComplete'
<1>1. Ids' = Ids /\ inputs' = inputs
    BY DEF Reload, Ids
<1>2. \A d \in Ids, u \in Uses :
          uses'[d][u] = IF u[1] \in Ids /\ Reads(inputs, u[1], u[2], d) THEN 1 ELSE 0
    BY DEF Reload
<1>3. \A n \in Ids : \A s \in DOMAIN inputs[n] : <<n, s>> \in Uses
    BY BoundAssumption DEF TypeOK, Ids, Uses
<1>4. QED BY <1>1, <1>2, <1>3 DEF Named, UsesComplete, Reads

\* The two mutations that rewire: setInput rewires one slot, replaceNode the
\* slots that hold the old node.  In both the new input is not there yet.
LEMMA Rewirings ==
    ASSUME TypeOK, NEW v,
           \/ \E n \in Ids, s \in 1 .. MaxInputs : v \in Operands(nodeCount) /\ setInput(n, s, v)
           \/ v \in Ids /\ \E old \in Ids \ {0} : replaceNode(old, v)
    PROVE  \E S \in SUBSET Uses :
              /\ v \in Ids \cup Strays
              /\ \A u \in S : /\ u[1] \in Ids /\ u[2] \in DOMAIN inputs[u[1]]
                              /\ inputs[u[1]][u[2]] # v
              /\ Rewire(S, v)
              /\ nodeCount' = nodeCount
<1>1. ASSUME NEW n \in Ids, NEW s \in 1 .. MaxInputs, v \in Operands(nodeCount),
             setInput(n, s, v)
      PROVE  /\ {<<n, s>>} \in SUBSET Uses /\ v \in Ids \cup Strays
             /\ \A u \in {<<n, s>>} : /\ u[1] \in Ids /\ u[2] \in DOMAIN inputs[u[1]]
                                      /\ inputs[u[1]][u[2]] # v
             /\ Rewire({<<n, s>>}, v) /\ nodeCount' = nodeCount
  <2>1. n \in 0 .. MaxNodes - 1
      BY BoundAssumption DEF TypeOK, Ids
  <2>2. QED BY <1>1, <2>1 DEF setInput, Operands, Ids, Uses
<1>2. ASSUME NEW old \in Ids, v \in Ids, replaceNode(old, v)
      PROVE  /\ Rewired(old) \in SUBSET Uses /\ v \in Ids \cup Strays
             /\ \A u \in Rewired(old) : /\ u[1] \in Ids /\ u[2] \in DOMAIN inputs[u[1]]
                                        /\ inputs[u[1]][u[2]] # v
             /\ Rewire(Rewired(old), v) /\ nodeCount' = nodeCount
    BY <1>2 DEF replaceNode, Rewired, Reads
<1>3. QED BY <1>1, <1>2

\* Every step keeps use lists sound.
LEMMA SoundNext ==
    ASSUME TypeOK, UsesSound, [Next]_vars
    PROVE  UsesSound'
<1>0. Ids \cup Strays \subseteq Nat /\ Operands(nodeCount) = Ids \cup Strays
    BY BoundAssumption DEF TypeOK, Ids, Operands
<1>1. ASSUME NEW ins, Make(ins) PROVE UsesSound'
    BY <1>1, MakeSound
<1>2. ASSUME NEW v,
             \/ \E n \in Ids, s \in 1 .. MaxInputs :
                    v \in Operands(nodeCount) /\ setInput(n, s, v)
             \/ v \in Ids /\ \E old \in Ids \ {0} : replaceNode(old, v)
      PROVE  UsesSound'
  <2>1. PICK S \in SUBSET Uses :
              /\ v \in Ids \cup Strays
              /\ \A u \in S : /\ u[1] \in Ids /\ u[2] \in DOMAIN inputs[u[1]]
                              /\ inputs[u[1]][u[2]] # v
              /\ Rewire(S, v)
              /\ nodeCount' = nodeCount
      BY <1>2, Rewirings
  <2>2. v \in Nat
      BY <1>0, <2>1
  <2>3. QED BY <2>1, <2>2, RewireSound
<1>3. ASSUME NEW n, NEW v \in Operands(nodeCount), appendInput(n, v) PROVE UsesSound'
    BY <1>0, <1>3, AppendInputSound
<1>4. ASSUME Reload PROVE UsesSound'
    BY <1>4, ReloadSound
<1>5. ASSUME UNCHANGED <<nodeCount, inputs, uses>> PROVE UsesSound'
    BY <1>5 DEF UsesSound, Ids, Reads
<1>6. QED BY <1>1, <1>2, <1>3, <1>4, <1>5 DEF Next, killNode, nextEpoch, vars

\* Whatever ids callers store, an entry of a use list is in it once and names a
\* slot that holds the node (UsesSound): what removeFromUses, which removes the
\* first match only, and replaceNode's filter rely on.
THEOREM UseListsSound == Spec => []UsesSound
<1>1. Init => UsesSound
    BY DEF Init, UsesSound, Ids
<1>2. TypeOK /\ UsesSound /\ [Next]_vars => UsesSound'
    BY SoundNext
<1>3. QED BY <1>1, <1>2, TypeCorrect, PTL DEF Spec

\* Every step keeps slots named, and use lists complete when stray ids are never
\* created.
LEMMA CompleteNext ==
    ASSUME TypeOK, Named, [Next]_vars
    PROVE  Named' /\ (StraysNeverCreated /\ UsesComplete => UsesComplete')
<1>0. Operands(nodeCount) = Ids \cup Strays
    BY DEF Ids, Operands
<1>1. ASSUME NEW k \in 0 .. MaxInputs, NEW ins \in [1 .. k -> Operands(nodeCount + 1)],
             Make(ins)
      PROVE  Named' /\ (StraysNeverCreated /\ UsesComplete => UsesComplete')
    BY <1>1, MakeComplete
<1>2. ASSUME NEW v,
             \/ \E n \in Ids, s \in 1 .. MaxInputs :
                    v \in Operands(nodeCount) /\ setInput(n, s, v)
             \/ v \in Ids /\ \E old \in Ids \ {0} : replaceNode(old, v)
      PROVE  Named' /\ (UsesComplete => UsesComplete')
  <2>1. PICK S \in SUBSET Uses :
              /\ v \in Ids \cup Strays
              /\ \A u \in S : /\ u[1] \in Ids /\ u[2] \in DOMAIN inputs[u[1]]
                              /\ inputs[u[1]][u[2]] # v
              /\ Rewire(S, v)
              /\ nodeCount' = nodeCount
      BY <1>2, Rewirings
  <2>2. QED BY <2>1, RewireComplete
<1>3. ASSUME NEW n, NEW v \in Operands(nodeCount), appendInput(n, v)
      PROVE  Named' /\ (UsesComplete => UsesComplete')
    BY <1>0, <1>3, AppendInputComplete
<1>4. ASSUME Reload PROVE Named' /\ UsesComplete'
    BY <1>4, ReloadComplete
<1>5. ASSUME UNCHANGED <<nodeCount, inputs, uses>>
      PROVE  Named' /\ (UsesComplete => UsesComplete')
    BY <1>5 DEF Named, UsesComplete, Ids
<1>6. QED BY <1>1, <1>2, <1>3, <1>4, <1>5 DEF Next, killNode, nextEpoch, vars

\* A slot never holds anything but a node or a stray id.
LEMMA NamedAlways == Spec => []Named
<1>1. Init => Named
    BY DEF Init, Named, Ids
<1>2. TypeOK /\ Named /\ [Next]_vars => Named'
    BY CompleteNext
<1>3. QED BY <1>1, <1>2, TypeCorrect, PTL DEF Spec

\* When no id that callers store ahead of time is ever created, every edge to a
\* node that exists is in that node's use list (UsesComplete), so the users
\* replaceNode and the dirty closure find are all there are.
THEOREM UseListsComplete ==
    ASSUME StraysNeverCreated
    PROVE  Spec => []UsesComplete
<1>1. Init => UsesComplete
    BY DEF Init, UsesComplete, Ids
<1>2. TypeOK /\ Named /\ UsesComplete /\ [Next]_vars => UsesComplete'
    BY CompleteNext
<1>3. QED BY <1>1, <1>2, TypeCorrect, NamedAlways, PTL DEF Spec

\* The log speaks of replaced nodes only, so replaying it marks nobody new.
LogMarks ==
    \A i \in DOMAIN replacements :
        replacements[i].oldNode \in Ids /\ nodes[replacements[i].oldNode].replaced

\* No step but replaceNode marks a node, and none unmarks one.
LEMMA MarksGrow ==
    ASSUME TypeOK, LogMarks, [Next]_vars
    PROVE  /\ Ids \subseteq Ids'
           /\ \A n \in Ids : nodes[n].replaced => nodes'[n].replaced
           /\ \A n \in Ids : ~nodes[n].replaced /\ nodes'[n].replaced =>
                                 \E with \in Ids : replaceNode(n, with)
           /\ replacements' # replacements =>
                 \E old, with \in Ids : replaceNode(old, with)
<1> DEFINE Goal == /\ Ids \subseteq Ids'
                   /\ \A n \in Ids : nodes[n].replaced => nodes'[n].replaced
                   /\ \A n \in Ids : ~nodes[n].replaced /\ nodes'[n].replaced =>
                                         \E with \in Ids : replaceNode(n, with)
                   /\ replacements' # replacements =>
                         \E old, with \in Ids : replaceNode(old, with)
<1>0. nodes \in [Ids -> [dead : BOOLEAN, replaced : BOOLEAN, epoch : Nat]]
    BY DEF TypeOK
<1>1. ASSUME NEW ins, Make(ins) PROVE Goal
  <2>1. nodeCount \in Nat /\ Ids = 0 .. nodeCount - 1 /\ Ids' = 0 .. nodeCount
      BY <1>1 DEF TypeOK, Make, Ids
  <2>2. \A n \in Ids : nodes'[n] = nodes[n]
      BY <1>1, <2>1 DEF Make
  <2>3. replacements' = replacements
      BY <1>1 DEF Make
  <2>4. QED BY <2>1, <2>2, <2>3
<1>2. ASSUME NEW old \in Ids, NEW with \in Ids, replaceNode(old, with) PROVE Goal
  <2>1. Ids' = Ids
      BY <1>2 DEF replaceNode, Ids
  <2>2. nodes'[old].replaced = TRUE /\ \A n \in Ids : n # old => nodes'[n] = nodes[n]
      BY <1>0, <1>2 DEF replaceNode
  <2>3. QED BY <1>2, <2>1, <2>2, Zenon
<1>3. ASSUME NEW n \in Ids, killNode(n) PROVE Goal
  <2>1. Ids' = Ids /\ replacements' = replacements
      BY <1>3 DEF killNode, Ids
  <2>2. nodes'[n].replaced = nodes[n].replaced /\ \A m \in Ids : m # n => nodes'[m] = nodes[m]
      BY <1>0, <1>3 DEF killNode
  <2>3. QED BY <2>1, <2>2, Zenon
<1>4. ASSUME Reload PROVE Goal
  <2>1. Ids' = Ids /\ replacements' = replacements
      BY <1>4 DEF Reload, Ids
  <2>2. ASSUME NEW n \in Ids, ~nodes[n].replaced PROVE nodes'[n] = nodes[n]
    <3>1. ASSUME LastEntry(n) # 0 PROVE FALSE
      <4>1. LastEntry(n) \in DOMAIN replacements /\ replacements[LastEntry(n)].oldNode = n
          BY <3>1, LastEntryIs
      <4>2. nodes[n].replaced
          BY <4>1, Zenon DEF LogMarks
      <4>3. QED BY <2>2, <4>2
    <3>2. QED BY <1>4, <3>1 DEF Reload
  <2>3. ASSUME NEW n \in Ids, nodes[n].replaced PROVE nodes'[n].replaced
    <3>1. nodes'[n] = nodes[n] \/ nodes'[n].replaced = TRUE
        BY <1>4 DEF Reload
    <3>2. QED BY <2>3, <3>1, Zenon
  <2>4. QED BY <2>1, <2>2, <2>3, Zenon
<1>5. ASSUME UNCHANGED <<nodeCount, nodes, replacements>> PROVE Goal
    BY <1>5 DEF Ids
<1>6. QED
  <2>1. Goal
      BY <1>1, <1>2, <1>3, <1>4, <1>5 DEF Next, setInput, appendInput, nextEpoch, vars
  <2>2. QED BY <2>1

\* Whatever the log names is marked Replaced, always.
LEMMA LogMarksAlways == Spec => []LogMarks
<1>1. Init => LogMarks
    BY DEF Init, LogMarks
<1>2. ASSUME TypeOK, LogMarks, [Next]_vars PROVE LogMarks'
  <2>1. CASE replacements' = replacements
      BY <1>2, <2>1, MarksGrow, Zenon DEF LogMarks
  <2>2. CASE replacements' # replacements
    <3>1. PICK old \in Ids, with \in Ids : replaceNode(old, with)
        BY <1>2, <2>2, MarksGrow
    <3> DEFINE e == [oldNode |-> old, newNode |-> with, epoch |-> epoch + 1]
    <3>2. /\ replacements' = Append(replacements, e) /\ replacements \in Seq(Entries)
          /\ e.oldNode = old
        BY <1>2, <3>1 DEF replaceNode, TypeOK
    <3>3. nodes'[old].replaced = TRUE /\ old \in Ids'
        BY <1>2, <3>1 DEF replaceNode, TypeOK, Ids
    <3> HIDE DEF e
    <3>4. \A i \in DOMAIN replacements' :
              replacements'[i] = e \/ (i \in DOMAIN replacements /\ replacements'[i] = replacements[i])
        BY <3>2
    <3>5. QED BY <1>2, <3>2, <3>3, <3>4, MarksGrow, Zenon DEF LogMarks
  <2>3. QED BY <2>1, <2>2
<1>3. QED BY <1>1, <1>2, TypeCorrect, PTL DEF Spec

\* With complete use lists replaceNode leaves no reader behind: when a node is
\* marked Replaced no slot of any node holds it (ReplacedUnread).
THEOREM NoReaderLeft ==
    ASSUME StraysNeverCreated
    PROVE  Spec => ReplacedUnread
<1> DEFINE Unread == \A n \in Ids : ~nodes[n].replaced /\ nodes'[n].replaced =>
                        \A m \in Ids' : \A s \in DOMAIN inputs'[m] : inputs'[m][s] # n
<1>1. ASSUME TypeOK, UsesComplete, LogMarks, [Next]_vars PROVE [Unread]_vars
  <2> SUFFICES ASSUME NEW n \in Ids, ~nodes[n].replaced, nodes'[n].replaced,
                      NEW m \in Ids', NEW s \in DOMAIN inputs'[m], inputs'[m][s] = n
               PROVE  FALSE
      OBVIOUS
  <2>1. PICK with \in Ids : replaceNode(n, with)
      BY <1>1, MarksGrow
  <2>2. /\ Ids' = Ids /\ m \in Ids /\ s \in DOMAIN inputs[m] /\ n # with
        /\ inputs'[m][s] = IF <<m, s>> \in Rewired(n) THEN with ELSE inputs[m][s]
      BY <2>1 DEF replaceNode, Rewire, Ids
  <2>3. inputs[m][s] = n /\ <<m, s>> \notin Rewired(n)
      BY <2>2
  <2>4. uses[n][<<m, s>>] > 0
      BY <1>1, <2>2, <2>3 DEF UsesComplete
  <2>5. <<m, s>> \in Uses
    <3>1. m \in 0 .. MaxNodes - 1
      <4>1. m \in Ids
          BY <2>2
      <4>2. QED BY <1>1, <4>1, BoundAssumption DEF TypeOK, Ids
    <3>2. s \in 1 .. MaxInputs
        BY <1>1, <2>2, BoundAssumption DEF TypeOK
    <3>3. QED BY <3>1, <3>2 DEF Uses
  <2>6. QED BY <2>2, <2>3, <2>4, <2>5 DEF Rewired, Reads
<1>2. QED BY <1>1, TypeCorrect, UseListsComplete, LogMarksAlways, PTL DEF Spec, ReplacedUnread
=============================================================================
