------------------------------- MODULE Graph -------------------------------
(***************************************************************************)
(* The sea-of-nodes graph of T2 (compiler/ir/core/Graph.cpp) and its save  *)
(* and reload (compiler/ir/core/Serialize.cpp).                            *)
(*                                                                         *)
(* The Graph never looks at a node's kind or payload, so both are left     *)
(* out, and every maker of the interface is Make with some input list.     *)
(* A node's slice of the edge pool is the sequence inputs[n]; slot s of    *)
(* the code is position s + 1.  A use list is the bag of its entries: the  *)
(* order of a list decides nothing here.                                   *)
(***************************************************************************)
EXTENDS Integers, Sequences

CONSTANTS MaxNodes,    \* bound on nodeCount(); ids are 32 bits wide
          MaxInputs,   \* bound on numInputs, a 16-bit field
          MaxEpoch,    \* bound on epoch_, a 32-bit counter
          Strays       \* ids a caller may store whether or not they exist

ASSUME BoundAssumption ==
    /\ MaxNodes \in Nat \ {0} /\ MaxInputs \in Nat /\ MaxEpoch \in Nat
    /\ Strays \subseteq Nat

VARIABLES nodeCount,      \* nodes_.size()
          nodes,          \* Dead and Replaced flags and the epoch tag of each node
          inputs,         \* the edge slice of each node
          uses,           \* how often (user, slot) is in the use list of each node
          replacements,   \* the replacement log
          epoch

vars == <<nodeCount, nodes, inputs, uses, replacements, epoch>>

Uses == (0 .. MaxNodes - 1) \X (1 .. MaxInputs)

\* The node ids that exist.
Ids == 0 .. nodeCount - 1

Fresh == [dead |-> FALSE, replaced |-> FALSE, epoch |-> 0]

\* Does node u, as it is in in, read d at slot s?
Reads(in, u, s, d) == s \in DOMAIN in[u] /\ in[u][s] = d

\* The constructor makes node 0, Start.
Init ==
    /\ nodeCount = 1
    /\ nodes = [n \in {0} |-> Fresh]
    /\ inputs = [n \in {0} |-> << >>]
    /\ uses = [n \in {0} |-> [u \in Uses |-> 0]]
    /\ replacements = << >>
    /\ epoch = 0

\* What a caller may name as an input of a node, given that ids below k exist.
Operands(k) == (0 .. k - 1) \cup Strays

\* The use lists after makeRaw, had it tested the range of an input before the
\* node was in the array: a node that reads itself is not in its own list.
UsesWithEarly(ins) ==
    [d \in 0 .. nodeCount |-> [u \in Uses |->
        IF d = nodeCount THEN 0
        ELSE uses[d][u] + IF u[1] = nodeCount /\ u[2] \in DOMAIN ins /\ ins[u[2]] = d
                          THEN 1 ELSE 0]]

\* The use lists after makeRaw of a node with the inputs ins.  The node is in
\* the array by then; an input that does not exist is entered nowhere.
UsesWith(ins) ==
    [d \in 0 .. nodeCount |-> [u \in Uses |->
        (IF d = nodeCount THEN 0 ELSE uses[d][u])
        + (IF u[1] = nodeCount /\ u[2] \in DOMAIN ins /\ ins[u[2]] = d THEN 1 ELSE 0)]]

\* makeRaw, behind every maker.
Make(ins) ==
    /\ nodeCount < MaxNodes
    /\ nodeCount' = nodeCount + 1
    /\ nodes' = [n \in 0 .. nodeCount |-> IF n = nodeCount THEN Fresh ELSE nodes[n]]
    /\ inputs' = [n \in 0 .. nodeCount |-> IF n = nodeCount THEN ins ELSE inputs[n]]
    /\ uses' = UsesWith(ins)
    /\ UNCHANGED <<replacements, epoch>>

\* A rewiring that leaves the entries of the old inputs behind.
RewireKeepingOld(S, v) ==
    /\ inputs' = [n \in Ids |-> [s \in DOMAIN inputs[n] |->
                     IF <<n, s>> \in S THEN v ELSE inputs[n][s]]]
    /\ uses' = [d \in Ids |-> [u \in Uses |->
                   uses[d][u] + IF u \in S /\ d = v THEN 1 ELSE 0]]

\* setInput on each (user, slot) of S, none of which holds v: store v, remove
\* one entry from the list of the old input (removeFromUses), add one to v's.
Rewire(S, v) ==
    /\ inputs' = [n \in Ids |-> [s \in DOMAIN inputs[n] |->
                     IF <<n, s>> \in S THEN v ELSE inputs[n][s]]]
    /\ uses' = [d \in Ids |-> [u \in Uses |->
                   uses[d][u]
                   - (IF u \in S /\ inputs[u[1]][u[2]] = d /\ uses[d][u] > 0 THEN 1 ELSE 0)
                   + (IF u \in S /\ d = v THEN 1 ELSE 0)]]

setInput(n, s, v) ==
    /\ n \in Ids /\ s \in DOMAIN inputs[n]
    /\ inputs[n][s] # v
    /\ Rewire({<<n, s>>}, v)
    /\ UNCHANGED <<nodeCount, nodes, replacements, epoch>>

\* The slice moves to the tail of the pool and grows by one.
appendInput(n, v) ==
    /\ n \in Ids /\ Len(inputs[n]) < MaxInputs
    /\ inputs' = [inputs EXCEPT ![n] = Append(@, v)]
    /\ uses' = [d \in Ids |-> [u \in Uses |->
                   uses[d][u] + IF d = v /\ u = <<n, Len(inputs[n]) + 1>> THEN 1 ELSE 0]]
    /\ UNCHANGED <<nodeCount, nodes, replacements, epoch>>

\* Iterating the list itself while setInput shrinks it would miss entries.
RewiredLive(old) ==
    {u \in Uses : /\ uses[old][u] > 0 /\ u[1] \in Ids /\ Reads(inputs, u[1], u[2], old)
                  /\ \A w \in Uses : uses[old][w] > 0 => u[1] <= w[1]}

\* The entries of old's list that replaceNode rewires: a snapshot, filtered by
\* what the slot holds when its turn comes.
Rewired(old) ==
    {u \in Uses : /\ uses[old][u] > 0 /\ u[1] \in Ids
                  /\ Reads(inputs, u[1], u[2], old)}

replaceNode(old, with) ==
    /\ epoch < MaxEpoch
    /\ old \in Ids /\ with \in Ids
    /\ ~nodes[with].dead
    /\ old # with
    /\ Rewire(Rewired(old), with)
    /\ epoch' = epoch + 1
    /\ nodes' = [nodes EXCEPT ![old] = [dead |-> TRUE, replaced |-> TRUE, epoch |-> epoch + 1]]
    /\ replacements' = Append(replacements,
                              [oldNode |-> old, newNode |-> with, epoch |-> epoch + 1])
    /\ UNCHANGED nodeCount

\* Users are not rewired.
killNode(n) ==
    /\ epoch < MaxEpoch
    /\ n \in Ids
    /\ epoch' = epoch + 1
    /\ nodes' = [nodes EXCEPT ![n] = [dead |-> TRUE, replaced |-> @.replaced, epoch |-> epoch + 1]]
    /\ UNCHANGED <<nodeCount, inputs, uses, replacements>>

nextEpoch ==
    /\ epoch < MaxEpoch
    /\ epoch' = epoch + 1
    /\ UNCHANGED <<nodeCount, nodes, inputs, uses, replacements>>

(***************************************************************************)
(* serialize and deserializeInto.                                          *)
(***************************************************************************)

\* What verify, the load gate, demands of edges.  Its other checks are about
\* kinds and payloads; a graph may fail them, and then it is not reloaded.
LoadGate ==
    \A n \in Ids : \A s \in DOMAIN inputs[n] :
        /\ inputs[n][s] \in Ids
        /\ inputs[n][s] = n => s > 1          \* a Phi may read itself
        /\ ~nodes[inputs[n][s]].dead

LogEpochs == {replacements[i].epoch : i \in DOMAIN replacements}

\* epoch_ after a replay that does not raise it.
NoLogEpoch == 0

\* epoch_ after the log is replayed into a new graph.
LogEpoch == CHOOSE e \in LogEpochs \cup {0} : \A f \in LogEpochs : f <= e

\* The last entry of the log about n, or 0.
LastEntry(n) ==
    CHOOSE i \in DOMAIN replacements \cup {0} :
        /\ i # 0 => replacements[i].oldNode = n
        /\ \A j \in DOMAIN replacements : replacements[j].oldNode = n => j <= i

\* A graph is written out and read into a new Graph: nodes with their flags and
\* tags, then each edge by appendInput, then the log by replayReplacement.
Reload ==
    /\ LoadGate
    /\ uses' = [d \in Ids |-> [u \in Uses |->
                   IF u[1] \in Ids /\ Reads(inputs, u[1], u[2], d) THEN 1 ELSE 0]]
    /\ nodes' = [n \in Ids |->
                    IF LastEntry(n) = 0 THEN nodes[n]
                    ELSE [dead |-> TRUE, replaced |-> TRUE,
                          epoch |-> replacements[LastEntry(n)].epoch]]
    /\ epoch' = LogEpoch
    /\ UNCHANGED <<nodeCount, inputs, replacements>>

Next ==
    \/ \E k \in 0 .. MaxInputs : \E ins \in [1 .. k -> Operands(nodeCount + 1)] : Make(ins)
    \/ \E n \in Ids, s \in 1 .. MaxInputs, v \in Operands(nodeCount) : setInput(n, s, v)
    \/ \E n \in Ids \ {0}, v \in Operands(nodeCount) : appendInput(n, v)   \* Start has no inputs
    \/ \E old \in Ids \ {0}, with \in Ids : replaceNode(old, with)         \* no pass removes it
    \/ \E n \in Ids \ {0} : killNode(n)
    \/ nextEpoch
    \/ Reload

Spec == Init /\ [][Next]_vars

-----------------------------------------------------------------------------
Entries == [oldNode : Nat, newNode : Nat, epoch : Nat]

\* Every variable has its shape: use lists and edge slices exist for exactly
\* the nodes that exist, and nothing is longer than its field allows.
TypeOK ==
    /\ nodeCount \in 1 .. MaxNodes
    /\ nodes \in [Ids -> [dead : BOOLEAN, replaced : BOOLEAN, epoch : Nat]]
    /\ DOMAIN inputs = Ids
    /\ \A n \in Ids : inputs[n] \in Seq(Nat) /\ Len(inputs[n]) <= MaxInputs
    /\ uses \in [Ids -> [Uses -> Nat]]
    /\ replacements \in Seq(Entries)
    /\ epoch \in Nat

\* An entry (user, slot) in a use list is there once, and that slot of that
\* user does hold the node: half of the def-use invariant of Graph.cpp, for
\* every sequence of makes, rewirings, replacements and reloads.
UsesSound ==
    \A d \in Ids, u \in Uses :
        uses[d][u] > 0 => uses[d][u] = 1 /\ u[1] \in Ids /\ Reads(inputs, u[1], u[2], d)

\* The discipline of the builder: what is stored before it exists, such as
\* kInvalidNodeId, is never the id of a node.
StraysNeverCreated == \A k \in Strays : k >= MaxNodes

\* An edge to a node that exists is in that node's use list: the other half.
\* replaceNode finds the readers of a node through it.
UsesComplete ==
    \A n \in Ids : \A s \in DOMAIN inputs[n] :
        inputs[n][s] \in Ids => uses[inputs[n][s]][<<n, s>>] > 0

\* When replaceNode marks a node Replaced no slot of any node, live or dead,
\* holds it any more.
ReplacedUnread ==
    [][\A n \in Ids : ~nodes[n].replaced /\ nodes'[n].replaced =>
          \A m \in Ids' : \A s \in DOMAIN inputs'[m] : inputs'[m][s] # n]_vars

\* The replacement log is in epoch order with no epoch twice, and none is ahead
\* of the graph's, although a reload starts the counter again from the log.
LogOrdered ==
    /\ \A i, j \in DOMAIN replacements : i < j => replacements[i].epoch < replacements[j].epoch
    /\ \A i \in DOMAIN replacements : replacements[i].epoch <= epoch
=============================================================================
