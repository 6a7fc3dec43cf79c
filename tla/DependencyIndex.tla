--------------------------- MODULE DependencyIndex ---------------------------
(***************************************************************************)
(* The runtime DependencyIndex (compiler/pipeline/src/DependencyIndex.cpp).*)
(* The inverse map from a speculation assumption (a dependency id) to the  *)
(* nodes and regions compiled under it is one vector kept sorted by        *)
(* (dep, node, region).  record() inserts at the lower bound and drops a   *)
(* duplicate key, retireMethod() erases the entries of one method, and     *)
(* invalidate() reads the dirty set of a broken assumption.                *)
(*                                                                         *)
(* The index is process-global while node ids number the nodes of ONE      *)
(* method's graph, so two methods can record the same (dep, node, region). *)
(***************************************************************************)
EXTENDS Ranks, SequencesExt

CONSTANTS Deps, Nodes, Regions,   \* ids in use, all natural numbers
          Methods,                \* method ids
          Invalid                 \* 0xFFFFFFFF: kInvalidDependency, kInvalidNodeId, kInvalidRegion

ASSUME IdAssumption ==
    /\ Invalid \in Nat
    /\ \A S \in {Deps, Nodes, Regions} : S \subseteq 0 .. Invalid - 1

VARIABLES entries,   \* entries_: the sorted vector of (dep, node, region, method)
          live,      \* history: associations recorded by methods not retired since
          shared     \* history: keys whose duplicate, of another method, was dropped

vars == <<entries, live, shared>>

DepArgs == Deps \cup {Invalid}
NodeArgs == Nodes \cup {Invalid}
RegionArgs == Regions \cup {Invalid}

Entry == [dep : DepArgs, node : NodeArgs, region : RegionArgs, method : Methods]

Key(e) == <<e.dep, e.node, e.region>>

\* EntryLess: lexicographic on (dep, node, region); the method is not compared.
EntryLess(a, b) ==
    \/ a.dep < b.dep
    \/ a.dep = b.dep /\ a.node < b.node
    \/ a.dep = b.dep /\ a.node = b.node /\ a.region < b.region

\* std::lower_bound: the first position whose entry is not less than e.
LowerBound(s, e) ==
    CHOOSE p \in 1 .. Len(s) + 1 :
        /\ p <= Len(s) => ~EntryLess(s[p], e)
        /\ \A q \in 1 .. p - 1 : EntryLess(s[q], e)

Init == entries = <<>> /\ live = {} /\ shared = {}

\* The history of a record(): e is live, and its key is shared when another
\* method already holds it.
Remember(e) ==
    /\ live' = live \cup {e}
    /\ shared' = shared \cup {Key(e) : x \in {y \in live : Key(y) = Key(e) /\ y # e}}

\* The early returns of record().
Accepts(e) == e.dep # Invalid /\ (e.node # Invalid \/ e.region # Invalid)

\* An accepted record(): skip a duplicate, else take the insertion.
Recording(e, duplicate, insertion) ==
    /\ Remember(e)
    /\ entries' = IF duplicate THEN entries ELSE insertion

\* The entry at the lower bound of e matches e on the first k key fields.
FoundAt(e, k) ==
    LET p == LowerBound(entries, e)
    IN  p <= Len(entries) /\ SubSeq(Key(entries[p]), 1, k) = SubSeq(Key(e), 1, k)

\* Plausible slips: deduplication on (dep, node) alone, appending instead of
\* inserting.
RecordIgnoringRegion(e) ==
    Accepts(e) /\ Recording(e, FoundAt(e, 2), InsertAt(entries, LowerBound(entries, e), e))
RecordAppending(e) ==
    Accepts(e) /\ Recording(e, FoundAt(e, 3), Append(entries, e))

\* DependencyIndex::record: insert at the lower bound of (dep, node, region)
\* unless the entry there has the same key.
Record(e) ==
    Accepts(e) /\ Recording(e, FoundAt(e, 3), InsertAt(entries, LowerBound(entries, e), e))

RecordRejected(e) ==
    ~Accepts(e) /\ UNCHANGED vars

\* A retireMethod() that erases only the first entry of the method.
RetireFirst(m) ==
    /\ entries' = RemoveFirstMatch(entries, LAMBDA e : e.method = m)
    /\ live' = {e \in live : e.method # m}
    /\ UNCHANGED shared

\* DependencyIndex::retireMethod: erase-remove over the whole vector, which
\* keeps the other entries in their order.
RetireMethod(m) ==
    /\ entries' = SelectAt(entries, {p \in 1 .. Len(entries) : entries[p].method # m})
    /\ live' = {e \in live : e.method # m}
    /\ UNCHANGED shared

Next == \/ \E e \in Entry : Record(e) \/ RecordRejected(e)
        \/ \E m \in Methods : RetireMethod(m)

Spec == Init /\ [][Next]_vars

-----------------------------------------------------------------------------
\* std::upper_bound over the dependency alone, as invalidate() calls it.
DepRange(d) == {p \in 1 .. Len(entries) :
                    /\ \E q \in 1 .. p : ~(entries[q].dep < d)
                    /\ \A q \in 1 .. p : ~(d < entries[q].dep)}

\* DependencyIndex::invalidate (const): the two result vectors, as sets.
Invalidate(d) ==
    IF d = Invalid THEN [nodes |-> {}, regions |-> {}]
    ELSE [nodes   |-> {entries[p].node : p \in DepRange(d)} \ {Invalid},
          regions |-> {entries[p].region : p \in DepRange(d)} \ {Invalid}]

\* distinctDependencies: one more than the number of changes of dep.
DistinctDependencies ==
    IF entries = <<>> THEN 0
    ELSE 1 + Cardinality({p \in 2 .. Len(entries) : entries[p].dep # entries[p - 1].dep})

-----------------------------------------------------------------------------
\* The dirty set of d according to the recorded history.
LiveDirty(d) ==
    [nodes   |-> {e.node : e \in {x \in live : x.dep = d}} \ {Invalid},
     regions |-> {e.region : e \in {x \in live : x.dep = d}} \ {Invalid}]

\* Type invariant: the vector holds well-formed entries and nothing the
\* early returns of record() should have kept out.  It stays strictly sorted
\* through every record() and retireMethod(), so the binary searches are
\* entitled to assume it, no key is stored twice, and the adjacent groups
\* distinctDependencies() counts are the dependencies tracked.
TypeOK ==
    /\ entries \in Seq(Entry)
    /\ live \subseteq Entry
    /\ \A e \in live : Accepts(e)
    /\ \A p, q \in 1 .. Len(entries) : p < q => EntryLess(entries[p], entries[q])
    /\ DistinctDependencies = Cardinality({entries[p].dep : p \in 1 .. Len(entries)})

\* If no two methods ever shared a key under d, invalidate(d) returns exactly
\* the nodes and regions recorded under d by methods that were not retired:
\* record, retire and re-record in any order lose nothing and keep nothing.
UnsharedKeysExact ==
    \A d \in Deps : (\A k \in shared : k[1] # d) => Invalidate(d) = LiveDirty(d)

\* invalidate() never reports a node or region that no live method recorded:
\* the comment on retireMethod ("all its dependencies are removed").
NothingStale ==
    \A d \in DepArgs : /\ Invalidate(d).nodes \subseteq LiveDirty(d).nodes
                       /\ Invalidate(d).regions \subseteq LiveDirty(d).regions

\* What the header says of invalidate(): "Mark all nodes/regions dependent on
\* `dep` dirty".  A live association of any method is reported.
AllDependentsDirty ==
    \A d \in Deps : /\ LiveDirty(d).nodes \subseteq Invalidate(d).nodes
                    /\ LiveDirty(d).regions \subseteq Invalidate(d).regions

\* What record() and retireMethod() preserve together: the vector holds live
\* associations only, and a live association missing from it was dropped for
\* another method's entry with its key.
VectorMatchesHistory ==
    /\ \A p \in 1 .. Len(entries) : entries[p] \in live
    /\ \A e \in live : Key(e) \in shared \/ \E p \in 1 .. Len(entries) : entries[p] = e

-----------------------------------------------------------------------------
\* The vector read as a map from keys to first-seen methods.
owner == [k \in {Key(entries[p]) : p \in 1 .. Len(entries)} |->
             entries[CHOOSE p \in 1 .. Len(entries) : Key(entries[p]) = k].method]

Keys == {k \in DepArgs \X NodeArgs \X RegionArgs :
            k[1] # Invalid /\ (k[2] # Invalid \/ k[3] # Invalid)}

Map == INSTANCE DependencyMap

\* Every record() and retireMethod() is a step of the abstract map: the first
\* method to record a key owns it until it is retired.
ImplementsMap == Map!Spec
=============================================================================
