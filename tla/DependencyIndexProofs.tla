------------------------ MODULE DependencyIndexProofs ------------------------
(***************************************************************************)
(* Proofs about the runtime dependency index, for every set of ids and     *)
(* methods.                                                                *)
(***************************************************************************)
EXTENDS DependencyIndex, RankProofs, SequenceTheorems, WellFoundedInduction

(* Strictly sorted by (dep, node, region): what the binary searches assume. *)
Sorted(s) == \A p, q \in 1 .. Len(s) : p < q => EntryLess(s[p], s[q])

(* The inductive invariant. *)
IndexInv ==
    /\ entries \in Seq(Entry)
    /\ live \subseteq Entry
    /\ \A e \in live : Accepts(e)
    /\ Sorted(entries)
    /\ VectorMatchesHistory

----------------------------------------------------------------------------
(* The order on entries. *)

LEMMA IdsNatural ==
    ASSUME NEW e \in Entry
    PROVE  e.dep \in Nat /\ e.node \in Nat /\ e.region \in Nat
<1>1. Invalid \in Nat
  BY IdAssumption
<1>2. Deps \subseteq 0 .. Invalid - 1 /\ Nodes \subseteq 0 .. Invalid - 1
      /\ Regions \subseteq 0 .. Invalid - 1
  BY IdAssumption
<1>3. DepArgs \subseteq Nat /\ NodeArgs \subseteq Nat /\ RegionArgs \subseteq Nat
  BY <1>1, <1>2 DEF DepArgs, NodeArgs, RegionArgs
<1>4. e.dep \in DepArgs /\ e.node \in NodeArgs /\ e.region \in RegionArgs
  BY DEF Entry
<1>5. QED
  BY <1>3, <1>4

LEMMA KeyEqual ==
    ASSUME NEW a, NEW b
    PROVE  Key(a) = Key(b) <=> a.dep = b.dep /\ a.node = b.node /\ a.region = b.region
BY DEF Key

LEMMA LessTransitive ==
    ASSUME NEW a \in Entry, NEW b \in Entry, NEW c \in Entry,
           EntryLess(a, b), EntryLess(b, c)
    PROVE  EntryLess(a, c)
BY IdsNatural DEF EntryLess

(* Entries with different keys are ordered one way and not the other. *)
LEMMA LessTotal ==
    ASSUME NEW a \in Entry, NEW b \in Entry
    PROVE  /\ EntryLess(a, b) \/ EntryLess(b, a) \/ Key(a) = Key(b)
           /\ EntryLess(a, b) => Key(a) # Key(b) /\ ~EntryLess(b, a)
           /\ EntryLess(a, b) => a.dep <= b.dep
BY IdsNatural, KeyEqual DEF EntryLess

(* No key is stored twice. *)
LEMMA SortedDistinct ==
    ASSUME NEW s \in Seq(Entry), Sorted(s),
           NEW p \in 1 .. Len(s), NEW q \in 1 .. Len(s), Key(s[p]) = Key(s[q])
    PROVE  p = q
<1>1. Len(s) \in Nat /\ s[p] \in Entry /\ s[q] \in Entry
  OBVIOUS
<1>2. ~EntryLess(s[p], s[q]) /\ ~EntryLess(s[q], s[p])
  BY <1>1, LessTotal
<1>3. ~(p < q) /\ ~(q < p)
  BY <1>2 DEF Sorted
<1>4. QED
  BY <1>1, <1>3

----------------------------------------------------------------------------
(* The binary search and the insertion. *)

(* std::lower_bound finds a position: everything before it is less than e,  *)
(* and in a sorted vector nothing from it on is.                            *)
LEMMA LowerBoundFinds ==
    ASSUME NEW s \in Seq(Entry), Sorted(s), NEW e \in Entry
    PROVE  /\ LowerBound(s, e) \in 1 .. Len(s) + 1
           /\ \A q \in 1 .. LowerBound(s, e) - 1 : EntryLess(s[q], e)
           /\ \A q \in LowerBound(s, e) .. Len(s) : ~EntryLess(s[q], e)
<1> DEFINE stops == {p \in 1 .. Len(s) + 1 : p <= Len(s) => ~EntryLess(s[p], e)}
<1>1. Len(s) \in Nat /\ \A q \in 1 .. Len(s) : s[q] \in Entry
  OBVIOUS
<1>2. Len(s) + 1 \in stops /\ stops \in SUBSET Nat
  BY <1>1
<1>3. PICK p \in stops : \A q \in stops : <<q, p>> \notin OpToRel(<, Nat)
  BY <1>2, NatLessThanWellFounded, WFMin, Zenon
<1>4. \A q \in stops : ~(q < p)
  BY <1>2, <1>3 DEF OpToRel
<1>5. p \in 1 .. Len(s) + 1 /\ (p <= Len(s) => ~EntryLess(s[p], e))
  OBVIOUS
<1>6. \A q \in 1 .. p - 1 : q \in 1 .. Len(s) /\ q < p
  BY <1>1, <1>5
<1>7. \A q \in 1 .. p - 1 : EntryLess(s[q], e)
  BY <1>1, <1>4, <1>6
<1>8. /\ LowerBound(s, e) \in 1 .. Len(s) + 1
      /\ LowerBound(s, e) <= Len(s) => ~EntryLess(s[LowerBound(s, e)], e)
      /\ \A q \in 1 .. LowerBound(s, e) - 1 : EntryLess(s[q], e)
  BY <1>5, <1>7 DEF LowerBound
<1> HIDE DEF stops
<1>9. ASSUME NEW q \in LowerBound(s, e) .. Len(s)
      PROVE  ~EntryLess(s[q], e)
  <2> DEFINE b == LowerBound(s, e)
  <2>1. b \in 1 .. Len(s) /\ q \in 1 .. Len(s) /\ b <= q /\ ~EntryLess(s[b], e)
    BY <1>1, <1>8
  <2> HIDE DEF b
  <2>2. b = q \/ EntryLess(s[b], s[q])
    BY <1>1, <2>1 DEF Sorted
  <2>3. QED
    BY <1>1, <2>1, <2>2, LessTransitive
<1>10. QED
  BY <1>8, <1>9

LEMMA InsertAtProperties ==
    ASSUME NEW S, NEW s \in Seq(S), NEW e \in S, NEW p \in 1 .. Len(s) + 1
    PROVE  /\ InsertAt(s, p, e) \in Seq(S)
           /\ Len(InsertAt(s, p, e)) = Len(s) + 1
           /\ \A q \in 1 .. Len(s) + 1 :
                 InsertAt(s, p, e)[q] = IF q < p THEN s[q] ELSE IF q = p THEN e ELSE s[q - 1]
<1> DEFINE before == SubSeq(s, 1, p - 1)
           after == SubSeq(s, p, Len(s))
<1>1. Len(s) \in Nat /\ p \in Nat
  OBVIOUS
<1>2. before \in Seq(S) /\ Len(before) = p - 1 /\ \A q \in 1 .. p - 1 : before[q] = s[q]
  BY <1>1
<1>3. after \in Seq(S) /\ Len(after) = Len(s) + 1 - p
      /\ \A q \in 1 .. Len(s) + 1 - p : after[q] = s[q + p - 1]
  BY <1>1
<1>4. InsertAt(s, p, e) = before \o <<e>> \o after
  BY DEF InsertAt
<1> HIDE DEF before, after
<1> DEFINE left == before \o <<e>>
<1>5. left \in Seq(S) /\ Len(left) = p
      /\ \A q \in 1 .. p : left[q] = IF q < p THEN s[q] ELSE e
  BY <1>1, <1>2
<1> HIDE DEF left
<1>6. InsertAt(s, p, e) = left \o after
  BY <1>4 DEF left
<1> DEFINE t == left \o after
<1>7. t \in Seq(S)
  BY <1>3, <1>5
<1>8. Len(t) = Len(left) + Len(after) /\ \A q \in 1 .. Len(left) + Len(after) :
        t[q] = IF q <= Len(left) THEN left[q] ELSE after[q - Len(left)]
  <2>1. left \in Seq(S) /\ after \in Seq(S)
    BY <1>3, <1>5
  <2>2. QED
    BY <2>1, ConcatProperties
<1> HIDE DEF t
<1>9. ASSUME NEW q \in 1 .. Len(s) + 1
      PROVE  t[q] = IF q < p THEN s[q] ELSE IF q = p THEN e ELSE s[q - 1]
  <2>1. q \in 1 .. Len(left) + Len(after) /\ q \in Nat
    BY <1>1, <1>3, <1>5
  <2>2. t[q] = IF q <= p THEN left[q] ELSE after[q - p]
    BY <1>5, <1>8, <2>1
  <2>3. CASE q <= p
    <3>1. q \in 1 .. p
      BY <1>1, <2>1, <2>3
    <3>2. left[q] = IF q < p THEN s[q] ELSE e
      BY <1>5, <3>1
    <3>3. QED
      BY <1>1, <2>1, <2>2, <2>3, <3>2
  <2>4. CASE ~(q <= p)
    <3>1. q - p \in 1 .. Len(s) + 1 - p /\ (q - p) + p - 1 = q - 1
      BY <1>1, <2>1, <2>4
    <3>2. after[q - p] = s[q - 1]
      BY <1>3, <3>1
    <3>3. ~(q < p) /\ q # p
      BY <1>1, <2>1, <2>4
    <3>4. QED
      BY <2>2, <2>4, <3>2, <3>3
  <2>5. QED
    BY <2>3, <2>4
<1>10. Len(t) = Len(s) + 1
  BY <1>1, <1>3, <1>5, <1>8
<1>11. InsertAt(s, p, e) = t
  BY <1>6 DEF t
<1>12. QED
  BY <1>7, <1>9, <1>10, <1>11

----------------------------------------------------------------------------
(* What record() and retireMethod() make of the vector. *)

(* The entries a vector holds. *)
Elements(s) == {s[p] : p \in 1 .. Len(s)}

LEMMA FoundIsKey ==
    ASSUME NEW e
    PROVE  FoundAt(e, 3) <=> /\ LowerBound(entries, e) <= Len(entries)
                             /\ Key(entries[LowerBound(entries, e)]) = Key(e)
<1>1. ASSUME NEW x PROVE SubSeq(Key(x), 1, 3) = Key(x)
  <2> DEFINE S == {x.dep, x.node, x.region}
  <2>1. Key(x) \in Seq(S) /\ Len(Key(x)) = 3
    BY DEF Key
  <2>2. SubSeq(Key(x), 1, Len(Key(x))) = Key(x)
    BY <2>1, SubSeqFull
  <2>3. QED
    BY <2>1, <2>2
<1>2. QED
  BY <1>1 DEF FoundAt

(* The deduplication is exact: the lower bound holds the key if and only if *)
(* the vector holds it anywhere.                                            *)
LEMMA FoundIsHeld ==
    ASSUME entries \in Seq(Entry), Sorted(entries), NEW e \in Entry
    PROVE  FoundAt(e, 3) <=> \E x \in Elements(entries) : Key(x) = Key(e)
<1> DEFINE b == LowerBound(entries, e)
<1>1. /\ b \in 1 .. Len(entries) + 1
      /\ \A q \in 1 .. b - 1 : EntryLess(entries[q], e)
      /\ \A q \in b .. Len(entries) : ~EntryLess(entries[q], e)
  BY LowerBoundFinds
<1>2. Len(entries) \in Nat /\ \A q \in 1 .. Len(entries) : entries[q] \in Entry
  OBVIOUS
<1>3. FoundAt(e, 3) <=> b <= Len(entries) /\ Key(entries[b]) = Key(e)
  BY FoundIsKey
<1> HIDE DEF b
<1>4. ASSUME NEW q \in 1 .. Len(entries), Key(entries[q]) = Key(e)
      PROVE  b <= Len(entries) /\ Key(entries[b]) = Key(e)
  <2>1. ~EntryLess(entries[q], e) /\ ~EntryLess(e, entries[q])
    BY <1>2, <1>4, LessTotal
  <2>2. ~(q < b)
    BY <1>1, <1>2, <2>1
  <2>3. b \in 1 .. Len(entries) /\ b <= q
    BY <1>1, <1>2, <2>2
  <2>4. CASE b = q
    BY <1>4, <2>3, <2>4
  <2>5. CASE b < q
    <3>1. EntryLess(entries[b], entries[q])
      BY <2>3, <2>5 DEF Sorted
    <3>2. ~EntryLess(entries[b], e)
      BY <1>1, <1>2, <2>3
    <3>3. EntryLess(entries[b], e)
      BY <1>4, <3>1, KeyEqual DEF EntryLess
    <3>4. QED
      BY <3>2, <3>3
  <2>6. QED
    BY <1>2, <2>3, <2>4, <2>5
<1>5. QED
  BY <1>1, <1>2, <1>3, <1>4 DEF Elements

LEMMA InsertionKeepsOrder ==
    ASSUME entries \in Seq(Entry), Sorted(entries), NEW e \in Entry, ~FoundAt(e, 3)
    PROVE  LET t == InsertAt(entries, LowerBound(entries, e), e)
           IN  t \in Seq(Entry) /\ Sorted(t) /\ Elements(t) = Elements(entries) \cup {e}
<1> DEFINE b == LowerBound(entries, e)
           t == InsertAt(entries, b, e)
           n == Len(entries)
<1>1. /\ b \in 1 .. n + 1
      /\ \A q \in 1 .. b - 1 : EntryLess(entries[q], e)
      /\ \A q \in b .. n : ~EntryLess(entries[q], e)
  BY LowerBoundFinds
<1>2. n \in Nat /\ \A q \in 1 .. n : entries[q] \in Entry
  OBVIOUS
<1> HIDE DEF b
<1>3. /\ t \in Seq(Entry)
      /\ Len(t) = n + 1
      /\ \A q \in 1 .. n + 1 :
            t[q] = IF q < b THEN entries[q] ELSE IF q = b THEN e ELSE entries[q - 1]
  BY <1>1, InsertAtProperties
<1>4. \A q \in 1 .. n : Key(entries[q]) # Key(e)
  BY FoundIsHeld DEF Elements
<1>5. \A p, q \in 1 .. n : p < q => EntryLess(entries[p], entries[q])
  BY DEF Sorted
<1> HIDE DEF t, n
<1>6. \A q \in b .. n : EntryLess(e, entries[q])
  BY <1>1, <1>2, <1>4, LessTotal
<1>7. ASSUME NEW p \in 1 .. n + 1, NEW q \in 1 .. n + 1, p < q
      PROVE  EntryLess(t[p], t[q])
  <2>1. p \in Nat /\ q \in Nat /\ b \in Nat
    BY <1>1, <1>2
  <2>2. CASE q < b
    <3>1. p < b /\ p \in 1 .. n /\ q \in 1 .. n
      BY <1>1, <1>2, <1>7, <2>1, <2>2
    <3>2. t[p] = entries[p] /\ t[q] = entries[q]
      BY <1>3, <2>2, <3>1
    <3>3. QED
      BY <1>5, <1>7, <3>1, <3>2
  <2>3. CASE q = b
    <3>1. p \in 1 .. b - 1 /\ p < b
      BY <1>2, <1>7, <2>1, <2>3
    <3>2. t[p] = entries[p] /\ t[q] = e
      BY <1>3, <2>1, <2>3, <3>1
    <3>3. QED
      BY <1>1, <3>1, <3>2
  <2>4. CASE b < q /\ p = b
    <3>1. t[p] = e /\ t[q] = entries[q - 1] /\ q - 1 \in b .. n
      BY <1>2, <1>3, <2>1, <2>4
    <3>2. QED
      BY <1>6, <3>1
  <2>5. CASE b < q /\ p < b
    <3>1. t[p] = entries[p] /\ t[q] = entries[q - 1]
      BY <1>3, <2>1, <2>5
    <3>2. p \in 1 .. n /\ q - 1 \in 1 .. n /\ p < q - 1
      BY <1>1, <1>2, <2>1, <2>5
    <3>3. QED
      BY <1>5, <3>1, <3>2
  <2>6. CASE b < q /\ b < p
    <3>1. t[p] = entries[p - 1] /\ t[q] = entries[q - 1]
      BY <1>3, <2>1, <2>6
    <3>2. p - 1 \in 1 .. n /\ q - 1 \in 1 .. n /\ p - 1 < q - 1
      BY <1>1, <1>2, <1>7, <2>1, <2>6
    <3>3. QED
      BY <1>5, <3>1, <3>2
  <2>7. QED
    BY <2>1, <2>2, <2>3, <2>4, <2>5, <2>6
<1>8. Elements(t) \subseteq Elements(entries) \cup {e}
  <2>1. SUFFICES ASSUME NEW q \in 1 .. n + 1
                 PROVE  t[q] = e \/ \E p \in 1 .. n : t[q] = entries[p]
    BY <1>3 DEF Elements, n
  <2>2. q < b => q \in 1 .. n
    BY <1>1, <1>2
  <2>3. ~(q < b) /\ q # b => q - 1 \in 1 .. n
    BY <1>1, <1>2
  <2>4. QED
    BY <1>3, <2>2, <2>3
<1>9. Elements(entries) \cup {e} \subseteq Elements(t)
  <2>1. b \in 1 .. Len(t) /\ t[b] = e
    BY <1>1, <1>2, <1>3
  <2>2. ASSUME NEW p \in 1 .. n
        PROVE  \E q \in 1 .. Len(t) : t[q] = entries[p]
    <3>1. CASE p < b
      <4>1. p \in 1 .. n + 1 /\ t[p] = entries[p]
        BY <1>2, <1>3, <3>1
      <4>2. QED
        BY <1>3, <4>1
    <3>2. CASE ~(p < b)
      <4>1. p + 1 \in 1 .. n + 1 /\ ~(p + 1 < b) /\ p + 1 # b /\ (p + 1) - 1 = p
        BY <1>1, <1>2, <3>2
      <4>2. t[p + 1] = entries[p]
        BY <1>3, <4>1
      <4>3. QED
        BY <1>3, <4>1, <4>2
    <3>3. QED
      BY <3>1, <3>2
  <2>3. QED
    BY <2>1, <2>2 DEF Elements, n
<1>10. QED
  BY <1>3, <1>7, <1>8, <1>9 DEF Sorted, t, b

LEMMA ErasureKeepsOrder ==
    ASSUME entries \in Seq(Entry), Sorted(entries), NEW m
    PROVE  LET t == SelectAt(entries, {p \in 1 .. Len(entries) : entries[p].method # m})
           IN  /\ t \in Seq(Entry) /\ Sorted(t)
               /\ Elements(t) = {x \in Elements(entries) : x.method # m}
<1> DEFINE D == {p \in 1 .. Len(entries) : entries[p].method # m}
           t == SelectAt(entries, D)
           at(i) == NthOf(D, i - 1)
<1>1. D \in SUBSET (1 .. Len(entries))
  OBVIOUS
<1> HIDE DEF D
<1>2. /\ t \in Seq(Entry)
      /\ \A i \in 1 .. Len(t) : at(i) \in D /\ t[i] = entries[at(i)]
      /\ \A p \in D : \E i \in 1 .. Len(t) : at(i) = p
      /\ \A i, j \in 1 .. Len(t) : i < j => at(i) < at(j)
  BY <1>1, SelectAtProperties
<1> HIDE DEF t, at
<1>3. Sorted(t)
  BY <1>1, <1>2 DEF Sorted
<1>4. Elements(t) = {entries[p] : p \in D}
  BY <1>2 DEF Elements
<1>5. {entries[p] : p \in D} = {x \in Elements(entries) : x.method # m}
  BY DEF Elements, D
<1>6. QED
  BY <1>2, <1>3, <1>4, <1>5 DEF t, D

----------------------------------------------------------------------------
(* The inductive invariant. *)

LEMMA MatchIsInclusion ==
    VectorMatchesHistory <=>
        /\ Elements(entries) \subseteq live
        /\ \A e \in live : Key(e) \in shared \/ e \in Elements(entries)
BY DEF VectorMatchesHistory, Elements

LEMMA InvInit == Init => IndexInv
<1>1. SUFFICES ASSUME Init PROVE IndexInv
  OBVIOUS
<1>2. entries = <<>> /\ live = {}
  BY <1>1 DEF Init
<1>3. entries \in Seq(Entry) /\ Len(entries) = 0
  BY <1>2
<1>4. \A p : p \notin 1 .. Len(entries)
  BY <1>3
<1>5. Sorted(entries)
  BY <1>4 DEF Sorted
<1>6. QED
  BY <1>2, <1>3, <1>4, <1>5 DEF IndexInv, VectorMatchesHistory

LEMMA RecordPreserves ==
    ASSUME IndexInv, NEW e \in Entry, Record(e)
    PROVE  IndexInv'
<1>1. entries \in Seq(Entry) /\ Sorted(entries) /\ live \subseteq Entry
      /\ (\A x \in live : Accepts(x)) /\ VectorMatchesHistory
  BY DEF IndexInv
<1>2. /\ Accepts(e)
      /\ live' = live \cup {e}
      /\ shared' = shared \cup {Key(e) : x \in {y \in live : Key(y) = Key(e) /\ y # e}}
      /\ entries' = IF FoundAt(e, 3) THEN entries
                    ELSE InsertAt(entries, LowerBound(entries, e), e)
  BY DEF Record, Recording, Remember
<1>3. live' \subseteq Entry /\ \A x \in live' : Accepts(x)
  BY <1>1, <1>2
<1>4. /\ Elements(entries) \subseteq live
      /\ \A x \in live : Key(x) \in shared \/ x \in Elements(entries)
  BY <1>1, MatchIsInclusion
<1>5. CASE FoundAt(e, 3)
  <2>1. entries' = entries
    BY <1>2, <1>5
  <2>2. PICK x \in Elements(entries) : Key(x) = Key(e)
    BY <1>1, <1>5, FoundIsHeld
  <2>3. x = e \/ Key(e) \in shared'
    BY <1>2, <1>4, <2>2
  <2>4. /\ Elements(entries) \subseteq live'
        /\ \A y \in live' : Key(y) \in shared' \/ y \in Elements(entries)
    BY <1>2, <1>4, <2>2, <2>3
  <2>5. VectorMatchesHistory'
    BY <2>1, <2>4 DEF VectorMatchesHistory, Elements
  <2>6. QED
    BY <1>1, <1>3, <2>1, <2>5 DEF IndexInv, Sorted, Accepts
<1>6. CASE ~FoundAt(e, 3)
  <2> DEFINE t == InsertAt(entries, LowerBound(entries, e), e)
  <2>1. entries' = t
    BY <1>2, <1>6
  <2>2. t \in Seq(Entry) /\ Sorted(t) /\ Elements(t) = Elements(entries) \cup {e}
    BY <1>1, <1>6, InsertionKeepsOrder
  <2> HIDE DEF t
  <2>3. /\ Elements(t) \subseteq live'
        /\ \A y \in live' : Key(y) \in shared' \/ y \in Elements(t)
    BY <1>2, <1>4, <2>2
  <2>4. VectorMatchesHistory'
    BY <2>1, <2>3 DEF VectorMatchesHistory, Elements
  <2>5. QED
    BY <1>3, <2>1, <2>2, <2>4 DEF IndexInv, Sorted, Accepts
<1>7. QED
  BY <1>5, <1>6

LEMMA RetirePreserves ==
    ASSUME IndexInv, NEW m \in Methods, RetireMethod(m)
    PROVE  IndexInv'
<1> DEFINE t == SelectAt(entries, {p \in 1 .. Len(entries) : entries[p].method # m})
<1>1. entries \in Seq(Entry) /\ Sorted(entries) /\ live \subseteq Entry
      /\ (\A x \in live : Accepts(x)) /\ VectorMatchesHistory
  BY DEF IndexInv
<1>2. entries' = t /\ live' = {e \in live : e.method # m} /\ shared' = shared
  BY DEF RetireMethod
<1>3. /\ t \in Seq(Entry) /\ Sorted(t)
      /\ Elements(t) = {x \in Elements(entries) : x.method # m}
  BY <1>1, ErasureKeepsOrder
<1> HIDE DEF t
<1>4. /\ Elements(entries) \subseteq live
      /\ \A x \in live : Key(x) \in shared \/ x \in Elements(entries)
  BY <1>1, MatchIsInclusion
<1>5. /\ Elements(t) \subseteq live'
      /\ \A y \in live' : Key(y) \in shared' \/ y \in Elements(t)
  BY <1>2, <1>3, <1>4
<1>6. VectorMatchesHistory'
  BY <1>2, <1>5 DEF VectorMatchesHistory, Elements
<1>7. live' \subseteq Entry /\ \A x \in live' : Accepts(x)
  BY <1>1, <1>2
<1>8. QED
  BY <1>2, <1>3, <1>6, <1>7 DEF IndexInv, Sorted, Accepts

LEMMA InvNext == IndexInv /\ [Next]_vars => IndexInv'
<1>1. SUFFICES ASSUME IndexInv, [Next]_vars PROVE IndexInv'
  OBVIOUS
<1>2. CASE UNCHANGED vars
  BY <1>1, <1>2 DEF vars, IndexInv, VectorMatchesHistory, Sorted, Accepts
<1>3. ASSUME NEW e \in Entry, Record(e) PROVE IndexInv'
  BY <1>1, <1>3, RecordPreserves
<1>4. ASSUME NEW e \in Entry, RecordRejected(e) PROVE IndexInv'
  BY <1>1, <1>2, <1>4 DEF RecordRejected
<1>5. ASSUME NEW m \in Methods, RetireMethod(m) PROVE IndexInv'
  BY <1>1, <1>5, RetirePreserves
<1>6. QED
  BY <1>1, <1>2, <1>3, <1>4, <1>5 DEF Next

(* The strengthened invariant of the index holds in every reachable state,  *)
(* for any ids and methods: record() and retireMethod() keep the vector     *)
(* sorted and in step with the associations recorded and not retired.       *)
THEOREM InvHolds == Spec => []IndexInv
<1>1. QED
  BY InvInit, InvNext, PTL DEF Spec

----------------------------------------------------------------------------
(* The queries. *)

LEMMA DepsAscend ==
    ASSUME IndexInv, NEW p \in 1 .. Len(entries), NEW q \in 1 .. Len(entries), p <= q
    PROVE  entries[p].dep <= entries[q].dep
<1>1. Len(entries) \in Nat /\ entries[p] \in Entry /\ entries[q] \in Entry
  BY DEF IndexInv
<1>2. p = q \/ EntryLess(entries[p], entries[q])
  BY <1>1 DEF IndexInv, Sorted
<1>3. QED
  BY <1>1, <1>2, LessTotal, IdsNatural

(* The two searches of invalidate() delimit exactly the entries of d. *)
LEMMA RangeIsDep ==
    ASSUME IndexInv, NEW d \in DepArgs
    PROVE  DepRange(d) = {p \in 1 .. Len(entries) : entries[p].dep = d}
<1>1. Len(entries) \in Nat /\ \A p \in 1 .. Len(entries) : entries[p] \in Entry
  BY DEF IndexInv
<1>2. \A p \in 1 .. Len(entries) : entries[p].dep \in Nat
  BY <1>1, IdsNatural
<1>3. d \in Nat
  BY IdAssumption DEF DepArgs
<1>4. \A p \in 1 .. Len(entries) : \A q \in 1 .. p : q \in 1 .. Len(entries) /\ q <= p
  BY <1>1
<1>5. \A p \in 1 .. Len(entries) : \A q \in 1 .. p : entries[q].dep <= entries[p].dep
  BY <1>4, DepsAscend
<1>6. \A p \in 1 .. Len(entries) : p \in 1 .. p
  BY <1>1
<1>7. ASSUME NEW p \in DepRange(d)
      PROVE  p \in 1 .. Len(entries) /\ entries[p].dep = d
  <2>1. p \in 1 .. Len(entries)
    BY DEF DepRange
  <2>2. PICK q \in 1 .. p : ~(entries[q].dep < d)
    BY DEF DepRange
  <2>3. ~(d < entries[p].dep)
    BY <1>6, <2>1 DEF DepRange
  <2>4. entries[q].dep <= entries[p].dep /\ entries[q].dep \in Nat
    BY <1>2, <1>4, <1>5, <2>1
  <2>5. QED
    BY <1>2, <1>3, <2>1, <2>2, <2>3, <2>4
<1>8. ASSUME NEW p \in 1 .. Len(entries), entries[p].dep = d
      PROVE  p \in DepRange(d)
  <2>1. \A q \in 1 .. p : ~(d < entries[q].dep)
    BY <1>2, <1>3, <1>4, <1>5, <1>8
  <2>2. p \in 1 .. p /\ ~(entries[p].dep < d)
    BY <1>3, <1>6, <1>8
  <2>3. QED
    BY <2>1, <2>2 DEF DepRange
<1>9. QED
  BY <1>7, <1>8

(* What invalidate() reports is what the entries of d name. *)
LEMMA InvalidateReads ==
    ASSUME IndexInv, NEW d \in DepArgs
    PROVE  LET held == {x \in Elements(entries) : x.dep = d}
           IN  Invalidate(d) = [nodes   |-> {x.node : x \in held} \ {Invalid},
                                regions |-> {x.region : x \in held} \ {Invalid}]
<1> DEFINE held == {x \in Elements(entries) : x.dep = d}
<1>1. CASE d # Invalid
  <2>1. held = {entries[p] : p \in DepRange(d)}
    BY RangeIsDep DEF Elements
  <2>2. {entries[p].node : p \in DepRange(d)} = {x.node : x \in held}
    BY <2>1
  <2>3. {entries[p].region : p \in DepRange(d)} = {x.region : x \in held}
    BY <2>1
  <2> HIDE DEF held
  <2>4. QED
    BY <1>1, <2>2, <2>3 DEF Invalidate, held
<1>2. CASE d = Invalid
  <2>1. \A x \in Elements(entries) : Accepts(x)
    BY MatchIsInclusion DEF IndexInv
  <2>2. held = {}
    BY <1>2, <2>1 DEF Accepts
  <2> HIDE DEF held
  <2>3. {x.node : x \in held} \ {Invalid} = {} /\ {x.region : x \in held} \ {Invalid} = {}
    BY <2>2
  <2>4. QED
    BY <1>2, <2>3 DEF Invalidate, held
<1>3. QED
  BY <1>1, <1>2

LEMMA NothingStaleFromInv == IndexInv => NothingStale
<1>1. SUFFICES ASSUME IndexInv, NEW d \in DepArgs
               PROVE  /\ Invalidate(d).nodes \subseteq LiveDirty(d).nodes
                      /\ Invalidate(d).regions \subseteq LiveDirty(d).regions
  BY DEF NothingStale
<1> DEFINE held == {x \in Elements(entries) : x.dep = d}
           alive == {x \in live : x.dep = d}
<1>2. held \subseteq alive
  BY <1>1, MatchIsInclusion DEF IndexInv
<1>3. Invalidate(d) = [nodes   |-> {x.node : x \in held} \ {Invalid},
                       regions |-> {x.region : x \in held} \ {Invalid}]
  BY <1>1, InvalidateReads
<1>4. LiveDirty(d) = [nodes   |-> {x.node : x \in alive} \ {Invalid},
                      regions |-> {x.region : x \in alive} \ {Invalid}]
  BY DEF LiveDirty
<1> HIDE DEF held, alive
<1>5. QED
  BY <1>2, <1>3, <1>4

LEMMA ExactFromInv == IndexInv => UnsharedKeysExact
<1>1. SUFFICES ASSUME IndexInv, NEW d \in Deps, \A k \in shared : k[1] # d
               PROVE  Invalidate(d) = LiveDirty(d)
  BY DEF UnsharedKeysExact
<1> DEFINE held == {x \in Elements(entries) : x.dep = d}
           alive == {x \in live : x.dep = d}
<1>2. \A x : Key(x)[1] = x.dep
  BY DEF Key
<1>3. held = alive
  BY <1>1, <1>2, MatchIsInclusion DEF IndexInv
<1>4. d \in DepArgs
  BY DEF DepArgs
<1>5. Invalidate(d) = [nodes   |-> {x.node : x \in held} \ {Invalid},
                       regions |-> {x.region : x \in held} \ {Invalid}]
  BY <1>1, <1>4, InvalidateReads
<1>6. LiveDirty(d) = [nodes   |-> {x.node : x \in alive} \ {Invalid},
                      regions |-> {x.region : x \in alive} \ {Invalid}]
  BY DEF LiveDirty
<1> HIDE DEF held, alive
<1>7. QED
  BY <1>3, <1>5, <1>6

(* For any ids and methods, invalidate() never reports a node or region     *)
(* that no live method recorded, whatever was retired and recorded before.  *)
THEOREM NeverStale == Spec => []NothingStale
BY InvHolds, NothingStaleFromInv, PTL

(* For any ids and methods, invalidate(d) reports exactly what live methods *)
(* recorded under d as long as no key of d was recorded by two methods.     *)
THEOREM ExactUnlessShared == Spec => []UnsharedKeysExact
BY InvHolds, ExactFromInv, PTL

----------------------------------------------------------------------------
(* distinctDependencies(): in a sorted vector the changes of dep, and the   *)
(* first entry, correspond one to one to the dependencies.                  *)

LEMMA DistinctCounted ==
    ASSUME IndexInv
    PROVE  DistinctDependencies = Cardinality({entries[p].dep : p \in 1 .. Len(entries)})
<1> DEFINE n == Len(entries)
           dep(p) == entries[p].dep
           deps == {dep(p) : p \in 1 .. n}
           changes == {p \in 2 .. n : dep(p) # dep(p - 1)}
<1>1. n \in Nat /\ \A p \in 1 .. n : entries[p] \in Entry
  BY DEF IndexInv
<1>2. \A p \in 1 .. n : dep(p) \in Nat
  BY <1>1, IdsNatural
<1>3. \A p, q \in 1 .. n : p <= q => dep(p) <= dep(q)
  BY DepsAscend
<1>4. CASE entries = <<>>
  <2>1. 1 .. n = {}
    BY <1>4
  <2>2. deps = {}
    BY <2>1
  <2>3. QED
    BY <1>4, <2>2, FS_EmptySet DEF DistinctDependencies
<1>5. CASE entries # <<>>
  <2> DEFINE firsts == changes \cup {1}
             f == [p \in firsts |-> dep(p)]
  <2>1. n >= 1
    BY <1>1, <1>5 DEF IndexInv
  <2>2. DistinctDependencies = 1 + Cardinality(changes)
    BY <1>5 DEF DistinctDependencies
  <2> HIDE DEF dep, n
  <2>3. IsFiniteSet(changes) /\ 1 \notin changes
    <3>1. IsFiniteSet(2 .. n)
      BY <1>1, FS_Interval
    <3>2. QED
      BY <1>1, <3>1, FS_Subset
  <2>4. IsFiniteSet(firsts) /\ Cardinality(firsts) = Cardinality(changes) + 1
    BY <2>3, FS_AddElement
  <2>5. firsts \subseteq 1 .. n
    BY <1>1, <2>1
  <2>6. f \in [firsts -> deps]
    BY <2>5
  <2>7. ASSUME NEW p \in firsts, NEW q \in firsts, p < q
        PROVE  dep(p) < dep(q)
    <3>1. q \in 2 .. n /\ dep(q) # dep(q - 1)
      BY <1>1, <2>5, <2>7
    <3>2. p \in 1 .. n /\ q - 1 \in 1 .. n /\ q \in 1 .. n /\ p <= q - 1 /\ q - 1 <= q
      BY <1>1, <2>5, <2>7, <3>1
    <3>3. dep(p) <= dep(q - 1) /\ dep(q - 1) <= dep(q)
      BY <1>3, <3>2
    <3>4. dep(p) \in Nat /\ dep(q - 1) \in Nat /\ dep(q) \in Nat
      BY <1>2, <3>2
    <3>5. QED
      BY <3>1, <3>3, <3>4
  <2>8. ASSUME NEW p \in firsts, NEW q \in firsts, f[p] = f[q]
        PROVE  p = q
    <3>1. dep(p) = dep(q) /\ p \in Nat /\ q \in Nat /\ dep(p) \in Nat
      BY <1>1, <1>2, <2>5, <2>8
    <3>2. ~(p < q) /\ ~(q < p)
      BY <2>7, <3>1
    <3>3. QED
      BY <3>1, <3>2
  <2>9. ASSUME NEW d \in deps
        PROVE  \E p \in firsts : f[p] = d
    <3> DEFINE places == {p \in 1 .. n : dep(p) = d}
    <3>1. places # {} /\ places \in SUBSET Nat
      BY <1>1
    <3>2. PICK p \in places : \A q \in places : <<q, p>> \notin OpToRel(<, Nat)
      BY <3>1, NatLessThanWellFounded, WFMin, Zenon
    <3>3. \A q \in places : ~(q < p)
      BY <3>1, <3>2 DEF OpToRel
    <3>4. p \in 1 .. n /\ dep(p) = d
      OBVIOUS
    <3>5. p \in firsts
      <4>1. CASE p = 1
        BY <4>1
      <4>2. CASE p # 1
        <5>1. p \in 2 .. n /\ p - 1 \in 1 .. n /\ p - 1 < p
          BY <1>1, <3>4, <4>2
        <5>2. dep(p - 1) # d
          BY <3>3, <5>1
        <5>3. QED
          BY <3>4, <5>1, <5>2
      <4>3. QED
        BY <4>1, <4>2
    <3>6. QED
      BY <3>4, <3>5
  <2> HIDE DEF firsts, f, deps
  <2>10. f \in Bijection(firsts, deps)
    BY <2>6, <2>8, <2>9 DEF Bijection, Injection, Surjection, IsInjective
  <2>11. Cardinality(deps) = Cardinality(firsts)
    <3>1. ExistsBijection(firsts, deps)
      BY <2>10 DEF ExistsBijection
    <3>2. QED
      BY <2>4, <3>1, FS_Bijection
  <2>12. Cardinality(changes) \in Nat
    BY <2>3, FS_CardinalityType
  <2>13. DistinctDependencies = Cardinality(deps)
    BY <2>2, <2>4, <2>11, <2>12
  <2>14. QED
    BY <2>13 DEF deps, dep, n
<1>6. QED
  BY <1>4, <1>5

(* For any ids and methods the vector stays well formed and strictly sorted *)
(* by (dep, node, region), and distinctDependencies() is the number of      *)
(* dependencies it tracks.                                                  *)
THEOREM TypeCorrect == Spec => []TypeOK
<1>1. IndexInv => TypeOK
  BY DistinctCounted DEF IndexInv, Sorted, TypeOK
<1>2. QED
  BY <1>1, InvHolds, PTL

----------------------------------------------------------------------------
(* The index implements the map. *)

(* owner as a function of the vector. *)
OwnerOf(s) == [k \in {Key(s[p]) : p \in 1 .. Len(s)} |->
                  s[CHOOSE p \in 1 .. Len(s) : Key(s[p]) = k].method]

LEMMA OwnerRead ==
    ASSUME NEW s \in Seq(Entry), Sorted(s)
    PROVE  /\ OwnerOf(s) = [k \in DOMAIN OwnerOf(s) |-> OwnerOf(s)[k]]
           /\ DOMAIN OwnerOf(s) = {Key(x) : x \in Elements(s)}
           /\ \A x \in Elements(s) : OwnerOf(s)[Key(x)] = x.method
<1>1. DOMAIN OwnerOf(s) = {Key(x) : x \in Elements(s)}
  BY DEF OwnerOf, Elements
<1>2. ASSUME NEW p \in 1 .. Len(s)
      PROVE  OwnerOf(s)[Key(s[p])] = s[p].method
  <2> DEFINE q == CHOOSE q \in 1 .. Len(s) : Key(s[q]) = Key(s[p])
  <2>1. q \in 1 .. Len(s) /\ Key(s[q]) = Key(s[p])
    OBVIOUS
  <2>2. OwnerOf(s)[Key(s[p])] = s[q].method
    BY DEF OwnerOf
  <2> HIDE DEF q
  <2>3. q = p
    BY <2>1, SortedDistinct
  <2>4. QED
    BY <2>2, <2>3
<1>3. OwnerOf(s) = [k \in DOMAIN OwnerOf(s) |-> OwnerOf(s)[k]]
  BY DEF OwnerOf
<1>4. QED
  BY <1>1, <1>2, <1>3 DEF Elements

LEMMA OwnerNow == owner = OwnerOf(entries) /\ owner' = OwnerOf(entries')
BY DEF owner, OwnerOf

LEMMA RecordImplements ==
    ASSUME IndexInv, IndexInv', NEW e \in Entry, Record(e)
    PROVE  [Map!Next]_owner
<1>1. /\ Accepts(e)
      /\ entries' = IF FoundAt(e, 3) THEN entries
                    ELSE InsertAt(entries, LowerBound(entries, e), e)
  BY DEF Record, Recording
<1>2. entries \in Seq(Entry) /\ Sorted(entries) /\ entries' \in Seq(Entry) /\ Sorted(entries')
  BY DEF IndexInv, Sorted
<1>3. CASE FoundAt(e, 3)
  BY <1>1, <1>3 DEF owner
<1>4. CASE ~FoundAt(e, 3)
  <2> DEFINE o == OwnerOf(entries)
             t == OwnerOf(entries')
             k == Key(e)
  <2>1. Elements(entries') = Elements(entries) \cup {e}
    BY <1>1, <1>2, <1>4, InsertionKeepsOrder
  <2>2. /\ o = [j \in DOMAIN o |-> o[j]]
        /\ DOMAIN o = {Key(x) : x \in Elements(entries)}
        /\ \A x \in Elements(entries) : o[Key(x)] = x.method
    BY <1>2, OwnerRead
  <2>3. /\ t = [j \in DOMAIN t |-> t[j]]
        /\ DOMAIN t = {Key(x) : x \in Elements(entries')}
        /\ \A x \in Elements(entries') : t[Key(x)] = x.method
    BY <1>2, OwnerRead
  <2> HIDE DEF o, t
  <2>4. k \notin DOMAIN o
    BY <1>2, <1>4, <2>2, FoundIsHeld
  <2>5. DOMAIN t = DOMAIN o \cup {k}
    BY <2>1, <2>2, <2>3
  <2>6. \A j \in DOMAIN o \cup {k} : t[j] = IF j = k THEN e.method ELSE o[j]
    BY <2>1, <2>2, <2>3, <2>4
  <2>7. t = [j \in DOMAIN o \cup {k} |-> IF j = k THEN e.method ELSE o[j]]
    BY <2>3, <2>5, <2>6
  <2>8. owner = o /\ owner' = t
    BY OwnerNow DEF o, t
  <2>9. k \in Keys /\ e.method \in Methods
    BY <1>1 DEF Keys, Key, Entry, Accepts
  <2> HIDE DEF k
  <2>10. Map!Record(k, e.method)
    BY <2>4, <2>7, <2>8 DEF Map!Record, Map!Recorded
  <2>11. QED
    BY <2>9, <2>10 DEF Map!Next
<1>5. QED
  BY <1>3, <1>4

LEMMA RetireImplements ==
    ASSUME IndexInv, IndexInv', NEW m \in Methods, RetireMethod(m)
    PROVE  Map!Next
<1> DEFINE o == OwnerOf(entries)
           t == OwnerOf(entries')
<1>1. entries \in Seq(Entry) /\ Sorted(entries) /\ entries' \in Seq(Entry) /\ Sorted(entries')
  BY DEF IndexInv, Sorted
<1>2. Elements(entries') = {x \in Elements(entries) : x.method # m}
  BY <1>1, ErasureKeepsOrder DEF RetireMethod
<1>3. /\ DOMAIN o = {Key(x) : x \in Elements(entries)}
      /\ \A x \in Elements(entries) : o[Key(x)] = x.method
  BY <1>1, OwnerRead
<1>4. /\ t = [j \in DOMAIN t |-> t[j]]
      /\ DOMAIN t = {Key(x) : x \in Elements(entries')}
      /\ \A x \in Elements(entries') : t[Key(x)] = x.method
  BY <1>1, OwnerRead
<1>5. owner = o /\ owner' = t
  BY OwnerNow
<1> HIDE DEF o, t
<1>6. DOMAIN t = {j \in DOMAIN o : o[j] # m}
  BY <1>2, <1>3, <1>4
<1>7. \A j \in DOMAIN t : t[j] = o[j]
  BY <1>2, <1>3, <1>4
<1>8. t = [j \in {i \in DOMAIN o : o[i] # m} |-> o[j]]
  BY <1>4, <1>6, <1>7
<1>9. Map!Retire(m)
  BY <1>5, <1>8 DEF Map!Retire, Map!Recorded
<1>10. QED
  BY <1>9 DEF Map!Next

(* For any ids and methods the sorted vector implements the map from keys   *)
(* to the method that recorded them first: every record() and               *)
(* retireMethod() is a step of the map or leaves it as it is.               *)
THEOREM IndexImplementsMap == Spec => ImplementsMap
<1>1. Init => Map!Init
  <2>1. SUFFICES ASSUME Init PROVE Map!Init
    OBVIOUS
  <2>2. entries = <<>> /\ Len(entries) = 0
    BY <2>1 DEF Init
  <2>3. 1 .. Len(entries) = {}
    BY <2>2
  <2>4. {Key(entries[p]) : p \in 1 .. Len(entries)} = {}
    BY <2>3
  <2>5. QED
    BY <2>4 DEF Map!Init, owner
<1>2. IndexInv /\ IndexInv' /\ [Next]_vars => [Map!Next]_owner
  <2>1. SUFFICES ASSUME IndexInv, IndexInv', [Next]_vars PROVE [Map!Next]_owner
    OBVIOUS
  <2>2. CASE UNCHANGED vars
    BY <2>2 DEF vars, owner
  <2>3. ASSUME NEW e \in Entry, Record(e) PROVE [Map!Next]_owner
    BY <2>1, <2>3, RecordImplements
  <2>4. ASSUME NEW e \in Entry, RecordRejected(e) PROVE [Map!Next]_owner
    BY <2>2, <2>4 DEF RecordRejected
  <2>5. ASSUME NEW m \in Methods, RetireMethod(m) PROVE [Map!Next]_owner
    BY <2>1, <2>5, RetireImplements
  <2>6. QED
    BY <2>1, <2>2, <2>3, <2>4, <2>5 DEF Next
<1>3. QED
  BY <1>1, <1>2, InvHolds, PTL DEF Spec, ImplementsMap, Map!Spec
=============================================================================
