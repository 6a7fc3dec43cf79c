------------------------------ MODULE RankProofs ------------------------------
(***************************************************************************)
(* Facts about ranks: they number the members of a finite set of naturals  *)
(* in increasing order without gaps.                                       *)
(***************************************************************************)
EXTENDS Ranks, Sequences, FiniteSetTheorems, TLAPS

(* A member of D has at least one fewer members of D below it than D has. *)
LEMMA RankBound ==
    ASSUME NEW D \in SUBSET Nat, IsFiniteSet(D), NEW n \in D
    PROVE  Rank(D, n) \in 0 .. Cardinality(D) - 1
<1> DEFINE below == {m \in D : m < n}
<1>1. below \in SUBSET D /\ n \notin below
  OBVIOUS
<1>2. IsFiniteSet(below) /\ Cardinality(below) <= Cardinality(D)
      /\ (Cardinality(D) = Cardinality(below) => D = below)
  BY <1>1, FS_Subset
<1>3. Cardinality(below) \in Nat /\ Cardinality(D) \in Nat
  BY <1>2, FS_CardinalityType
<1>4. D # below
  BY <1>1
<1> HIDE DEF below
<1>5. Cardinality(below) \in 0 .. Cardinality(D) - 1
  BY <1>2, <1>3, <1>4
<1>6. QED
  BY <1>5 DEF Rank, below

(* Ranks increase with the members. *)
LEMMA RankIncreasing ==
    ASSUME NEW D \in SUBSET Nat, IsFiniteSet(D), NEW n \in D, NEW p \in D, n < p
    PROVE  Rank(D, n) < Rank(D, p)
<1> DEFINE E == {m \in D : m < p}
<1>1. E \in SUBSET Nat /\ E \in SUBSET D /\ n \in E
  OBVIOUS
<1>2. IsFiniteSet(E)
  BY <1>1, FS_Subset
<1>3. {m \in E : m < n} = {m \in D : m < n}
  <2>1. \A m \in D : m < n => m < p
    OBVIOUS
  <2>2. QED
    BY <2>1
<1>4. Rank(E, n) \in 0 .. Cardinality(E) - 1 /\ Cardinality(E) \in Nat
  BY <1>1, <1>2, RankBound, FS_CardinalityType
<1>5. Rank(E, n) = Rank(D, n) /\ Cardinality(E) = Rank(D, p)
  BY <1>3 DEF Rank
<1>6. QED
  BY <1>4, <1>5

(* No two members share a rank. *)
LEMMA RankInjective ==
    ASSUME NEW D \in SUBSET Nat, IsFiniteSet(D), NEW n \in D, NEW p \in D,
           Rank(D, n) = Rank(D, p)
    PROVE  n = p
<1>1. n \in Nat /\ p \in Nat
  OBVIOUS
<1>2. Rank(D, n) \in Int /\ Rank(D, p) \in Int
  BY RankBound
<1>3. ~(n < p) /\ ~(p < n)
  BY <1>2, RankIncreasing
<1>4. QED
  BY <1>1, <1>3

(* Ranks map a finite set one to one onto 0 .. Cardinality(D) - 1, so that  *)
(* every index of the vector holds a node.                                  *)
LEMMA RankOnto ==
    ASSUME NEW D \in SUBSET Nat, IsFiniteSet(D), NEW k \in 0 .. Cardinality(D) - 1
    PROVE  \E n \in D : Rank(D, n) = k
<1> DEFINE I == 0 .. Cardinality(D) - 1
           rank == [n \in D |-> Rank(D, n)]
<1>1. Cardinality(D) \in Nat
  BY FS_CardinalityType
<1>2. IsFiniteSet(I) /\ Cardinality(I) = Cardinality(D)
  BY <1>1, FS_Interval
<1>3. rank \in [D -> I]
  BY RankBound
<1>4. \A n, p \in D : rank[n] = rank[p] => n = p
  BY RankInjective
<1>5. rank \in Injection(D, I)
  BY <1>3, <1>4 DEF Injection, IsInjective
<1> HIDE DEF I, rank
<1>6. rank \in Surjection(D, I)
  BY <1>2, <1>5, FS_Injection
<1>7. \E n \in D : rank[n] = k
  BY <1>6 DEF Surjection, I
<1>8. QED
  BY <1>7 DEF rank


(* Indexing the sorted vector inverts the rank. *)
LEMMA NthOfMember ==
    ASSUME NEW D \in SUBSET Nat, IsFiniteSet(D), NEW k \in 0 .. Cardinality(D) - 1
    PROVE  NthOf(D, k) \in D /\ Rank(D, NthOf(D, k)) = k
<1>1. \E n \in D : Rank(D, n) = k
  BY RankOnto
<1>2. QED
  BY <1>1 DEF NthOf

(* A later index holds a larger member. *)
LEMMA NthOfIncreasing ==
    ASSUME NEW D \in SUBSET Nat, IsFiniteSet(D),
           NEW j \in 0 .. Cardinality(D) - 1, NEW k \in 0 .. Cardinality(D) - 1, j < k
    PROVE  NthOf(D, j) < NthOf(D, k)
<1>1. NthOf(D, j) \in D /\ Rank(D, NthOf(D, j)) = j
  BY NthOfMember
<1>2. NthOf(D, k) \in D /\ Rank(D, NthOf(D, k)) = k
  BY NthOfMember
<1>3. ~(NthOf(D, k) < NthOf(D, j))
  <2>1. SUFFICES ASSUME NthOf(D, k) < NthOf(D, j) PROVE FALSE
    OBVIOUS
  <2>2. Rank(D, NthOf(D, k)) < Rank(D, NthOf(D, j))
    BY <1>1, <1>2, <2>1, RankIncreasing
  <2>3. QED
    BY <1>1, <1>2, <2>2
<1>4. NthOf(D, k) # NthOf(D, j)
  BY <1>1, <1>2
<1>5. NthOf(D, k) \in Nat /\ NthOf(D, j) \in Nat
  BY <1>1, <1>2
<1>6. QED
  BY <1>3, <1>4, <1>5

(* The selection is a sequence of elements of s in the order of s, and holds *)
(* exactly those at the positions selected.                                  *)
LEMMA SelectAtProperties ==
    ASSUME NEW S, NEW s \in Seq(S), NEW D \in SUBSET (1 .. Len(s))
    PROVE  /\ SelectAt(s, D) \in Seq(S)
           /\ Len(SelectAt(s, D)) = Cardinality(D)
           /\ \A i \in 1 .. Len(SelectAt(s, D)) :
                 NthOf(D, i - 1) \in D /\ SelectAt(s, D)[i] = s[NthOf(D, i - 1)]
           /\ \A p \in D : \E i \in 1 .. Len(SelectAt(s, D)) : NthOf(D, i - 1) = p
           /\ \A i, j \in 1 .. Len(SelectAt(s, D)) :
                 i < j => NthOf(D, i - 1) < NthOf(D, j - 1)
<1>1. Len(s) \in Nat
  OBVIOUS
<1>2. D \in SUBSET Nat /\ IsFiniteSet(D)
  <2>1. IsFiniteSet(1 .. Len(s))
    BY <1>1, FS_Interval
  <2>2. IsFiniteSet(D)
    BY <2>1, FS_Subset
  <2>3. QED
    BY <1>1, <2>2
<1>3. Cardinality(D) \in Nat
  BY <1>2, FS_CardinalityType
<1>4. \A i \in 1 .. Cardinality(D) : i - 1 \in 0 .. Cardinality(D) - 1
  BY <1>3
<1>5. \A i \in 1 .. Cardinality(D) : NthOf(D, i - 1) \in D
  BY <1>2, <1>4, NthOfMember
<1>6. \A i \in 1 .. Cardinality(D) : s[NthOf(D, i - 1)] \in S
  <2>1. \A p \in 1 .. Len(s) : s[p] \in S
    OBVIOUS
  <2>2. QED
    BY <1>5, <2>1
<1>7. SelectAt(s, D) \in [1 .. Cardinality(D) -> S]
  BY <1>6 DEF SelectAt
<1>8. SelectAt(s, D) \in Seq(S) /\ Len(SelectAt(s, D)) = Cardinality(D)
  BY <1>3, <1>7
<1>9. ASSUME NEW p \in D
      PROVE  \E i \in 1 .. Cardinality(D) : NthOf(D, i - 1) = p
  <2> DEFINE k == Rank(D, p)
  <2>1. k \in 0 .. Cardinality(D) - 1
    BY <1>2, RankBound
  <2> HIDE DEF k
  <2>2. k + 1 \in 1 .. Cardinality(D) /\ (k + 1) - 1 = k
    BY <1>3, <2>1
  <2>3. NthOf(D, k) \in D /\ Rank(D, NthOf(D, k)) = k
    BY <1>2, <2>1, NthOfMember
  <2>4. NthOf(D, k) = p
    <3>1. Rank(D, NthOf(D, k)) = Rank(D, p)
      BY <2>3 DEF k
    <3>2. QED
      BY <1>2, <2>3, <3>1, RankInjective
  <2>5. QED
    BY <2>2, <2>4
<1>10. \A i, j \in 1 .. Cardinality(D) : i < j => NthOf(D, i - 1) < NthOf(D, j - 1)
  <2>1. SUFFICES ASSUME NEW i \in 1 .. Cardinality(D), NEW j \in 1 .. Cardinality(D), i < j
                 PROVE  NthOf(D, i - 1) < NthOf(D, j - 1)
    OBVIOUS
  <2>2. i - 1 \in 0 .. Cardinality(D) - 1 /\ j - 1 \in 0 .. Cardinality(D) - 1 /\ i - 1 < j - 1
    BY <1>3, <2>1
  <2>3. QED
    BY <1>2, <2>2, NthOfIncreasing
<1>11. \A i \in 1 .. Cardinality(D) : SelectAt(s, D)[i] = s[NthOf(D, i - 1)]
  BY DEF SelectAt
<1>12. QED
  BY <1>5, <1>8, <1>9, <1>10, <1>11
=============================================================================
