---------------------------- MODULE TsArrayProofs ----------------------------
(***************************************************************************)
(* Proofs about TsArray, for every set of values and indices and every     *)
(* bound: the elements kind covers what is stored, kinds only widen, the   *)
(* arrays that slice, concat, map and filter build are the ones promised,  *)
(* and the two storages implement the abstract array of TsArraySpec.       *)
(***************************************************************************)
EXTENDS TsArray, SequenceTheorems, WellFoundedInduction, TLAPS

Cells == Values \cup {Hole}

\* What an elements kind promises of one stored cell, and the order in which
\* kinds change.
Covers(k, v) ==
    /\ v = Hole => k % 2 = 1
    /\ k < 2 => v \in Smis \cup {Hole}
    /\ k < 4 => v \in Numbers \cup {Hole}

Wider(k, j) == j \div 2 >= k \div 2 /\ j % 2 >= k % 2

\* A well-formed array, by its parts.  A map entry at or above the length is
\* possible, but only below the end of the vector, which hides it.
GoodParts(e, s, k, n) ==
    /\ e \in Seq(Cells)
    /\ s \in [DOMAIN s -> Cells] /\ DOMAIN s \subseteq 0 .. MaxArrayLength
    /\ k \in Kinds
    /\ n \in 0 .. MaxArrayLength
    /\ \A i \in DOMAIN s : i < n \/ i < Len(e)
    /\ \A p \in 1 .. Len(e) : e[p] # Hole => p <= n
    /\ \A p \in 1 .. Len(e) : Covers(k, e[p])
    /\ \A i \in DOMAIN s : Covers(k, s[i])

GoodArray(a) ==
    /\ a = ArrayObject(a.elements, a.sparse, a.kind, a.length)
    /\ GoodParts(a.elements, a.sparse, a.kind, a.length)

\* An array filled by appends alone: the vector up to MaxDense, the map above.
Contiguous(a) ==
    /\ Len(a.elements) = IF a.length < MaxDense THEN a.length ELSE MaxDense
    /\ DOMAIN a.sparse = MaxDense .. a.length - 1

NoHole(a) ==
    /\ \A p \in 1 .. Len(a.elements) : a.elements[p] # Hole
    /\ \A i \in DOMAIN a.sparse : a.sparse[i] # Hole

\* The running native, by its parts: what map and filter have built so far,
\* and the value filter holds while its callback runs.
GoodTurn(op, i, len, called, value, out) ==
    /\ op \in Callbacks
    /\ len \in 0 .. MaxArrayLength /\ i \in 0 .. len
    /\ called \in BOOLEAN /\ (called => i < len)
    /\ GoodArray(out) /\ Contiguous(out)
    /\ op = "map" => out.length = i
    /\ op = "filter" => out.length <= i /\ NoHole(out) /\ (called => value \in Values)

GoodIteration(it) ==
    /\ it = Iteration(it.op, it.i, it.len, it.called, it.value, it.out, it.writes)
    /\ GoodTurn(it.op, it.i, it.len, it.called, it.value, it.out)

\* The inductive invariant.
ArrayInv ==
    /\ GoodArray(arr) /\ GoodArray(res)
    /\ iter = Idle \/ GoodIteration(iter)
    /\ CopiesExact

-----------------------------------------------------------------------------
(* Kinds, cells and parts.                                                 *)

\* The order of kinds is reflexive and transitive, and a wider kind covers
\* what a narrower one covers.
LEMMA WiderOrder ==
    ASSUME NEW k \in Kinds, NEW j \in Kinds, NEW m \in Kinds
    PROVE  /\ Wider(k, k)
           /\ Wider(k, j) /\ Wider(j, m) => Wider(k, m)
BY DEF Kinds, Wider

LEMMA WiderCovers ==
    ASSUME NEW k \in Kinds, NEW j \in Kinds, Wider(k, j), NEW v, Covers(k, v)
    PROVE  Covers(j, v)
<1>1. (j < 2 => k < 2) /\ (j < 4 => k < 4) /\ (k % 2 = 1 => j % 2 = 1)
  BY DEF Kinds, Wider
<1> QED
  BY <1>1 DEF Covers

LEMMA HoleyKind ==
    ASSUME NEW k \in Kinds
    PROVE  /\ holeyOf(k) \in Kinds /\ Wider(k, holeyOf(k))
           /\ Covers(holeyOf(k), Hole)
<1>1. holeyOf(k) \in Kinds /\ Wider(k, holeyOf(k)) /\ holeyOf(k) % 2 = 1
  BY DEF Kinds, Wider, holeyOf
<1> QED
  BY <1>1 DEF Covers

\* The widest kind covers every cell.
LEMMA WidestKind ==
    ASSUME NEW k \in Kinds
    PROVE  5 \in Kinds /\ Wider(k, 5) /\ \A v : Covers(5, v)
BY DEF Kinds, Wider, Covers

\* The fields of an array object, and updates of one of them.
LEMMA ObjectFields ==
    ASSUME NEW e, NEW s, NEW k, NEW n
    PROVE  /\ ArrayObject(e, s, k, n).elements = e
           /\ ArrayObject(e, s, k, n).sparse = s
           /\ ArrayObject(e, s, k, n).kind = k
           /\ ArrayObject(e, s, k, n).length = n
BY DEF ArrayObject

LEMMA ObjectUpdates ==
    ASSUME NEW e, NEW s, NEW k, NEW n, NEW a, a = ArrayObject(e, s, k, n), NEW x
    PROVE  /\ [a EXCEPT !.sparse = x] = ArrayObject(e, x, k, n)
           /\ [a EXCEPT !.kind = x] = ArrayObject(e, s, x, n)
           /\ [a EXCEPT !.length = x] = ArrayObject(e, s, k, x)
BY DEF ArrayObject

LEMMA ArrayUpdates ==
    ASSUME NEW a, a = ArrayObject(a.elements, a.sparse, a.kind, a.length), NEW x
    PROVE  /\ [a EXCEPT !.sparse = x] = ArrayObject(a.elements, x, a.kind, a.length)
           /\ [a EXCEPT !.kind = x] = ArrayObject(a.elements, a.sparse, x, a.length)
           /\ [a EXCEPT !.length = x] = ArrayObject(a.elements, a.sparse, a.kind, x)
BY ObjectUpdates

LEMMA GoodObject ==
    ASSUME NEW e, NEW s, NEW k, NEW n, GoodParts(e, s, k, n)
    PROVE  GoodArray(ArrayObject(e, s, k, n))
BY ObjectFields DEF GoodArray

\* widenElementsFor changes the kind alone, never narrows it, and the new
\* kind covers the value.
LEMMA WidenProperties ==
    ASSUME NEW a, a = ArrayObject(a.elements, a.sparse, a.kind, a.length),
           a.kind \in Kinds, NEW v \in Values
    PROVE  LET w == widenElementsFor(a, v)
           IN  /\ w = ArrayObject(a.elements, a.sparse, w.kind, a.length)
               /\ w.elements = a.elements /\ w.sparse = a.sparse /\ w.length = a.length
               /\ w.kind \in Kinds /\ Wider(a.kind, w.kind) /\ Covers(w.kind, v)
<1> DEFINE j == IF a.kind < 2 /\ v \notin Smis THEN a.kind + (IF v \in Numbers THEN 2 ELSE 4)
                ELSE IF a.kind \in 2 .. 3 /\ v \notin Numbers THEN a.kind + 2
                ELSE a.kind
<1>1. widenElementsFor(a, v) = [a EXCEPT !.kind = j]
  BY DEF widenElementsFor
<1>2. j \in Kinds /\ Wider(a.kind, j)
  BY DEF Kinds, Wider
<1>3. Covers(j, v)
  <2>1. v # Hole
    BY ArrayAssumption
  <2>2. j < 2 => v \in Smis
    BY DEF Kinds
  <2>3. j < 4 => v \in Numbers
    BY DEF Kinds, Numbers
  <2> QED
    BY <2>1, <2>2, <2>3 DEF Covers
<1> HIDE DEF j
<1>4. widenElementsFor(a, v) = ArrayObject(a.elements, a.sparse, j, a.length)
  BY <1>1, ObjectUpdates
<1> QED
  BY <1>2, <1>3, <1>4, ObjectFields

-----------------------------------------------------------------------------
(* Storage.                                                                *)

\* What ownElementValue reads, by parts.
Own(e, s, i) == IF i < Len(e) THEN e[i + 1] ELSE IF i \in DOMAIN s THEN s[i] ELSE Hole

LEMMA OwnOfObject ==
    ASSUME NEW e, NEW s, NEW k, NEW n, NEW i
    PROVE  ownElementValue(ArrayObject(e, s, k, n), i) = Own(e, s, i)
BY ObjectFields DEF ownElementValue, Own

LEMMA OwnOfArray ==
    ASSUME NEW a, NEW i
    PROVE  ownElementValue(a, i) = Own(a.elements, a.sparse, i)
BY DEF ownElementValue, Own

\* An element is read only below the length.
LEMMA OwnBelowLength ==
    ASSUME NEW e, NEW s, NEW k, NEW n, GoodParts(e, s, k, n), NEW i \in Nat
    PROVE  Own(e, s, i) \in Cells /\ (Own(e, s, i) # Hole => i < n)
<1>1. CASE i < Len(e)
  <2>1. i + 1 \in 1 .. Len(e) /\ e[i + 1] \in Cells
    BY <1>1, LenProperties, ElementOfSeq DEF GoodParts
  <2> QED
    BY <1>1, <2>1 DEF GoodParts, Own
<1>2. CASE ~(i < Len(e)) /\ i \in DOMAIN s
  BY <1>2 DEF GoodParts, Own
<1>3. CASE ~(i < Len(e)) /\ i \notin DOMAIN s
  BY <1>3 DEF Own, Cells
<1> QED
  BY <1>1, <1>2, <1>3

LEMMA UInt32Small ==
    ASSUME NEW n \in 0 .. MaxArrayLength
    PROVE  UInt32(n) = n
BY ArrayAssumption DEF UInt32

\* The length after a store does not wrap for an index below the maximum.
LEMMA ReachingValue ==
    ASSUME NEW n \in 0 .. MaxArrayLength, NEW i \in 0 .. MaxArrayLength - 1
    PROVE  /\ Reaching(n, i) = IF i < n THEN n ELSE i + 1
           /\ Reaching(n, i) \in 0 .. MaxArrayLength
           /\ i < Reaching(n, i) /\ n <= Reaching(n, i)
<1>1. i + 1 \in 0 .. MaxArrayLength
  BY ArrayAssumption
<1>2. UInt32(i + 1) = i + 1
  BY <1>1, UInt32Small
<1> QED
  BY <1>1, <1>2, ArrayAssumption DEF Reaching

\* elements[i] = v with the kind widened first.
LEMMA DenseStore ==
    ASSUME NEW e, NEW s, NEW k, NEW n, GoodParts(e, s, k, n),
           NEW i \in 0 .. Len(e) - 1, NEW v \in Cells, NEW j \in Kinds, Wider(k, j), Covers(j, v),
           NEW m \in n .. MaxArrayLength, v # Hole => i < m
    PROVE  LET b == [e EXCEPT ![i + 1] = v]
           IN  /\ GoodParts(b, s, j, m)
               /\ Len(b) = Len(e)
               /\ \A l \in Nat : Own(b, s, l) = IF l = i THEN v ELSE Own(e, s, l)
<1> DEFINE b == [e EXCEPT ![i + 1] = v]
<1>1. e \in Seq(Cells) /\ Len(e) \in Nat /\ DOMAIN e = 1 .. Len(e) /\ i + 1 \in 1 .. Len(e)
  BY LenProperties DEF GoodParts
<1>2. b \in Seq(Cells) /\ Len(b) = Len(e)
  BY <1>1, ExceptSeq
<1>3. \A p \in 1 .. Len(e) : b[p] = IF p = i + 1 THEN v ELSE e[p]
  BY <1>1
<1>4. n \in 0 .. MaxArrayLength /\ m \in 0 .. MaxArrayLength
  BY ArrayAssumption DEF GoodParts
<1> HIDE DEF b
<1>5. \A l \in DOMAIN s : l < m \/ l < Len(b)
  BY <1>1, <1>2, <1>4 DEF GoodParts
<1>6. \A p \in 1 .. Len(b) : b[p] # Hole => p <= m
  BY <1>1, <1>2, <1>3, <1>4 DEF GoodParts
<1>7. \A p \in 1 .. Len(b) : Covers(j, b[p])
  BY <1>2, <1>3, WiderCovers DEF GoodParts
<1>8. \A l \in DOMAIN s : Covers(j, s[l])
  BY WiderCovers DEF GoodParts
<1>9. GoodParts(b, s, j, m)
  BY <1>2, <1>4, <1>5, <1>6, <1>7, <1>8 DEF GoodParts
<1>10. ASSUME NEW l \in Nat
       PROVE  Own(b, s, l) = IF l = i THEN v ELSE Own(e, s, l)
  BY <1>1, <1>2, <1>3 DEF Own
<1> QED
  BY <1>2, <1>9, <1>10 DEF b

\* elements.resize(l, hole): the new cells are holes, so the kind is holey.
\* Nothing else changes unless the map has an entry where the vector grows.
LEMMA DenseGrowth ==
    ASSUME NEW e, NEW s, NEW k, NEW n, GoodParts(e, s, k, n),
           NEW l \in Nat, Len(e) <= l
    PROVE  LET b == Resized(e, l)
           IN  /\ GoodParts(b, s, holeyOf(k), n)
               /\ Len(b) = l
               /\ (\A i \in DOMAIN s : i < l => i < Len(e)) =>
                    \A i \in Nat : Own(b, s, i) = Own(e, s, i)
<1> DEFINE b == Resized(e, l)
<1>1. e \in Seq(Cells) /\ Len(e) \in Nat /\ \A p \in 1 .. Len(e) : e[p] \in Cells
  BY LenProperties, ElementOfSeq DEF GoodParts
<1>2. b = [p \in 1 .. l |-> IF p <= Len(e) THEN e[p] ELSE Hole]
  BY DEF Resized
<1> HIDE DEF b
<1>3. \A p \in 1 .. l : (IF p <= Len(e) THEN e[p] ELSE Hole) \in Cells
  BY <1>1 DEF Cells
<1>4. b \in Seq(Cells) /\ Len(b) = l /\ \A p \in 1 .. l : b[p] = IF p <= Len(e) THEN e[p] ELSE Hole
  BY <1>2, <1>3, IsASeq
<1>5. k \in Kinds /\ holeyOf(k) \in Kinds /\ Wider(k, holeyOf(k)) /\ Covers(holeyOf(k), Hole)
  BY HoleyKind DEF GoodParts
<1>6. \A i \in DOMAIN s : i < n \/ i < Len(b)
  BY <1>1, <1>4 DEF GoodParts
<1>7. \A p \in 1 .. Len(b) : b[p] # Hole => p <= n
  BY <1>1, <1>4 DEF GoodParts
<1>8. \A p \in 1 .. Len(b) : Covers(holeyOf(k), b[p])
  <2>1. \A p \in 1 .. Len(e) : Covers(holeyOf(k), e[p])
    BY <1>5, WiderCovers DEF GoodParts
  <2> QED
    BY <1>1, <1>4, <1>5, <2>1
<1>9. \A i \in DOMAIN s : Covers(holeyOf(k), s[i])
  BY <1>5, WiderCovers DEF GoodParts
<1>10. GoodParts(b, s, holeyOf(k), n)
  BY <1>4, <1>5, <1>6, <1>7, <1>8, <1>9 DEF GoodParts
<1>11. ASSUME \A i \in DOMAIN s : i < l => i < Len(e), NEW i \in Nat
       PROVE  Own(b, s, i) = Own(e, s, i)
  BY <1>1, <1>4, <1>11 DEF Own
<1> QED
  BY <1>4, <1>10, <1>11 DEF b

\* The store of an index the vector does not reach: any cell, kind HoleyTagged.
LEMMA SparseStore ==
    ASSUME NEW a, GoodArray(a), NEW i \in 0 .. MaxArrayLength - 1, NEW v \in Cells,
           i >= Len(a.elements)
    PROVE  LET b == StoredSparse(a, i, v)
           IN  /\ GoodArray(b)
               /\ b.elements = a.elements /\ b.sparse = With(a.sparse, i, v) /\ b.kind = 5
               /\ b.length = Reaching(a.length, i)
               /\ Wider(a.kind, b.kind)
               /\ \A l \in Nat : Own(b.elements, b.sparse, l) =
                      IF l = i THEN v ELSE Own(a.elements, a.sparse, l)
<1> DEFINE b == StoredSparse(a, i, v)
           s == With(a.sparse, i, v)
           n == Reaching(a.length, i)
<1>1. GoodParts(a.elements, a.sparse, a.kind, a.length)
  BY DEF GoodArray
<1>2. b = ArrayObject(a.elements, s, 5, n)
  BY DEF StoredSparse
<1>3. a.length \in 0 .. MaxArrayLength /\ a.kind \in Kinds /\ Len(a.elements) \in Nat
  BY <1>1, LenProperties DEF GoodParts
<1>4. n \in 0 .. MaxArrayLength /\ i < n /\ a.length <= n
  BY <1>3, ReachingValue
<1>5. /\ DOMAIN s = DOMAIN a.sparse \cup {i}
      /\ s \in [DOMAIN s -> Cells]
      /\ \A l \in DOMAIN s : s[l] = IF l = i THEN v ELSE a.sparse[l]
  BY <1>1 DEF With, GoodParts
<1> HIDE DEF n, s
<1>6. DOMAIN s \subseteq 0 .. MaxArrayLength /\ \A l \in DOMAIN s : l < n \/ l < Len(a.elements)
  <2>1. /\ DOMAIN a.sparse \subseteq 0 .. MaxArrayLength
        /\ \A l \in DOMAIN a.sparse : l < a.length \/ l < Len(a.elements)
    BY <1>1 DEF GoodParts
  <2>2. i \in 0 .. MaxArrayLength
    BY ArrayAssumption
  <2>3. ASSUME NEW l \in DOMAIN s
        PROVE  l \in 0 .. MaxArrayLength /\ (l < n \/ l < Len(a.elements))
    <3>1. CASE l = i
      BY <1>4, <2>2, <3>1
    <3>2. CASE l \in DOMAIN a.sparse
      <4>1. l \in 0 .. MaxArrayLength /\ (l < a.length \/ l < Len(a.elements))
        BY <2>1, <3>2
      <4> QED
        BY <1>3, <1>4, <4>1
    <3> QED
      BY <1>5, <2>3, <3>1, <3>2
  <2> QED
    BY <2>3
<1>7. 5 \in Kinds /\ Wider(a.kind, 5) /\ \A x : Covers(5, x)
  BY <1>3, WidestKind
<1>8. \A p \in 1 .. Len(a.elements) : a.elements[p] # Hole => p <= n
  BY <1>1, <1>3, <1>4 DEF GoodParts
<1>9. GoodParts(a.elements, s, 5, n)
  BY <1>1, <1>4, <1>5, <1>6, <1>7, <1>8 DEF GoodParts
<1>10. GoodArray(b)
  BY <1>2, <1>9, GoodObject
<1>11. ASSUME NEW l \in Nat
       PROVE  Own(a.elements, s, l) = IF l = i THEN v ELSE Own(a.elements, a.sparse, l)
  BY <1>3, <1>5 DEF Own
<1>12. b.elements = a.elements /\ b.sparse = s /\ b.kind = 5 /\ b.length = n
  BY <1>2, ObjectFields
<1> QED
  BY <1>7, <1>10, <1>11, <1>12 DEF s, n

\* No element lies in the map below MaxDense (see Displaced).
Orderly(a) == \A i \in DOMAIN a.sparse : ~(i < MaxDense)

\* setArrayElement keeps an array well formed, widens its kind at most, and
\* stores v at i and nothing elsewhere, whichever storage i falls in.
LEMMA SetProperties ==
    ASSUME NEW a, GoodArray(a), NEW i \in 0 .. MaxArrayLength - 1, NEW v \in Values
    PROVE  LET b == setArrayElement(a, i, v)
           IN  /\ GoodArray(b) /\ Wider(a.kind, b.kind)
               /\ b.length = IF i < a.length THEN a.length ELSE i + 1
               /\ Orderly(a) =>
                    \A l \in Nat : ownElementValue(b, l) =
                        IF l = i THEN v ELSE ownElementValue(a, l)
<1> DEFINE grown == IF i < Len(a.elements) THEN a
                    ELSE ArrayObject(Resized(a.elements, i + 1), a.sparse, holeyOf(a.kind), a.length)
           wide == widenElementsFor(grown, v)
           b == setArrayElement(a, i, v)
<1>1. GoodParts(a.elements, a.sparse, a.kind, a.length) /\ v # Hole /\ v \in Cells
  BY ArrayAssumption DEF GoodArray, Cells
<1>2. a.length \in 0 .. MaxArrayLength /\ a.kind \in Kinds /\ Len(a.elements) \in Nat
  BY <1>1, LenProperties DEF GoodParts
<1>3. /\ Reaching(a.length, i) = IF i < a.length THEN a.length ELSE i + 1
      /\ Reaching(a.length, i) \in a.length .. MaxArrayLength
      /\ i < Reaching(a.length, i)
  BY <1>2, ReachingValue
<1>4. CASE i < MaxDense \/ i < Len(a.elements)
  <2>1. /\ GoodArray(grown) /\ Wider(a.kind, grown.kind) /\ grown.length = a.length
        /\ grown.sparse = a.sparse
        /\ i < Len(grown.elements)
        /\ Orderly(a) =>
             \A l \in Nat : Own(grown.elements, grown.sparse, l) = Own(a.elements, a.sparse, l)
    <3>1. CASE i < Len(a.elements)
      BY <1>2, <3>1, WiderOrder
    <3>2. CASE ~(i < Len(a.elements))
      <4> DEFINE r == Resized(a.elements, i + 1)
      <4>1. i + 1 \in Nat /\ Len(a.elements) <= i + 1
        BY <1>2, <3>2
      <4>2. GoodParts(r, a.sparse, holeyOf(a.kind), a.length) /\ Len(r) = i + 1
        BY <1>1, <4>1, DenseGrowth
      <4>3. ASSUME Orderly(a), NEW l \in Nat
            PROVE  Own(r, a.sparse, l) = Own(a.elements, a.sparse, l)
        <5>1. DOMAIN a.sparse \subseteq 0 .. MaxArrayLength
          BY <1>1 DEF GoodParts
        <5>2. \A q \in DOMAIN a.sparse : q < i + 1 => q < Len(a.elements)
          BY <1>4, <3>2, <4>3, <5>1, ArrayAssumption DEF Orderly
        <5> QED
          BY <1>1, <4>1, <5>2, DenseGrowth
      <4> HIDE DEF r
      <4>4. grown = ArrayObject(r, a.sparse, holeyOf(a.kind), a.length)
        BY <3>2 DEF r
      <4> HIDE DEF grown
      <4>5. GoodArray(grown)
        BY <4>2, <4>4, GoodObject
      <4>6. /\ grown.elements = r /\ grown.sparse = a.sparse /\ grown.kind = holeyOf(a.kind)
            /\ grown.length = a.length
        BY <4>4, ObjectFields
      <4> QED
        BY <1>2, <4>2, <4>3, <4>5, <4>6, HoleyKind
    <3> QED
      BY <3>1, <3>2
  <2> HIDE DEF grown
  <2>2. /\ grown = ArrayObject(grown.elements, grown.sparse, grown.kind, grown.length)
        /\ GoodParts(grown.elements, grown.sparse, grown.kind, grown.length)
        /\ grown.kind \in Kinds /\ Len(grown.elements) \in Nat
    BY <2>1, LenProperties DEF GoodArray, GoodParts
  <2>3. /\ wide.elements = grown.elements /\ wide.sparse = grown.sparse
        /\ wide.length = grown.length
        /\ wide.kind \in Kinds /\ Wider(grown.kind, wide.kind) /\ Covers(wide.kind, v)
    BY <2>2, WidenProperties
  <2>4. b = ArrayObject([wide.elements EXCEPT ![i + 1] = v], wide.sparse, wide.kind,
                        Reaching(wide.length, i))
    BY <1>4 DEF setArrayElement, grown
  <2> HIDE DEF wide
  <2> DEFINE e == [grown.elements EXCEPT ![i + 1] = v]
  <2>5. i \in 0 .. Len(grown.elements) - 1 /\ Reaching(grown.length, i) \in grown.length .. MaxArrayLength
    BY <1>3, <2>1, <2>2
  <2>6. /\ GoodParts(e, grown.sparse, wide.kind, Reaching(grown.length, i))
        /\ \A l \in Nat : Own(e, grown.sparse, l) =
               IF l = i THEN v ELSE Own(grown.elements, grown.sparse, l)
    BY <1>1, <1>3, <2>1, <2>2, <2>3, <2>5, DenseStore
  <2> HIDE DEF e
  <2>7. b = ArrayObject(e, grown.sparse, wide.kind, Reaching(a.length, i))
    BY <2>1, <2>3, <2>4 DEF e
  <2> HIDE DEF b
  <2>8. GoodArray(b) /\ b.kind = wide.kind /\ b.length = Reaching(a.length, i)
    BY <2>1, <2>6, <2>7, GoodObject, ObjectFields
  <2>9. Wider(a.kind, b.kind)
    BY <1>2, <2>1, <2>2, <2>3, <2>8, WiderOrder
  <2>10. ASSUME Orderly(a), NEW l \in Nat
         PROVE  ownElementValue(b, l) = IF l = i THEN v ELSE ownElementValue(a, l)
    BY <2>1, <2>6, <2>7, <2>10, OwnOfObject, OwnOfArray
  <2> QED
    BY <1>3, <2>8, <2>9, <2>10 DEF b
<1>5. CASE ~(i < MaxDense \/ i < Len(a.elements))
  <2>1. b = StoredSparse(a, i, v)
    BY <1>5 DEF setArrayElement
  <2>2. i >= Len(a.elements)
    BY <1>2, <1>5
  <2>3. /\ GoodArray(b) /\ Wider(a.kind, b.kind) /\ b.length = Reaching(a.length, i)
        /\ \A l \in Nat : Own(b.elements, b.sparse, l) =
               IF l = i THEN v ELSE Own(a.elements, a.sparse, l)
    BY <1>1, <2>1, <2>2, SparseStore
  <2> HIDE DEF b
  <2> QED
    BY <1>3, <2>3, OwnOfArray DEF b
<1> QED
  BY <1>4, <1>5

\* arraySetLength cuts the elements at or above the new length, and only
\* those, from both storages.
LEMMA SetLengthProperties ==
    ASSUME NEW a, GoodArray(a), NEW n \in 0 .. MaxArrayLength
    PROVE  LET b == arraySetLength(a, n)
           IN  /\ GoodArray(b) /\ Wider(a.kind, b.kind) /\ b.length = n
               /\ \A l \in Nat : ownElementValue(b, l) =
                      IF l < n THEN ownElementValue(a, l) ELSE Hole
<1> DEFINE b == arraySetLength(a, n)
<1>1. /\ a = ArrayObject(a.elements, a.sparse, a.kind, a.length)
      /\ GoodParts(a.elements, a.sparse, a.kind, a.length)
  BY DEF GoodArray
<1>2. /\ a.elements \in Seq(Cells) /\ Len(a.elements) \in Nat
      /\ \A p \in 1 .. Len(a.elements) : a.elements[p] \in Cells
      /\ a.kind \in Kinds /\ a.length \in 0 .. MaxArrayLength
      /\ a.sparse \in [DOMAIN a.sparse -> Cells]
      /\ DOMAIN a.sparse \subseteq 0 .. MaxArrayLength
  BY <1>1, LenProperties, ElementOfSeq DEF GoodParts
<1>3. CASE n >= a.length
  <2>1. b = ArrayObject(a.elements, a.sparse, a.kind, n)
    <3>1. b = [a EXCEPT !.length = n]
      BY <1>3 DEF arraySetLength
    <3>2. [a EXCEPT !.length = n] = ArrayObject(a.elements, a.sparse, a.kind, n)
      BY <1>1, ArrayUpdates
    <3> QED
      BY <3>1, <3>2
  <2>2. GoodParts(a.elements, a.sparse, a.kind, n)
    <3>1. \A i \in DOMAIN a.sparse : i < n \/ i < Len(a.elements)
      BY <1>1, <1>2, <1>3 DEF GoodParts
    <3>2. \A p \in 1 .. Len(a.elements) : a.elements[p] # Hole => p <= n
      BY <1>1, <1>2, <1>3 DEF GoodParts
    <3> QED
      BY <1>1, <3>1, <3>2 DEF GoodParts
  <2> HIDE DEF b
  <2>3. GoodArray(b) /\ b.length = n /\ b.kind = a.kind
    BY <2>1, <2>2, GoodObject, ObjectFields
  <2>4. ASSUME NEW l \in Nat
        PROVE  ownElementValue(b, l) = IF l < n THEN ownElementValue(a, l) ELSE Hole
    <3>1. ownElementValue(b, l) = ownElementValue(a, l)
      BY <2>1, OwnOfObject, OwnOfArray
    <3>2. ~(l < n) => ownElementValue(a, l) = Hole
      BY <1>1, <1>2, <1>3, OwnBelowLength, OwnOfArray
    <3> QED
      BY <3>1, <3>2
  <2> QED
    BY <1>2, <2>3, <2>4, WiderOrder DEF b
<1>4. CASE ~(n >= a.length)
  <2> DEFINE e == [p \in 1 .. Len(a.elements) |-> IF p > n THEN Hole ELSE a.elements[p]]
             s == Without(a.sparse, {i \in DOMAIN a.sparse : i >= n})
             k == IF \E p \in n + 1 .. Len(a.elements) : a.elements[p] # Hole
                  THEN holeyOf(a.kind) ELSE a.kind
  <2>1. b = ArrayObject(e, s, k, n)
    BY <1>4 DEF arraySetLength
  <2>2. /\ e \in Seq(Cells) /\ Len(e) = Len(a.elements)
        /\ \A p \in 1 .. Len(e) : e[p] = IF p > n THEN Hole ELSE a.elements[p]
    <3>1. \A p \in 1 .. Len(a.elements) : (IF p > n THEN Hole ELSE a.elements[p]) \in Cells
      BY <1>2 DEF Cells
    <3> QED
      BY <1>2, <3>1, IsASeq
  <2>3. /\ DOMAIN s = {i \in DOMAIN a.sparse : i < n}
        /\ s \in [DOMAIN s -> Cells]
        /\ \A i \in DOMAIN s : s[i] = a.sparse[i]
    <3>1. DOMAIN a.sparse \ {i \in DOMAIN a.sparse : i >= n} = {i \in DOMAIN a.sparse : i < n}
      BY <1>2
    <3> QED
      BY <1>2, <3>1 DEF Without
  <2>4. k \in Kinds /\ Wider(a.kind, k)
    BY <1>2, HoleyKind, WiderOrder
  <2>5. ASSUME NEW p \in 1 .. Len(e)
        PROVE  Covers(k, e[p])
    <3>1. Covers(k, a.elements[p])
      BY <1>1, <1>2, <2>2, <2>4, WiderCovers DEF GoodParts
    <3>2. CASE p > n /\ a.elements[p] # Hole
      <4>1. k = holeyOf(a.kind)
        BY <1>2, <2>2, <3>2
      <4> QED
        BY <1>2, <2>2, <3>2, <4>1, HoleyKind
    <3>3. CASE ~(p > n /\ a.elements[p] # Hole)
      BY <2>2, <3>1, <3>3
    <3> QED
      BY <3>2, <3>3
  <2> HIDE DEF e, s, k
  <2>6. \A i \in DOMAIN s : Covers(k, s[i])
    BY <1>1, <1>2, <2>3, <2>4, WiderCovers DEF GoodParts
  <2>7. \A p \in 1 .. Len(e) : e[p] # Hole => p <= n
    BY <1>2, <2>2
  <2>8. DOMAIN s \subseteq 0 .. MaxArrayLength /\ \A i \in DOMAIN s : i < n \/ i < Len(e)
    BY <1>2, <2>3
  <2>9. GoodParts(e, s, k, n)
    BY <2>2, <2>3, <2>4, <2>5, <2>6, <2>7, <2>8 DEF GoodParts
  <2> HIDE DEF b
  <2>10. GoodArray(b) /\ b.length = n /\ b.kind = k
    BY <2>1, <2>9, GoodObject, ObjectFields
  <2>11. ASSUME NEW l \in Nat
         PROVE  Own(e, s, l) = IF l < n THEN Own(a.elements, a.sparse, l) ELSE Hole
    <3>1. CASE l < Len(a.elements)
      BY <1>2, <2>2, <3>1 DEF Own
    <3>2. CASE ~(l < Len(a.elements))
      BY <1>2, <2>2, <2>3, <3>2 DEF Own
    <3> QED
      BY <3>1, <3>2
  <2> QED
    BY <2>1, <2>4, <2>10, <2>11, OwnOfObject, OwnOfArray DEF b
<1> QED
  BY <1>3, <1>4

\* The parts of an array and their types.
LEMMA ArrayParts ==
    ASSUME NEW a, GoodArray(a)
    PROVE  /\ a = ArrayObject(a.elements, a.sparse, a.kind, a.length)
           /\ GoodParts(a.elements, a.sparse, a.kind, a.length)
           /\ a.elements \in Seq(Cells) /\ Len(a.elements) \in Nat
           /\ \A p \in 1 .. Len(a.elements) : a.elements[p] \in Cells
           /\ a.kind \in Kinds /\ a.length \in 0 .. MaxArrayLength
           /\ a.sparse \in [DOMAIN a.sparse -> Cells]
           /\ DOMAIN a.sparse \subseteq 0 .. MaxArrayLength
           /\ Hole \in Cells
BY LenProperties, ElementOfSeq DEF GoodArray, GoodParts, Cells

\* Erasing a map entry: t is s without i.
LEMMA SparseErase ==
    ASSUME NEW e, NEW s, NEW k, NEW n, GoodParts(e, s, k, n), NEW i \in Nat, i >= Len(e),
           NEW t, t \in [DOMAIN t -> Cells],
           \A l \in Nat : l \in DOMAIN t <=> l \in DOMAIN s /\ l # i,
           \A l \in DOMAIN t : l \in DOMAIN s /\ t[l] = s[l]
    PROVE  /\ GoodParts(e, t, k, n)
           /\ \A l \in Nat : Own(e, t, l) = IF l = i THEN Hole ELSE Own(e, s, l)
<1>2. Len(e) \in Nat
  BY LenProperties DEF GoodParts
<1>3. GoodParts(e, t, k, n)
  BY DEF GoodParts
<1>4. ASSUME NEW l \in Nat
      PROVE  Own(e, t, l) = IF l = i THEN Hole ELSE Own(e, s, l)
  BY <1>2 DEF Own
<1> QED
  BY <1>3, <1>4

LEMMA WithoutOne ==
    ASSUME NEW s, s \in [DOMAIN s -> Cells], NEW i \in Nat
    PROVE  LET t == Without(s, {i})
           IN  /\ t \in [DOMAIN t -> Cells]
               /\ \A l \in Nat : l \in DOMAIN t <=> l \in DOMAIN s /\ l # i
               /\ \A l \in DOMAIN t : l \in DOMAIN s /\ t[l] = s[l]
BY DEF Without

\* delete a[i] removes the element at i and no other; the length stays.
LEMMA DeleteProperties ==
    ASSUME NEW a, GoodArray(a), NEW i \in 0 .. MaxArrayLength - 1
    PROVE  LET b == deleteElement(a, i)
           IN  /\ GoodArray(b) /\ Wider(a.kind, b.kind) /\ b.length = a.length
               /\ \A l \in Nat : ownElementValue(b, l) =
                      IF l = i THEN Hole ELSE ownElementValue(a, l)
<1> DEFINE b == deleteElement(a, i)
<1>1. CASE i >= Len(a.elements)
  <2> DEFINE t == Without(a.sparse, {i})
  <2>1. b = [a EXCEPT !.sparse = t]
    BY <1>1 DEF deleteElement
  <2> HIDE DEF t, b
  <2>2. b = ArrayObject(a.elements, t, a.kind, a.length)
    BY <2>1, ArrayParts, ObjectUpdates
  <2>3. /\ GoodParts(a.elements, t, a.kind, a.length)
        /\ \A l \in Nat : Own(a.elements, t, l) =
               IF l = i THEN Hole ELSE Own(a.elements, a.sparse, l)
    <3>1. GoodParts(a.elements, a.sparse, a.kind, a.length) /\ i \in Nat
      BY ArrayParts
    <3>2. /\ t \in [DOMAIN t -> Cells]
          /\ \A l \in Nat : l \in DOMAIN t <=> l \in DOMAIN a.sparse /\ l # i
          /\ \A l \in DOMAIN t : l \in DOMAIN a.sparse /\ t[l] = a.sparse[l]
      BY <3>1, ArrayParts, WithoutOne DEF t
    <3> QED
      BY <1>1, <3>1, <3>2, SparseErase
  <2>4. GoodArray(b) /\ b.length = a.length /\ b.kind = a.kind
    BY <2>2, <2>3, GoodObject, ObjectFields
  <2>5. Wider(a.kind, a.kind)
    BY ArrayParts, WiderOrder
  <2> QED
    BY <2>2, <2>3, <2>4, <2>5, OwnOfObject, OwnOfArray DEF b
<1>2. CASE ~(i >= Len(a.elements)) /\ a.elements[i + 1] = Hole
  <2>1. b = a
    BY <1>2 DEF deleteElement
  <2>2. ownElementValue(a, i) = Hole
    BY <1>2, ArrayParts DEF ownElementValue
  <2>3. Wider(a.kind, a.kind)
    BY ArrayParts, WiderOrder
  <2> QED
    BY <2>1, <2>2, <2>3
<1>3. CASE ~(i >= Len(a.elements)) /\ a.elements[i + 1] # Hole
  <2> DEFINE e == [a.elements EXCEPT ![i + 1] = Hole]
  <2>1. b = ArrayObject(e, a.sparse, holeyOf(a.kind), a.length)
    BY <1>3 DEF deleteElement
  <2>2. /\ i \in 0 .. Len(a.elements) - 1 /\ a.length \in a.length .. MaxArrayLength
        /\ Hole \in Cells /\ a.kind \in Kinds
        /\ GoodParts(a.elements, a.sparse, a.kind, a.length)
    BY <1>3, ArrayParts
  <2>3. /\ holeyOf(a.kind) \in Kinds /\ Wider(a.kind, holeyOf(a.kind))
        /\ Covers(holeyOf(a.kind), Hole)
    BY <2>2, HoleyKind
  <2>4. /\ GoodParts(e, a.sparse, holeyOf(a.kind), a.length)
        /\ \A l \in Nat : Own(e, a.sparse, l) =
               IF l = i THEN Hole ELSE Own(a.elements, a.sparse, l)
    BY <2>2, <2>3, DenseStore
  <2> HIDE DEF e, b
  <2>5. GoodArray(b) /\ b.length = a.length /\ b.kind = holeyOf(a.kind)
    BY <2>1, <2>4, GoodObject, ObjectFields
  <2> QED
    BY <2>1, <2>3, <2>4, <2>5, OwnOfObject, OwnOfArray DEF b
<1> QED
  BY <1>1, <1>2, <1>3

\* pop removes the last element from the storage that holds it.
LEMMA PopProperties ==
    ASSUME NEW a, GoodArray(a), NEW i \in Nat, a.length = i + 1
    PROVE  LET b == Popped(a, i)
           IN  /\ GoodArray(b) /\ Wider(a.kind, b.kind) /\ b.length = i
               /\ \A l \in Nat : ownElementValue(b, l) =
                      IF l = i THEN Hole ELSE ownElementValue(a, l)
<1> DEFINE b == Popped(a, i)
<1>1. GoodParts(a.elements, a.sparse, a.kind, a.length) /\ i \in 0 .. MaxArrayLength
  BY ArrayParts, ArrayAssumption
<1>2. CASE i < Len(a.elements)
  <2> DEFINE e == [a.elements EXCEPT ![i + 1] = Hole]
  <2>1. b = ArrayObject(e, a.sparse, holeyOf(a.kind), i)
    BY <1>2 DEF Popped
  <2>2. /\ i \in 0 .. Len(a.elements) - 1 /\ a.length \in a.length .. MaxArrayLength
        /\ Hole \in Cells /\ a.kind \in Kinds
    BY <1>2, ArrayParts
  <2>3. /\ holeyOf(a.kind) \in Kinds /\ Wider(a.kind, holeyOf(a.kind))
        /\ Covers(holeyOf(a.kind), Hole)
    BY <2>2, HoleyKind
  <2>4. /\ GoodParts(e, a.sparse, holeyOf(a.kind), a.length)
        /\ Len(e) = Len(a.elements)
        /\ \A l \in Nat : Own(e, a.sparse, l) =
               IF l = i THEN Hole ELSE Own(a.elements, a.sparse, l)
    BY <1>1, <2>2, <2>3, DenseStore
  <2>5. e[i + 1] = Hole
    BY <2>2, ArrayParts
  <2> HIDE DEF e, b
  <2>6. GoodParts(e, a.sparse, holeyOf(a.kind), i)
    <3>1. /\ DOMAIN a.sparse \subseteq 0 .. MaxArrayLength /\ Len(e) \in Nat
          /\ a.length \in 0 .. MaxArrayLength
      BY <2>4, ArrayParts
    <3>2. ASSUME NEW l \in DOMAIN a.sparse
          PROVE  l < i \/ l < Len(e)
      <4>1. l \in Nat /\ (l < a.length \/ l < Len(e))
        BY <2>4, <3>1 DEF GoodParts
      <4> QED
        BY <1>2, <2>4, <3>1, <4>1
    <3>3. ASSUME NEW p \in 1 .. Len(e), e[p] # Hole
          PROVE  p <= i
      <4>1. p <= a.length /\ p # i + 1
        BY <2>4, <2>5, <3>3 DEF GoodParts
      <4> QED
        BY <3>1, <4>1
    <3> QED
      BY <1>1, <2>4, <3>2, <3>3 DEF GoodParts
  <2>7. GoodArray(b) /\ b.length = i /\ b.kind = holeyOf(a.kind)
    BY <2>1, <2>6, GoodObject, ObjectFields
  <2> QED
    BY <2>1, <2>3, <2>4, <2>7, OwnOfObject, OwnOfArray DEF b
<1>3. CASE ~(i < Len(a.elements))
  <2> DEFINE t == Without(a.sparse, {i})
  <2>1. b = ArrayObject(a.elements, t, a.kind, i)
    BY <1>3 DEF Popped
  <2>2. /\ t \in [DOMAIN t -> Cells]
        /\ \A l \in Nat : l \in DOMAIN t <=> l \in DOMAIN a.sparse /\ l # i
        /\ \A l \in DOMAIN t : l \in DOMAIN a.sparse /\ t[l] = a.sparse[l]
    BY ArrayParts, WithoutOne
  <2> HIDE DEF t, b
  <2>3. i >= Len(a.elements) /\ Len(a.elements) \in Nat /\ a.kind \in Kinds
    BY <1>3, ArrayParts
  <2>4. /\ GoodParts(a.elements, t, a.kind, a.length)
        /\ \A l \in Nat : Own(a.elements, t, l) =
               IF l = i THEN Hole ELSE Own(a.elements, a.sparse, l)
    BY <1>1, <2>2, <2>3, SparseErase
  <2>5. GoodParts(a.elements, t, a.kind, i)
    <3>1. DOMAIN t \subseteq 0 .. MaxArrayLength
      BY <2>4 DEF GoodParts
    <3>2. ASSUME NEW l \in DOMAIN t
          PROVE  l < i \/ l < Len(a.elements)
      <4>1. l \in Nat /\ l # i
        BY <2>2, <3>1
      <4>2. l < a.length \/ l < Len(a.elements)
        BY <2>4 DEF GoodParts
      <4> QED
        BY <4>1, <4>2
    <3>3. \A p \in 1 .. Len(a.elements) : a.elements[p] # Hole => p <= i
      BY <2>3
    <3> QED
      BY <1>1, <2>4, <3>2, <3>3 DEF GoodParts
  <2>6. GoodArray(b) /\ b.length = i /\ b.kind = a.kind
    BY <2>1, <2>5, GoodObject, ObjectFields
  <2> QED
    BY <2>1, <2>3, <2>4, <2>6, WiderOrder, OwnOfObject, OwnOfArray DEF b
<1> QED
  BY <1>2, <1>3

\* shift moves every element down by one, in both storages.
LEMMA ShiftProperties ==
    ASSUME NEW a, GoodArray(a), a.length > 0
    PROVE  LET b == Shifted(a)
           IN  /\ GoodArray(b) /\ b.kind = a.kind /\ b.length = a.length - 1
               /\ \A l \in Nat : ownElementValue(b, l) = ownElementValue(a, l + 1)
<1> DEFINE e == IF a.elements = <<>> THEN <<>> ELSE Tail(a.elements)
           s == [i \in {k - 1 : k \in DOMAIN a.sparse \cap 1 .. a.length - 1} |-> a.sparse[i + 1]]
           b == Shifted(a)
<1>1. /\ GoodParts(a.elements, a.sparse, a.kind, a.length)
      /\ a.elements \in Seq(Cells) /\ Len(a.elements) \in Nat
      /\ a.kind \in Kinds /\ a.length \in 0 .. MaxArrayLength
      /\ a.sparse \in [DOMAIN a.sparse -> Cells]
      /\ DOMAIN a.sparse \subseteq 0 .. MaxArrayLength
  BY ArrayParts
<1>2. /\ e \in Seq(Cells) /\ Len(e) \in Nat
      /\ Len(e) = IF Len(a.elements) = 0 THEN 0 ELSE Len(a.elements) - 1
      /\ \A p \in 1 .. Len(e) : e[p] = a.elements[p + 1]
  <2>1. CASE a.elements = <<>>
    BY <1>1, <2>1, EmptySeq
  <2>2. CASE a.elements # <<>>
    BY <1>1, <2>2, EmptySeq, HeadTailProperties
  <2> QED
    BY <2>1, <2>2
<1>3. /\ \A l \in Nat : l \in DOMAIN s <=> l + 1 \in DOMAIN a.sparse /\ l + 1 < a.length
      /\ \A l \in DOMAIN s : l \in Nat /\ l + 1 \in DOMAIN a.sparse /\ l + 1 < a.length
      /\ \A l \in DOMAIN s : s[l] = a.sparse[l + 1]
  BY <1>1
<1>4. s \in [DOMAIN s -> Cells]
  BY <1>1, <1>3
<1>5. b = ArrayObject(e, s, a.kind, a.length - 1)
  BY DEF Shifted
<1> HIDE DEF e, s, b
<1>6. DOMAIN s \subseteq 0 .. MaxArrayLength /\ \A l \in DOMAIN s : l < a.length - 1 \/ l < Len(e)
  BY <1>1, <1>3, ArrayAssumption
<1>7. ASSUME NEW p \in 1 .. Len(e)
      PROVE  (e[p] # Hole => p <= a.length - 1) /\ Covers(a.kind, e[p])
  <2>1. p + 1 \in 1 .. Len(a.elements) /\ e[p] = a.elements[p + 1]
    BY <1>1, <1>2
  <2>2. (a.elements[p + 1] # Hole => p + 1 <= a.length) /\ Covers(a.kind, a.elements[p + 1])
    BY <1>1, <2>1 DEF GoodParts
  <2> QED
    BY <1>1, <2>1, <2>2
<1>8. \A l \in DOMAIN s : Covers(a.kind, s[l])
  BY <1>1, <1>3 DEF GoodParts
<1>9. a.length - 1 \in 0 .. MaxArrayLength
  BY <1>1, ArrayAssumption
<1>10. GoodParts(e, s, a.kind, a.length - 1)
  BY <1>1, <1>2, <1>4, <1>6, <1>7, <1>8, <1>9 DEF GoodParts
<1>11. GoodArray(b) /\ b.kind = a.kind /\ b.length = a.length - 1
  BY <1>5, <1>10, GoodObject, ObjectFields
<1>12. ASSUME NEW l \in Nat
       PROVE  Own(e, s, l) = Own(a.elements, a.sparse, l + 1)
  <2>1. CASE l < Len(e)
    <3>1. l + 1 \in 1 .. Len(e) /\ l + 1 < Len(a.elements) /\ e[l + 1] = a.elements[l + 1 + 1]
      BY <1>1, <1>2, <2>1
    <3> QED
      BY <2>1, <3>1 DEF Own
  <2>2. CASE ~(l < Len(e))
    <3>1. ~(l + 1 < Len(a.elements))
      BY <1>1, <1>2, <2>2
    <3>2. l + 1 \in DOMAIN a.sparse => l + 1 < a.length
      BY <1>1, <3>1 DEF GoodParts
    <3> QED
      BY <1>3, <2>2, <3>1, <3>2 DEF Own
  <2> QED
    BY <2>1, <2>2
<1> QED
  BY <1>5, <1>11, <1>12, OwnOfObject, OwnOfArray DEF b

\* unshift(v) moves every element up by one, in both storages, and no key of
\* the map wraps around.
LEMMA UnshiftProperties ==
    ASSUME NEW a, GoodArray(a), NEW v \in Values,
           a.length + 1 <= LengthCap, Len(a.elements) + 1 <= MaxVector
    PROVE  LET b == Unshifted(a, <<v>>)
           IN  /\ GoodArray(b) /\ Wider(a.kind, b.kind) /\ b.length = a.length + 1
               /\ \A l \in Nat : ownElementValue(b, l) =
                      IF l = 0 THEN v ELSE ownElementValue(a, l - 1)
<1> DEFINE b == Unshifted(a, <<v>>)
           e == <<v>> \o a.elements
           D == DOMAIN a.sparse
           s == [i \in {UInt32(k + 1) : k \in D} |-> a.sparse[UInt32(i - 1)]]
           j == WidenedForAll(a.kind, {<<v>>[q] : q \in 1 .. 1})
           n == UInt32(a.length + 1)
<1>1. /\ GoodParts(a.elements, a.sparse, a.kind, a.length)
      /\ a.elements \in Seq(Cells) /\ Len(a.elements) \in Nat
      /\ a.kind \in Kinds /\ a.length \in 0 .. MaxArrayLength
      /\ a.sparse \in [D -> Cells] /\ D \subseteq 0 .. MaxArrayLength
      /\ Hole \in Cells
  BY ArrayParts
<1>2. v \in Cells /\ v # Hole
  BY ArrayAssumption DEF Cells
<1>3. Len(<<v>>) = 1
  OBVIOUS
<1>4. b = ArrayObject(e, s, j, n)
  BY <1>3 DEF Unshifted
<1>5. n = a.length + 1 /\ n \in 0 .. MaxArrayLength
  <2>1. a.length + 1 \in 0 .. MaxArrayLength
    BY <1>1, ArrayAssumption
  <2> QED
    BY <2>1, UInt32Small
<1>6. /\ e \in Seq(Cells) /\ Len(e) = Len(a.elements) + 1 /\ Len(e) \in Nat
      /\ \A p \in 1 .. Len(e) : e[p] = IF p = 1 THEN v ELSE a.elements[p - 1]
  <2>1. <<v>> \in Seq(Cells) /\ <<v>>[1] = v
    BY <1>2
  <2>2. e \in Seq(Cells) /\ Len(e) = 1 + Len(a.elements)
    BY <1>1, <1>3, <2>1, ConcatProperties
  <2>3. \A p \in 1 .. Len(e) : e[p] = IF p <= 1 THEN <<v>>[p] ELSE a.elements[p - 1]
    BY <1>1, <1>3, <2>1, <2>2, ConcatProperties
  <2> HIDE DEF e
  <2> QED
    BY <1>1, <2>1, <2>2, <2>3
<1>7. ASSUME NEW k \in D
      PROVE  k + 1 \in 0 .. MaxArrayLength /\ UInt32(k + 1) = k + 1 /\ UInt32(k + 1 - 1) = k
  <2>1. k \in 0 .. MaxArrayLength /\ (k < a.length \/ k < Len(a.elements))
    BY <1>1 DEF GoodParts
  <2>2. k + 1 \in 0 .. MaxArrayLength
    BY <1>1, <2>1, ArrayAssumption
  <2>3. k + 1 - 1 = k
    BY <2>1
  <2> QED
    BY <2>1, <2>2, <2>3, UInt32Small
<1>8. /\ \A l \in Nat : l \in DOMAIN s <=> l - 1 \in D
      /\ \A l \in DOMAIN s : l \in 1 .. MaxArrayLength /\ l - 1 \in D /\ s[l] = a.sparse[l - 1]
  <2>1. {UInt32(k + 1) : k \in D} = {k + 1 : k \in D}
    BY <1>7
  <2>2. DOMAIN s = {k + 1 : k \in D}
    BY <2>1
  <2>3. ASSUME NEW l \in DOMAIN s
        PROVE  l \in 1 .. MaxArrayLength /\ l - 1 \in D /\ s[l] = a.sparse[l - 1]
    <3>1. PICK k \in D : l = k + 1
      BY <2>2
    <3>2. s[l] = a.sparse[UInt32(l - 1)]
      BY <2>3
    <3>3. k \in Nat /\ l - 1 = k /\ UInt32(l - 1) = k
      BY <1>1, <1>7, <3>1
    <3> QED
      BY <1>7, <3>1, <3>2, <3>3, ArrayAssumption
  <2>4. ASSUME NEW l \in Nat
        PROVE  l \in DOMAIN s <=> l - 1 \in D
    <3>1. l - 1 \in D => l = (l - 1) + 1
      OBVIOUS
    <3> QED
      BY <2>2, <2>3, <3>1
  <2> QED
    BY <2>3, <2>4
<1>9. s \in [DOMAIN s -> Cells]
  <2>1. \A l \in DOMAIN s : s[l] \in Cells
    BY <1>1, <1>8
  <2> QED
    BY <2>1
<1>10. j \in Kinds /\ Wider(a.kind, j) /\ Covers(j, v)
  <2>1. {<<v>>[q] : q \in 1 .. 1} = {v}
    OBVIOUS
  <2>2. /\ a.kind < 2 /\ v \notin Smis => j = a.kind + (IF v \in Numbers THEN 2 ELSE 4)
        /\ ~(a.kind < 2 /\ v \notin Smis) /\ a.kind \in 2 .. 3 /\ v \notin Numbers => j = a.kind + 2
        /\ ~(a.kind < 2 /\ v \notin Smis) /\ ~(a.kind \in 2 .. 3 /\ v \notin Numbers) => j = a.kind
    BY <2>1 DEF WidenedForAll
  <2> HIDE DEF j
  <2>3. j \in Kinds /\ Wider(a.kind, j)
    BY <1>1, <2>2 DEF Kinds, Wider
  <2>4. j < 2 => v \in Smis
    BY <1>1, <2>2 DEF Kinds
  <2>5. j < 4 => v \in Numbers
    BY <1>1, <2>2 DEF Kinds, Numbers
  <2> QED
    BY <1>2, <2>3, <2>4, <2>5 DEF Covers
<1> HIDE DEF e, s, j, n, b
<1>11. DOMAIN s \subseteq 0 .. MaxArrayLength /\ \A l \in DOMAIN s : l < n \/ l < Len(e)
  <2>1. ASSUME NEW l \in DOMAIN s
        PROVE  l \in 0 .. MaxArrayLength /\ (l < n \/ l < Len(e))
    <3>1. l \in 1 .. MaxArrayLength /\ l - 1 \in D
      BY <1>8
    <3>2. l - 1 < a.length \/ l - 1 < Len(a.elements)
      BY <1>1, <3>1 DEF GoodParts
    <3> QED
      BY <1>1, <1>5, <1>6, <3>1, <3>2, ArrayAssumption
  <2> QED
    BY <2>1
<1>12. ASSUME NEW p \in 1 .. Len(e)
       PROVE  (e[p] # Hole => p <= n) /\ Covers(j, e[p])
  <2>1. CASE p = 1
    BY <1>1, <1>5, <1>6, <1>10, <2>1
  <2>2. CASE p # 1
    <3>1. p - 1 \in 1 .. Len(a.elements) /\ e[p] = a.elements[p - 1]
      BY <1>1, <1>6, <2>2
    <3>2. (a.elements[p - 1] # Hole => p - 1 <= a.length) /\ Covers(a.kind, a.elements[p - 1])
      BY <1>1, <3>1 DEF GoodParts
    <3>3. Covers(j, a.elements[p - 1])
      BY <1>1, <1>10, <3>2, WiderCovers
    <3> QED
      BY <1>1, <1>5, <3>1, <3>2, <3>3
  <2> QED
    BY <2>1, <2>2
<1>13. \A l \in DOMAIN s : Covers(j, s[l])
  BY <1>1, <1>8, <1>10, WiderCovers DEF GoodParts
<1>14. GoodParts(e, s, j, n)
  BY <1>5, <1>6, <1>9, <1>10, <1>11, <1>12, <1>13 DEF GoodParts
<1>15. GoodArray(b) /\ b.kind = j /\ b.length = a.length + 1
  BY <1>4, <1>5, <1>14, GoodObject, ObjectFields
<1>16. ASSUME NEW l \in Nat
       PROVE  Own(e, s, l) = IF l = 0 THEN v ELSE Own(a.elements, a.sparse, l - 1)
  <2>1. CASE l < Len(e)
    <3>1. l + 1 \in 1 .. Len(e) /\ e[l + 1] = IF l + 1 = 1 THEN v ELSE a.elements[l + 1 - 1]
      <4>1. l + 1 \in 1 .. Len(e)
        BY <1>6, <2>1
      <4> QED
        BY <1>6, <4>1
    <3>2. l # 0 => l - 1 < Len(a.elements) /\ a.elements[l + 1 - 1] = a.elements[l - 1 + 1]
      BY <1>1, <1>6, <2>1
    <3> QED
      BY <2>1, <3>1, <3>2 DEF Own
  <2>2. CASE ~(l < Len(e))
    <3>1. l # 0 /\ ~(l - 1 < Len(a.elements))
      BY <1>1, <1>6, <2>2
    <3> QED
      BY <1>8, <2>2, <3>1 DEF Own
  <2> QED
    BY <2>1, <2>2
<1> QED
  BY <1>4, <1>10, <1>15, <1>16, OwnOfObject, OwnOfArray DEF b

-----------------------------------------------------------------------------
(* The arrays that natives build.                                          *)

LEMMA WiderParts ==
    ASSUME NEW e, NEW s, NEW k, NEW n, GoodParts(e, s, k, n), NEW j \in Kinds, Wider(k, j)
    PROVE  GoodParts(e, s, j, n)
<1>1. k \in Kinds
  BY DEF GoodParts
<1>2. \A p \in 1 .. Len(e) : Covers(j, e[p])
  BY <1>1, WiderCovers DEF GoodParts
<1>3. \A i \in DOMAIN s : Covers(j, s[i])
  BY <1>1, WiderCovers DEF GoodParts
<1> QED
  BY <1>2, <1>3 DEF GoodParts

\* An append to the vector of an array that has no map entry yet.
LEMMA DenseAppend ==
    ASSUME NEW e, NEW s, NEW k, NEW i \in 0 .. MaxArrayLength - 1, GoodParts(e, s, k, i),
           Len(e) = i, DOMAIN s = {}, NEW v \in Cells, NEW j \in Kinds, Wider(k, j), Covers(j, v)
    PROVE  LET b == [Resized(e, IF i < Len(e) THEN Len(e) ELSE i + 1) EXCEPT ![i + 1] = v]
           IN  /\ GoodParts(b, s, j, i + 1)
               /\ Len(b) = i + 1
               /\ \A p \in 1 .. i + 1 : b[p] = IF p = i + 1 THEN v ELSE e[p]
<1> DEFINE r == Resized(e, i + 1)
           b == [r EXCEPT ![i + 1] = v]
<1>1. e \in Seq(Cells) /\ k \in Kinds /\ \A p \in 1 .. i : e[p] \in Cells
  BY ElementOfSeq DEF GoodParts
<1>2. r = [p \in 1 .. i + 1 |-> IF p <= i THEN e[p] ELSE Hole]
  BY DEF Resized
<1> HIDE DEF r
<1>3. b = [p \in 1 .. i + 1 |-> IF p = i + 1 THEN v ELSE e[p]]
  BY <1>2
<1> HIDE DEF b
<1>4. \A p \in 1 .. i + 1 : (IF p = i + 1 THEN v ELSE e[p]) \in Cells
  BY <1>1
<1>5. /\ b \in Seq(Cells) /\ Len(b) = i + 1
      /\ \A p \in 1 .. i + 1 : b[p] = IF p = i + 1 THEN v ELSE e[p]
  BY <1>3, <1>4, IsASeq
<1>6. \A p \in 1 .. Len(b) : Covers(j, b[p])
  <2>1. \A p \in 1 .. i : Covers(j, e[p])
    BY <1>1, WiderCovers DEF GoodParts
  <2> QED
    BY <1>5, <2>1
<1>7. i + 1 \in 0 .. MaxArrayLength
  BY ArrayAssumption
<1>8. \A p \in 1 .. Len(b) : b[p] # Hole => p <= i + 1
  BY <1>5
<1>9. GoodParts(b, s, j, i + 1)
  BY <1>5, <1>6, <1>7, <1>8 DEF GoodParts
<1>10. (IF i < Len(e) THEN Len(e) ELSE i + 1) = i + 1
  OBVIOUS
<1> QED
  BY <1>5, <1>9, <1>10 DEF b, r

\* appendElement and its widening at the end of a contiguous array: the array
\* stays contiguous and grows by the cell appended.
LEMMA AppendedGood ==
    ASSUME NEW a, GoodArray(a), Contiguous(a), NEW i \in 0 .. MaxArrayLength - 1,
           a.length = i, NEW v \in Cells
    PROVE  LET b == Appended(a, i, v)
           IN  /\ GoodArray(b) /\ Contiguous(b) /\ b.length = i + 1
               /\ NoHole(a) /\ v # Hole => NoHole(b)
<1> DEFINE b == Appended(a, i, v)
           c == appendElement(a, i, v)
<1>1. /\ GoodParts(a.elements, a.sparse, a.kind, i)
      /\ a.elements \in Seq(Cells) /\ Len(a.elements) \in Nat
      /\ a.kind \in Kinds
      /\ a.sparse \in [DOMAIN a.sparse -> Cells]
      /\ MaxDense \in Nat
  BY ArrayParts, ArrayAssumption
<1>2. Reaching(i, i) = i + 1 /\ i + 1 \in 0 .. MaxArrayLength /\ i \in 0 .. MaxArrayLength
  BY ReachingValue, ArrayAssumption
<1>3. v # Hole => v \in Values
  BY DEF Cells
<1>4. CASE i >= MaxDense
  <2>1. c = StoredSparse(a, i, v)
    BY <1>4 DEF appendElement
  <2>2. Len(a.elements) = MaxDense /\ DOMAIN a.sparse = MaxDense .. i - 1
    BY <1>1, <1>4 DEF Contiguous
  <2>3. /\ GoodArray(c) /\ c.elements = a.elements /\ c.sparse = With(a.sparse, i, v)
        /\ c.kind = 5 /\ c.length = i + 1
    BY <1>2, <1>4, <2>1, <2>2, SparseStore
  <2>4. /\ DOMAIN c.sparse = MaxDense .. i
        /\ \A l \in DOMAIN c.sparse : c.sparse[l] = IF l = i THEN v ELSE a.sparse[l]
    BY <1>1, <1>4, <2>2, <2>3 DEF With
  <2> HIDE DEF c
  <2>5. /\ GoodArray(b) /\ b.elements = c.elements /\ b.sparse = c.sparse /\ b.length = c.length
    <3>1. CASE v = Hole
      BY <2>3, <3>1 DEF Appended, c
    <3>2. CASE v # Hole
      <4>1. b = widenElementsFor(c, v)
        BY <3>2 DEF Appended, c
      <4> HIDE DEF b
      <4>2. /\ b = ArrayObject(c.elements, c.sparse, b.kind, c.length)
            /\ b.elements = c.elements /\ b.sparse = c.sparse /\ b.length = c.length
            /\ b.kind \in Kinds /\ Wider(c.kind, b.kind)
        BY <1>3, <2>3, <3>2, <4>1, ArrayParts, WidenProperties
      <4>3. GoodParts(c.elements, c.sparse, c.kind, c.length)
        BY <2>3, ArrayParts
      <4>4. GoodParts(c.elements, c.sparse, b.kind, c.length)
        BY <4>2, <4>3, WiderParts
      <4> QED
        BY <4>2, <4>4 DEF GoodArray
    <3> QED
      BY <3>1, <3>2
  <2> HIDE DEF b
  <2>6. Contiguous(b)
    <3>1. i + 1 - 1 = i /\ ~(i + 1 < MaxDense)
      BY <1>1, <1>4
    <3> QED
      BY <2>2, <2>3, <2>4, <2>5, <3>1 DEF Contiguous
  <2>7. NoHole(a) /\ v # Hole => NoHole(b)
    <3>1. \A l \in MaxDense .. i : l # i => l \in MaxDense .. i - 1
      BY <1>1, <1>4
    <3>2. /\ \A l \in DOMAIN b.sparse : l # i => l \in DOMAIN a.sparse
          /\ \A l \in DOMAIN b.sparse : b.sparse[l] = IF l = i THEN v ELSE a.sparse[l]
          /\ b.elements = a.elements
      BY <2>2, <2>3, <2>4, <2>5, <3>1
    <3> QED
      BY <3>2 DEF NoHole
  <2> QED
    BY <2>3, <2>5, <2>6, <2>7 DEF b
<1>5. CASE ~(i >= MaxDense)
  <2> DEFINE e == [Resized(a.elements, IF i < Len(a.elements) THEN Len(a.elements) ELSE i + 1)
                      EXCEPT ![i + 1] = v]
             k == IF v = Hole THEN holeyOf(a.kind) ELSE a.kind
  <2>1. c = ArrayObject(e, a.sparse, k, i + 1)
    BY <1>2, <1>5 DEF appendElement
  <2>2. Len(a.elements) = i /\ DOMAIN a.sparse = {}
    BY <1>1, <1>5 DEF Contiguous
  <2>3. k \in Kinds /\ Wider(a.kind, k) /\ (v = Hole => Covers(k, v))
    BY <1>1, HoleyKind, WiderOrder
  <2> HIDE DEF e, k
  <2>4. PICK j \in Kinds : Wider(a.kind, j) /\ Covers(j, v) /\ b = ArrayObject(e, a.sparse, j, i + 1)
    <3>1. CASE v = Hole
      BY <2>1, <2>3, <3>1 DEF Appended
    <3>2. CASE v # Hole
      <4>1. b = widenElementsFor(c, v)
        BY <3>2 DEF Appended
      <4>2. c.elements = e /\ c.sparse = a.sparse /\ c.kind = k /\ c.length = i + 1
        BY <2>1, ObjectFields
      <4> HIDE DEF c, b
      <4>3. /\ b = ArrayObject(e, a.sparse, b.kind, i + 1)
            /\ b.kind \in Kinds /\ Wider(k, b.kind) /\ Covers(b.kind, v)
        BY <1>3, <2>1, <2>3, <3>2, <4>1, <4>2, WidenProperties
      <4> QED
        BY <1>1, <2>3, <4>3, WiderOrder
    <3> QED
      BY <3>1, <3>2
  <2>5. /\ GoodParts(e, a.sparse, j, i + 1) /\ Len(e) = i + 1
        /\ \A p \in 1 .. i + 1 : e[p] = IF p = i + 1 THEN v ELSE a.elements[p]
    BY <1>1, <2>2, <2>4, DenseAppend DEF e
  <2> HIDE DEF b
  <2>6. /\ GoodArray(b) /\ b.elements = e /\ b.sparse = a.sparse /\ b.length = i + 1
    BY <2>4, <2>5, GoodObject, ObjectFields
  <2>7. Contiguous(b)
    <3>1. /\ i + 1 < MaxDense \/ i + 1 = MaxDense
          /\ MaxDense .. (i + 1) - 1 = {}
      BY <1>1, <1>5
    <3> QED
      BY <2>2, <2>5, <2>6, <3>1 DEF Contiguous
  <2>8. NoHole(a) /\ v # Hole => NoHole(b)
    BY <2>2, <2>5, <2>6 DEF NoHole
  <2> QED
    BY <2>6, <2>7, <2>8 DEF b
<1> QED
  BY <1>4, <1>5

\* Reading an array index by index.
LEMMA ContentsSeq ==
    ASSUME NEW a, GoodArray(a)
    PROVE  /\ Contents(a) \in Seq(Cells) /\ Len(Contents(a)) = a.length
           /\ \A j \in 1 .. a.length : Contents(a)[j] = ownElementValue(a, j - 1)
<1>1. a.length \in Nat /\ GoodParts(a.elements, a.sparse, a.kind, a.length)
  BY ArrayParts
<1>2. \A j \in 1 .. a.length : ownElementValue(a, j - 1) \in Cells
  BY <1>1, OwnBelowLength, OwnOfArray
<1>3. Contents(a) = [j \in 1 .. a.length |-> ownElementValue(a, j - 1)]
  BY DEF Contents
<1> QED
  BY <1>1, <1>2, <1>3, IsASeq

\* The array that slice and concat build from a sequence of cells is well
\* formed, and reading it gives that sequence.
LEMMA ArrayOfProperties ==
    ASSUME NEW f \in Seq(Cells), Len(f) <= MaxArrayLength
    PROVE  GoodArray(ArrayOf(f)) /\ Contents(ArrayOf(f)) = f
<1> DEFINE n == Len(f)
           S == {f[j] : j \in 1 .. n}
           class == IF S \subseteq Smis \cup {Hole} THEN 0
                    ELSE IF S \subseteq Numbers \cup {Hole} THEN 2 ELSE 4
           k == IF n > MaxDense THEN 5 ELSE IF Hole \in S THEN class + 1 ELSE class
           m == IF n < MaxDense THEN n ELSE MaxDense
           e == SubSeq(f, 1, m)
           s == [i \in MaxDense .. n - 1 |-> f[i + 1]]
           b == ArrayOf(f)
<1>1. /\ n \in 0 .. MaxArrayLength /\ n \in Nat /\ MaxDense \in Nat
      /\ \A j \in 1 .. n : f[j] \in Cells
  BY LenProperties, ElementOfSeq, ArrayAssumption
<1>2. b = ArrayObject(e, s, k, n)
  BY DEF ArrayOf
<1>3. \A j \in 1 .. n : f[j] \in S
  OBVIOUS
<1> HIDE DEF b, n
<1>4. m \in 0 .. n /\ m <= MaxDense /\ (m < n => m = MaxDense)
  BY <1>1
<1>5. e \in Seq(Cells) /\ Len(e) = m /\ \A p \in 1 .. m : e[p] = f[p]
  BY <1>1, <1>4, SubSeqProperties DEF n
<1>6. class \in {0, 2, 4} /\ k \in Kinds
  BY DEF Kinds
<1>7. ASSUME NEW x \in S
      PROVE  Covers(k, x)
  <2>1. CASE n > MaxDense
    BY <2>1, <1>6, WidestKind
  <2>2. CASE ~(n > MaxDense)
    <3>1. /\ Hole \in S => k % 2 = 1
          /\ k < 2 => class = 0
          /\ k < 4 => class \in {0, 2}
      BY <1>6, <2>2
    <3>2. (class = 0 => S \subseteq Smis \cup {Hole})
      OBVIOUS
    <3>3. (class = 2 => S \subseteq Numbers \cup {Hole})
      OBVIOUS
    <3>4. Smis \subseteq Numbers
      BY DEF Numbers
    <3> HIDE DEF S, class, k
    <3> QED
      BY <3>1, <3>2, <3>3, <3>4 DEF Covers
  <2> QED
    BY <2>1, <2>2
<1> HIDE DEF S, k, m, e
<1>8. /\ DOMAIN s = MaxDense .. n - 1
      /\ \A i \in DOMAIN s : i \in Nat /\ i + 1 \in 1 .. n /\ s[i] = f[i + 1]
  BY <1>1
<1>9. s \in [DOMAIN s -> Cells] /\ DOMAIN s \subseteq 0 .. MaxArrayLength
  <2>1. MaxDense .. n - 1 \subseteq 0 .. MaxArrayLength
    BY <1>1, ArrayAssumption
  <2>2. \A i \in DOMAIN s : s[i] \in Cells
    BY <1>1, <1>8
  <2> QED
    BY <1>8, <2>1, <2>2
<1> HIDE DEF s
<1>10. \A i \in DOMAIN s : i < n \/ i < Len(e)
  BY <1>1, <1>8
<1>11. \A p \in 1 .. Len(e) : e[p] # Hole => p <= n
  BY <1>1, <1>4, <1>5
<1>12. \A p \in 1 .. Len(e) : Covers(k, e[p])
  <2>1. \A p \in 1 .. m : p \in 1 .. n
    BY <1>1, <1>4
  <2> QED
    BY <1>3, <1>5, <1>7, <2>1
<1>13. \A i \in DOMAIN s : Covers(k, s[i])
  BY <1>3, <1>7, <1>8
<1>14. GoodParts(e, s, k, n)
  BY <1>1, <1>5, <1>6, <1>9, <1>10, <1>11, <1>12, <1>13 DEF GoodParts
<1>15. GoodArray(b) /\ b.length = n
  BY <1>2, <1>14, GoodObject, ObjectFields
<1>16. ASSUME NEW j \in 1 .. n
       PROVE  ownElementValue(b, j - 1) = f[j]
  <2>1. ownElementValue(b, j - 1) = Own(e, s, j - 1)
    BY <1>2, OwnOfObject
  <2>2. j \in Nat /\ j - 1 + 1 = j
    BY <1>1
  <2>3. CASE j - 1 < m
    BY <1>1, <1>4, <1>5, <2>1, <2>2, <2>3 DEF Own
  <2>4. CASE ~(j - 1 < m)
    <3>1. j - 1 \in MaxDense .. n - 1
      BY <1>1, <1>4, <2>4
    <3> QED
      BY <1>5, <1>8, <2>1, <2>2, <2>4, <3>1 DEF Own
  <2> QED
    BY <2>3, <2>4
<1>17. Contents(b) = f
  <2>1. /\ Contents(b) \in Seq(Cells) /\ Len(Contents(b)) = n
        /\ \A j \in 1 .. n : Contents(b)[j] = ownElementValue(b, j - 1)
    BY <1>15, ContentsSeq
  <2> QED
    BY <1>16, <2>1, SeqEqual DEF n
<1> QED
  BY <1>15, <1>17 DEF b

-----------------------------------------------------------------------------
(* The array after each writing operation.                                 *)

\* An operation that changes the array and records r as its result.
Wrote(b, r) == arr' = b /\ Returning(r)

WroteDelete == \E i \in Indices : Wrote(deleteElement(arr, i), Truth(TRUE))
WroteStore == \E i \in Indices, v \in Values : Wrote(setArrayElement(arr, i, v), NoResult)
WroteLength == \E n \in 0 .. MaxArrayLength : Wrote(arraySetLength(arr, n), NoResult)
WrotePush ==
    /\ arr.length \in 0 .. MaxArrayLength - 1
    /\ \E v \in Values : Wrote(setArrayElement(arr, arr.length, v),
                               Number(setArrayElement(arr, arr.length, v).length))
WroteUnshift ==
    /\ arr.length + 1 <= LengthCap /\ Len(arr.elements) + 1 <= MaxVector
    /\ \E v \in Values : Wrote(Unshifted(arr, <<v>>), Number(Unshifted(arr, <<v>>).length))
WrotePop ==
    /\ arr.length > 0
    /\ Wrote(Popped(arr, arr.length - 1), Value(OrUndefined(ownElementValue(arr, arr.length - 1))))
WroteShift ==
    arr.length > 0 /\ Wrote(Shifted(arr), Value(OrUndefined(ownElementValue(arr, 0))))
WroteNothing == Wrote(arr, NoResult) \/ Wrote(arr, Error("RangeError"))

\* The writing operations, by the array they leave and the result they
\* record; the fast lane of SetElement is setArrayElement on a present element.
LEMMA WritingCases ==
    ASSUME GoodArray(arr), Writing
    PROVE  \/ WroteDelete \/ WroteStore \/ WroteLength \/ WrotePush \/ WroteUnshift
           \/ WrotePop \/ WroteShift \/ WroteNothing
<1>1. arr.length \in 0 .. MaxArrayLength /\ Len(arr.elements) \in Nat
  BY ArrayParts
<1>2. ASSUME NEW i \in Indices, DeleteElement(i)
      PROVE  WroteDelete
  BY <1>2 DEF DeleteElement, Wrote, WroteDelete
<1>3. ASSUME NEW i \in Indices, NEW v \in Values, SetElementFast(i, v)
      PROVE  WroteStore
  <2>1. Wrote(setArrayElement(arr, i, v), NoResult)
    BY <1>3 DEF SetElementFast, Wrote, setArrayElement
  <2> QED
    BY <2>1 DEF WroteStore
<1>4. ASSUME NEW i \in Indices, NEW v \in Values, SetElement(i, v)
      PROVE  WroteStore
  BY <1>4 DEF SetElement, Wrote, WroteStore
<1>5. ASSUME NEW n \in LengthArgs, SetLength(n)
      PROVE  WroteLength \/ WroteNothing
  <2>1. n \in Int /\ n <= MaxArrayLength
    BY <1>5, ArrayAssumption DEF SetLength
  <2>2. CASE n < 0
    BY <1>5, <2>2 DEF SetLength, Wrote, WroteNothing
  <2>3. CASE ~(n < 0)
    <3>1. n \in 0 .. MaxArrayLength
      BY <2>1, <2>3, ArrayAssumption
    <3>2. Wrote(arraySetLength(arr, n), NoResult)
      BY <1>5, <2>3 DEF SetLength, Wrote
    <3> QED
      BY <3>1, <3>2 DEF WroteLength
  <2> QED
    BY <2>2, <2>3
<1>6. ASSUME NEW v \in Values, Push(v)
      PROVE  WrotePush
  <2>1. arr.length \in 0 .. MaxArrayLength - 1
    BY <1>1, <1>6, ArrayAssumption DEF Push
  <2> QED
    BY <1>6, <2>1 DEF Push, Wrote, WrotePush
<1>7. ASSUME NEW v \in Values, Unshift(<<v>>)
      PROVE  WroteUnshift
  <2>1. Len(<<v>>) = 1
    OBVIOUS
  <2>2. /\ arr.length + 1 <= LengthCap /\ Len(arr.elements) + 1 <= MaxVector
        /\ Wrote(Unshifted(arr, <<v>>), Number(Unshifted(arr, <<v>>).length))
    BY <1>7, <2>1 DEF Unshift, Wrote
  <2> QED
    BY <2>2 DEF WroteUnshift
<1>8. CASE arr.length = 0 /\ (Pop \/ Shift)
  BY <1>8 DEF Pop, Shift, Wrote, WroteNothing
<1>9. CASE arr.length # 0 /\ Pop
  BY <1>1, <1>9 DEF Pop, Wrote, WrotePop
<1>10. CASE arr.length # 0 /\ Shift
  BY <1>1, <1>10 DEF Shift, Wrote, WroteShift
<1> QED
  BY <1>2, <1>3, <1>4, <1>5, <1>6, <1>7, <1>8, <1>9, <1>10 DEF Writing

-----------------------------------------------------------------------------
(* Preservation.                                                           *)

LEMMA IterationFields ==
    ASSUME NEW op, NEW i, NEW len, NEW called, NEW value, NEW out, NEW writes
    PROVE  LET it == Iteration(op, i, len, called, value, out, writes)
           IN  /\ it.op = op /\ it.i = i /\ it.len = len /\ it.called = called
               /\ it.value = value /\ it.out = out /\ it.writes = writes
BY DEF Iteration

LEMMA IterationOf ==
    ASSUME NEW op, NEW i, NEW len, NEW called, NEW value, NEW out, NEW writes,
           GoodTurn(op, i, len, called, value, out)
    PROVE  GoodIteration(Iteration(op, i, len, called, value, out, writes))
BY IterationFields DEF GoodIteration

\* A write inside a callback counts, and leaves the running native alone.
LEMMA IterationCounted ==
    ASSUME NEW it, GoodIteration(it), NEW w
    PROVE  GoodIteration([it EXCEPT !.writes = w])
<1> DEFINE op == it.op
           i == it.i
           len == it.len
           called == it.called
           value == it.value
           out == it.out
<1>1. it = Iteration(op, i, len, called, value, out, it.writes)
  BY DEF GoodIteration
<1>2. GoodTurn(op, i, len, called, value, out)
  BY DEF GoodIteration
<1> HIDE DEF op, i, len, called, value, out
<1>3. [it EXCEPT !.writes = w] = Iteration(op, i, len, called, value, out, w)
  BY <1>1 DEF Iteration
<1> QED
  BY <1>2, <1>3, IterationOf

\* A native that runs is not Idle.
LEMMA RunningIsNotIdle ==
    ASSUME NEW it, it = Idle \/ GoodIteration(it)
    PROVE  it.op # "none" <=> GoodIteration(it)
BY DEF Idle, GoodIteration, GoodTurn, Callbacks

LEMMA NewArrayGood == GoodArray(newArrayObject) /\ Contiguous(newArrayObject) /\ NoHole(newArrayObject)
                      /\ newArrayObject.length = 0
<1> DEFINE n == newArrayObject
<1>1. /\ n.elements = <<>> /\ n.sparse = NoSparse /\ n.kind = 0 /\ n.length = 0
      /\ n = ArrayObject(<<>>, NoSparse, 0, 0)
  BY ObjectFields DEF newArrayObject
<1>2. <<>> \in Seq(Cells) /\ Len(<<>>) = 0
  BY EmptySeq
<1>3. NoSparse \in [DOMAIN NoSparse -> Cells] /\ DOMAIN NoSparse = {}
  BY DEF NoSparse
<1>4. GoodParts(<<>>, NoSparse, 0, 0)
  BY <1>2, <1>3, ArrayAssumption DEF GoodParts, Kinds
<1>5. GoodArray(n)
  BY <1>1, <1>4, GoodObject
<1> HIDE DEF n
<1>6. Contiguous(n)
  BY <1>1, <1>2, <1>3, ArrayAssumption DEF Contiguous
<1>7. NoHole(n)
  BY <1>1, <1>2, <1>3 DEF NoHole
<1> QED
  BY <1>1, <1>5, <1>6, <1>7 DEF n

\* Every write leaves a well-formed array of a kind at least as wide.
LEMMA WritingGood ==
    ASSUME GoodArray(arr), Writing
    PROVE  GoodArray(arr') /\ Wider(arr.kind, arr'.kind)
<1>1. arr.kind \in Kinds /\ Wider(arr.kind, arr.kind) /\ arr.length \in 0 .. MaxArrayLength
  BY ArrayParts, WiderOrder
<1>2. Indices \subseteq 0 .. MaxArrayLength - 1
  BY ArrayAssumption
<1>3. CASE WroteDelete
  BY <1>2, <1>3, DeleteProperties DEF WroteDelete, Wrote
<1>4. CASE WroteStore
  BY <1>2, <1>4, SetProperties DEF WroteStore, Wrote
<1>5. CASE WroteLength
  BY <1>5, SetLengthProperties DEF WroteLength, Wrote
<1>6. CASE WrotePush
  BY <1>6, SetProperties DEF WrotePush, Wrote
<1>7. CASE WroteUnshift
  BY <1>7, UnshiftProperties DEF WroteUnshift, Wrote
<1>8. CASE WrotePop
  <2>1. arr.length - 1 \in Nat /\ arr.length = arr.length - 1 + 1
    BY <1>1, <1>8 DEF WrotePop
  <2>2. LET b == Popped(arr, arr.length - 1) IN GoodArray(b) /\ Wider(arr.kind, b.kind)
    BY <2>1, PopProperties
  <2> QED
    BY <1>8, <2>2 DEF WrotePop, Wrote
<1>9. CASE WroteShift
  BY <1>1, <1>9, ShiftProperties DEF WroteShift, Wrote
<1>10. CASE WroteNothing
  BY <1>1, <1>10 DEF WroteNothing, Wrote
<1> QED
  BY <1>3, <1>4, <1>5, <1>6, <1>7, <1>8, <1>9, <1>10, WritingCases

\* Every write drops the array of an earlier slice or concat and its request.
LEMMA ReturningResets ==
    ASSUME NEW r, r[1] \notin {"slice", "concat"}, Returning(r)
    PROVE  ret'[1] \notin {"slice", "concat"} /\ res' = newArrayObject
BY DEF Returning, NoResult, Value

LEMMA WritingResets ==
    ASSUME GoodArray(arr), Writing
    PROVE  /\ ret'[1] \notin {"slice", "concat"} /\ res' = newArrayObject
           /\ iter' = IF iter.op = "none" THEN iter ELSE [iter EXCEPT !.writes = @ + 1]
<1>1. PICK b, r : Wrote(b, r) /\ r[1] \notin {"slice", "concat"}
  <2>1. /\ \A v : Value(v)[1] \notin {"slice", "concat"}
        /\ \A v : Number(v)[1] \notin {"slice", "concat"}
        /\ \A v : Truth(v)[1] \notin {"slice", "concat"}
        /\ \A v : Error(v)[1] \notin {"slice", "concat"}
        /\ NoResult[1] \notin {"slice", "concat"}
    BY DEF Value, Number, Truth, Error, NoResult
  <2>2. CASE WroteDelete
    BY <2>1, <2>2 DEF WroteDelete
  <2>3. CASE WroteStore
    BY <2>1, <2>3 DEF WroteStore
  <2>4. CASE WroteLength
    BY <2>1, <2>4 DEF WroteLength
  <2>5. CASE WrotePush
    BY <2>1, <2>5 DEF WrotePush
  <2>6. CASE WroteUnshift
    BY <2>1, <2>6 DEF WroteUnshift
  <2>7. CASE WrotePop
    BY <2>1, <2>7 DEF WrotePop
  <2>8. CASE WroteShift
    BY <2>1, <2>8 DEF WroteShift
  <2>9. CASE WroteNothing
    BY <2>1, <2>9 DEF WroteNothing
  <2> QED
    BY <2>2, <2>3, <2>4, <2>5, <2>6, <2>7, <2>8, <2>9, WritingCases
<1>2. Returning(r)
  BY <1>1 DEF Wrote
<1> QED
  BY <1>1, <1>2, ReturningResets DEF Returning

\* slice and concat leave in res what they were asked to copy.
LEMMA SliceExact ==
    ASSUME GoodArray(arr), NEW start \in Int, NEW end \in Int, Slice(start, end)
    PROVE  /\ GoodArray(res')
           /\ ret' = <<"slice", start, end>>
           /\ Contents(res') = SubSeq(Contents(arr), Clamp(start) + 1, Clamp(end))
<1> DEFINE k == Clamp(start)
           m == Clamp(end)
           n == IF m < k THEN 0 ELSE m - k
           f == [j \in 1 .. n |-> ownElementValue(arr, k + j - 1)]
<1>1. res' = ArrayOf(f) /\ ret' = <<"slice", start, end>>
  BY DEF Slice
<1>2. /\ arr.length \in 0 .. MaxArrayLength /\ Contents(arr) \in Seq(Cells)
      /\ Len(Contents(arr)) = arr.length
      /\ \A j \in 1 .. arr.length :
            Contents(arr)[j] = ownElementValue(arr, j - 1) /\ Contents(arr)[j] \in Cells
  BY ArrayParts, ContentsSeq, ElementOfSeq
<1>3. k \in 0 .. arr.length /\ m \in 0 .. arr.length
  BY <1>2 DEF Clamp
<1> HIDE DEF k, m
<1>4. n \in 0 .. arr.length /\ \A j \in 1 .. n : k + j \in 1 .. arr.length /\ k + j \in k + 1 .. m
  BY <1>2, <1>3
<1>5. (k + 1 <= m => m - (k + 1) + 1 = n) /\ (~(k + 1 <= m) => n = 0)
  BY <1>2, <1>3
<1>6. ASSUME NEW j \in 1 .. n
      PROVE  ownElementValue(arr, k + j - 1) = Contents(arr)[k + j]
  <2> DEFINE q == k + j
  <2>1. q \in 1 .. arr.length
    BY <1>4
  <2> HIDE DEF q
  <2>2. Contents(arr)[q] = ownElementValue(arr, q - 1)
    BY <1>2, <2>1
  <2>3. k + j - 1 = q - 1
    BY <1>2, <1>3 DEF q
  <2> QED
    BY <2>2, <2>3 DEF q
<1>7. \A j \in 1 .. n : ownElementValue(arr, k + j - 1) \in Cells
  BY <1>2, <1>4, <1>6
<1> HIDE DEF n
<1>8. f \in Seq(Cells) /\ Len(f) = n /\ \A j \in 1 .. n : f[j] = ownElementValue(arr, k + j - 1)
  BY <1>2, <1>4, <1>7, IsASeq
<1>9. /\ SubSeq(Contents(arr), k + 1, m) \in Seq(Cells)
      /\ Len(SubSeq(Contents(arr), k + 1, m)) = n
      /\ \A j \in 1 .. n : SubSeq(Contents(arr), k + 1, m)[j] = Contents(arr)[k + j]
  <2>1. k + 1 \in Int /\ m \in Int
    BY <1>2, <1>3
  <2>2. \A i \in k + 1 .. m : Contents(arr)[i] \in Cells
    BY <1>2, <1>3
  <2>3. /\ SubSeq(Contents(arr), k + 1, m) \in Seq(Cells)
        /\ Len(SubSeq(Contents(arr), k + 1, m)) = IF k + 1 <= m THEN m - (k + 1) + 1 ELSE 0
        /\ \A i \in 1 .. m - (k + 1) + 1 :
              SubSeq(Contents(arr), k + 1, m)[i] = Contents(arr)[(k + 1) + i - 1]
    BY <2>1, <2>2, SubSeqProperties
  <2>4. \A j \in 1 .. n : (k + 1) + j - 1 = k + j /\ j \in 1 .. m - (k + 1) + 1
    BY <1>2, <1>3, <1>4, <1>5
  <2> QED
    BY <1>5, <2>3, <2>4
<1> HIDE DEF f
<1>10. f = SubSeq(Contents(arr), k + 1, m)
  BY <1>6, <1>8, <1>9, SeqEqual
<1>11. Len(f) <= MaxArrayLength
  BY <1>2, <1>4, <1>8, ArrayAssumption
<1>12. GoodArray(ArrayOf(f)) /\ Contents(ArrayOf(f)) = f
  BY <1>8, <1>11, ArrayOfProperties
<1> QED
  BY <1>1, <1>10, <1>12 DEF k, m

LEMMA ConcatExact ==
    ASSUME GoodArray(arr), NEW tail \in Seq(Cells), Concat(tail)
    PROVE  /\ GoodArray(res')
           /\ ret' = <<"concat", tail>>
           /\ Contents(res') = Contents(arr) \o tail
<1> DEFINE f == Contents(arr) \o tail
<1>1. /\ arr.length \in Nat /\ Len(tail) \in Nat /\ Contents(arr) \in Seq(Cells)
      /\ Len(Contents(arr)) = arr.length
  BY ArrayParts, ContentsSeq, LenProperties
<1>2. f \in Seq(Cells) /\ Len(f) = arr.length + Len(tail)
  BY <1>1, ConcatProperties
<1> HIDE DEF f
<1>3. Len(f) <= MaxArrayLength
  BY <1>1, <1>2, ArrayAssumption DEF Concat
<1>4. GoodArray(ArrayOf(f)) /\ Contents(ArrayOf(f)) = f
  BY <1>2, <1>3, ArrayOfProperties
<1>5. res' = ArrayOf(f) /\ ret' = <<"concat", tail>>
  BY DEF Concat, f
<1> QED
  BY <1>4, <1>5 DEF f

\* Reading leaves the array, and the copies it makes are exact.
LEMMA ReadingPreserves ==
    ASSUME ArrayInv, iter.op = "none", Reading
    PROVE  ArrayInv' /\ arr' = arr
<1>1. GoodArray(arr) /\ iter = Idle
  BY RunningIsNotIdle DEF ArrayInv
<1>2. ASSUME NEW r, r[1] \notin {"slice", "concat"}, Returning(r), UNCHANGED arr
      PROVE  ArrayInv' /\ arr' = arr
  <2>1. ret'[1] \notin {"slice", "concat"} /\ res' = newArrayObject
    BY <1>2, ReturningResets
  <2>2. iter' = iter
    BY <1>2 DEF Returning
  <2>3. CopiesExact'
    BY <2>1 DEF CopiesExact
  <2> QED
    BY <1>1, <1>2, <2>1, <2>2, <2>3, NewArrayGood DEF ArrayInv
<1>3. ASSUME NEW i \in Indices, GetElement(i) \/ HasElement(i)
      PROVE  ArrayInv' /\ arr' = arr
  BY <1>2, <1>3 DEF GetElement, HasElement, Value, Truth
<1>4. CASE Join
  BY <1>2, <1>4 DEF Join
<1>5. ASSUME NEW v \in Values, NEW from \in FromArgs, IndexOf(v, from) \/ Includes(v, from)
      PROVE  ArrayInv' /\ arr' = arr
  BY <1>2, <1>5 DEF IndexOf, Includes, Number, Truth
<1>6. ASSUME NEW s \in FromArgs, NEW e \in FromArgs, Slice(s, e)
      PROVE  ArrayInv' /\ arr' = arr
  <2>1. s \in Int /\ e \in Int
    BY ArrayAssumption
  <2>2. arr' = arr /\ iter' = iter
    BY <1>6 DEF Slice
  <2>3. /\ GoodArray(res') /\ ret' = <<"slice", s, e>>
        /\ Contents(res') = SubSeq(Contents(arr), Clamp(s) + 1, Clamp(e))
    BY <1>1, <1>6, <2>1, SliceExact
  <2>4. ret'[1] = "slice" /\ ret'[2] = s /\ ret'[3] = e /\ ret'[1] # "concat"
    BY <2>3
  <2>5. CopiesExact'
    BY <2>2, <2>3, <2>4 DEF CopiesExact, Clamp
  <2> QED
    BY <1>1, <2>2, <2>3, <2>5 DEF ArrayInv
<1>7. ASSUME NEW tail \in Seq(Cells), Concat(tail)
      PROVE  ArrayInv' /\ arr' = arr
  <2>1. arr' = arr /\ iter' = iter
    BY <1>7 DEF Concat
  <2>2. /\ GoodArray(res') /\ ret' = <<"concat", tail>>
        /\ Contents(res') = Contents(arr) \o tail
    BY <1>1, <1>7, ConcatExact
  <2>3. ret'[1] = "concat" /\ ret'[2] = tail /\ ret'[1] # "slice"
    BY <2>2
  <2>4. CopiesExact'
    BY <2>1, <2>2, <2>3 DEF CopiesExact
  <2> QED
    BY <1>1, <2>1, <2>2, <2>4 DEF ArrayInv
<1>8. Contents(arr) \in Seq(Cells) /\ \A v \in Values : <<v>> \in Seq(Cells)
  BY <1>1, ContentsSeq DEF Cells
<1> QED
  BY <1>3, <1>4, <1>5, <1>6, <1>7, <1>8 DEF Reading

\* The parts of the running native.
LEMMA TurnParts ==
    ASSUME ArrayInv, iter.op # "none"
    PROVE  /\ GoodTurn(iter.op, iter.i, iter.len, iter.called, iter.value, iter.out)
           /\ iter.op \in Callbacks /\ iter.len \in 0 .. MaxArrayLength /\ iter.i \in 0 .. iter.len
           /\ iter.i \in Nat /\ iter.len \in Nat
           /\ iter.i < iter.len => iter.i \in 0 .. MaxArrayLength - 1 /\ iter.i + 1 \in 0 .. iter.len
           /\ GoodArray(iter.out) /\ Contiguous(iter.out) /\ iter.out.length \in Nat
           /\ iter.op = "map" => iter.out.length = iter.i
           /\ iter.op = "filter" => iter.out.length <= iter.i /\ NoHole(iter.out)
<1>1. GoodTurn(iter.op, iter.i, iter.len, iter.called, iter.value, iter.out)
  BY RunningIsNotIdle DEF ArrayInv, GoodIteration
<1>2. iter.len \in 0 .. MaxArrayLength /\ iter.i \in 0 .. iter.len
  BY <1>1 DEF GoodTurn
<1>3. iter.i < iter.len => iter.i \in 0 .. MaxArrayLength - 1 /\ iter.i + 1 \in 0 .. iter.len
  BY <1>2, ArrayAssumption
<1>4. iter.out.length \in Nat
  BY <1>1, ArrayParts DEF GoodTurn
<1> QED
  BY <1>1, <1>2, <1>3, <1>4 DEF GoodTurn

\* A step of a native's loop that leaves the array and the last result alone.
LEMMA TurnPreserves ==
    ASSUME ArrayInv, NEW i, NEW called, NEW value, NEW out,
           GoodTurn(iter.op, i, iter.len, called, value, out),
           iter' = Turned(i, called, value, out), UNCHANGED <<arr, ret, res>>
    PROVE  ArrayInv'
<1>1. GoodIteration(iter')
  BY IterationOf DEF Turned
<1>2. CopiesExact'
  BY DEF ArrayInv, CopiesExact, Clamp
<1> QED
  BY <1>1, <1>2 DEF ArrayInv

\* What a turn appends to the result leaves a result again, one element longer.
LEMMA TurnAppended ==
    ASSUME NEW a, GoodArray(a), Contiguous(a), NEW i \in 0 .. MaxArrayLength - 1,
           a.length = i, NEW v \in Cells, NEW b, b = Appended(a, i, v)
    PROVE  /\ GoodArray(b) /\ Contiguous(b) /\ b.length = i + 1
           /\ NoHole(a) /\ v # Hole => NoHole(b)
BY AppendedGood

LEMMA SkipHolePreserves ==
    ASSUME ArrayInv, SkipHole
    PROVE  ArrayInv'
<1> DEFINE out == IF iter.op = "map" THEN Appended(iter.out, iter.i, Hole) ELSE iter.out
<1>1. iter.op # "none" /\ iter.i < iter.len
  BY DEF SkipHole, Turning
<1>2. Hole \in Cells
  BY DEF Cells
<1>3. /\ iter.op \in Callbacks /\ iter.len \in 0 .. MaxArrayLength /\ iter.i \in Nat
      /\ iter.i \in 0 .. MaxArrayLength - 1 /\ iter.i + 1 \in 0 .. iter.len
      /\ GoodArray(iter.out) /\ Contiguous(iter.out) /\ iter.out.length \in Nat
      /\ iter.op = "map" => iter.out.length = iter.i
      /\ iter.op = "filter" => iter.out.length <= iter.i /\ NoHole(iter.out)
  BY <1>1, TurnParts, Zenon
<1>4. /\ GoodArray(out) /\ Contiguous(out)
      /\ iter.op = "map" => out.length = iter.i + 1
      /\ iter.op = "filter" => out.length <= iter.i + 1 /\ NoHole(out)
  <2>1. CASE iter.op = "map"
    <3>1. out = Appended(iter.out, iter.i, Hole)
      BY <2>1, Zenon
    <3> HIDE DEF out
    <3>2. GoodArray(out) /\ Contiguous(out) /\ out.length = iter.i + 1
      BY <1>2, <1>3, <2>1, <3>1, TurnAppended
    <3> QED
      BY <2>1, <3>2
  <2>2. CASE iter.op # "map"
    <3>1. out = iter.out
      BY <2>2, Zenon
    <3> HIDE DEF out
    <3>2. iter.out.length <= iter.i => out.length <= iter.i + 1
      BY <1>3, <3>1
    <3> QED
      BY <1>3, <2>2, <3>1, <3>2, Zenon
  <2> QED
    BY <2>1, <2>2, Zenon
<1> HIDE DEF out
<1>5. GoodTurn(iter.op, iter.i + 1, iter.len, FALSE, iter.value, out)
  BY <1>3, <1>4, Zenon DEF GoodTurn
<1>6. iter' = Turned(iter.i + 1, FALSE, iter.value, out) /\ UNCHANGED <<arr, ret, res>>
  BY DEF SkipHole, out
<1> QED
  BY <1>5, <1>6, TurnPreserves

LEMMA CallPreserves ==
    ASSUME ArrayInv, Call
    PROVE  ArrayInv'
<1> DEFINE value == IF iter.op = "filter" THEN ownElementValue(arr, iter.i) ELSE iter.value
<1>1. iter.op # "none" /\ iter.i < iter.len /\ ownElementValue(arr, iter.i) # Hole
  BY DEF Call, Turning
<1>2. ownElementValue(arr, iter.i) \in Values
  <2>1. GoodParts(arr.elements, arr.sparse, arr.kind, arr.length) /\ iter.i \in Nat
    BY <1>1, ArrayParts, TurnParts DEF ArrayInv
  <2> QED
    BY <1>1, <2>1, OwnBelowLength, OwnOfArray DEF Cells
<1>3. iter.op = "filter" => value \in Values
  BY <1>2, Zenon
<1> HIDE DEF value
<1>4. GoodTurn(iter.op, iter.i, iter.len, iter.called, iter.value, iter.out)
  BY <1>1, TurnParts, Zenon
<1>5. GoodTurn(iter.op, iter.i, iter.len, TRUE, value, iter.out)
  BY <1>1, <1>3, <1>4, Zenon DEF GoodTurn
<1>6. iter' = Turned(iter.i, TRUE, value, iter.out) /\ UNCHANGED <<arr, ret, res>>
  BY DEF Call, value
<1> QED
  BY <1>5, <1>6, TurnPreserves

LEMMA CallbackReturnPreserves ==
    ASSUME ArrayInv, NEW v \in CallbackValues, CallbackReturn(v)
    PROVE  ArrayInv'
<1> DEFINE value == IF iter.op = "reduce" THEN v ELSE Hole
           kept == iter.op = "filter" /\ v # Undefined
           out == IF iter.op = "map" THEN Appended(iter.out, iter.i, v)
                  ELSE IF iter.op = "filter" /\ v # Undefined
                  THEN Appended(iter.out, iter.out.length, iter.value)
                  ELSE iter.out
<1>1. iter.op # "none" /\ iter.called
  BY DEF CallbackReturn
<1>2. iter.i < iter.len /\ (iter.op = "filter" => iter.value \in Values)
  BY <1>1, TurnParts, Zenon DEF GoodTurn
<1>3. v \in Cells /\ (iter.op = "filter" => iter.value \in Cells /\ iter.value # Hole)
  BY <1>2, ArrayAssumption DEF Cells
<1>4. /\ iter.op \in Callbacks /\ iter.len \in 0 .. MaxArrayLength /\ iter.i \in Nat
      /\ iter.i \in 0 .. MaxArrayLength - 1 /\ iter.i + 1 \in 0 .. iter.len
      /\ GoodArray(iter.out) /\ Contiguous(iter.out) /\ iter.out.length \in Nat
      /\ iter.op = "map" => iter.out.length = iter.i
      /\ iter.op = "filter" => iter.out.length <= iter.i /\ NoHole(iter.out)
  BY <1>1, <1>2, TurnParts, Zenon
<1>5. /\ GoodArray(out) /\ Contiguous(out)
      /\ iter.op = "map" => out.length = iter.i + 1
      /\ iter.op = "filter" => out.length <= iter.i + 1 /\ NoHole(out)
  <2>1. CASE iter.op = "map"
    <3>1. out = Appended(iter.out, iter.i, v)
      BY <2>1, Zenon
    <3> HIDE DEF out
    <3>2. GoodArray(out) /\ Contiguous(out) /\ out.length = iter.i + 1
      BY <1>3, <1>4, <2>1, <3>1, TurnAppended
    <3> QED
      BY <2>1, <3>2
  <2>2. CASE iter.op # "map" /\ kept
    <3>1. out = Appended(iter.out, iter.out.length, iter.value) /\ iter.op = "filter"
      BY <2>2, Zenon
    <3> HIDE DEF out
    <3>2. iter.out.length \in 0 .. MaxArrayLength - 1 /\ iter.out.length <= iter.i
      BY <1>4, <3>1, ArrayAssumption
    <3>3. /\ GoodArray(out) /\ Contiguous(out) /\ out.length = iter.out.length + 1
          /\ NoHole(out)
      BY <1>3, <1>4, <3>1, <3>2, TurnAppended
    <3>4. out.length <= iter.i + 1
      BY <1>4, <3>2, <3>3
    <3> QED
      BY <2>2, <3>3, <3>4, Zenon
  <2>3. CASE iter.op # "map" /\ ~kept
    <3>1. out = iter.out
      BY <2>3, Zenon
    <3> HIDE DEF out
    <3>2. iter.out.length <= iter.i => out.length <= iter.i + 1
      BY <1>4, <3>1
    <3> QED
      BY <1>4, <2>3, <3>1, <3>2, Zenon
  <2> QED
    BY <2>1, <2>2, <2>3, Zenon
<1> HIDE DEF out, value
<1>6. GoodTurn(iter.op, iter.i + 1, iter.len, FALSE, value, out)
  BY <1>4, <1>5, Zenon DEF GoodTurn
<1>7. iter' = Turned(iter.i + 1, FALSE, value, out) /\ UNCHANGED <<arr, ret, res>>
  BY DEF CallbackReturn, out, value
<1> QED
  BY <1>6, <1>7, TurnPreserves

\* A native starts with an empty result.
LEMMA StartPreserves ==
    ASSUME ArrayInv, NEW op \in Callbacks, NEW i \in 0 .. arr.length, NEW value,
           op = "map" => i = 0,
           iter' = Iteration(op, i, arr.length, FALSE, value, newArrayObject, 0),
           ret' = NoResult, res' = newArrayObject, UNCHANGED arr
    PROVE  ArrayInv'
<1>1. arr.length \in 0 .. MaxArrayLength
  BY ArrayParts DEF ArrayInv
<1>2. GoodTurn(op, i, arr.length, FALSE, value, newArrayObject)
  BY <1>1, NewArrayGood DEF GoodTurn
<1>3. GoodIteration(iter')
  BY <1>2, IterationOf
<1>4. CopiesExact'
  BY DEF CopiesExact, NoResult, Value
<1> QED
  BY <1>3, <1>4, NewArrayGood DEF ArrayInv

LEMMA LeastIndex ==
    ASSUME NEW S \in SUBSET Nat, S # {}
    PROVE  (CHOOSE k \in S : \A j \in S : k <= j) \in S
<1>1. PICK m \in S : \A j \in S : <<j, m>> \notin OpToRel(<, Nat)
  BY NatLessThanWellFounded, WFMin, Zenon
<1>2. \A j \in S : ~(j < m)
  BY <1>1, Zenon DEF OpToRel
<1>3. \A j \in S : m <= j
  BY <1>2
<1> QED
  BY <1>3

LEMMA ReduceFirstPreserves ==
    ASSUME ArrayInv, ReduceFirst
    PROVE  ArrayInv'
<1> DEFINE present == {k \in 0 .. arr.length - 1 : ownElementValue(arr, k) # Hole}
           first == CHOOSE k \in present : \A j \in present : k <= j
<1>1. GoodArray(arr) /\ arr.length \in 0 .. MaxArrayLength /\ arr.length \in Nat
  BY ArrayParts DEF ArrayInv
<1>2. res' = newArrayObject /\ UNCHANGED arr /\ iter.op = "none"
  BY DEF ReduceFirst
<1>3. CASE present = {}
  <2>1. ret' = Error("TypeError") /\ UNCHANGED iter
    BY <1>3 DEF ReduceFirst
  <2>2. CopiesExact'
    BY <2>1 DEF CopiesExact, Error
  <2> QED
    BY <1>2, <2>1, <2>2, NewArrayGood DEF ArrayInv
<1>4. CASE present # {}
  <2>1. present \in SUBSET Nat
    BY <1>1
  <2>4. first \in present
    BY <1>4, <2>1, LeastIndex
  <2>5. /\ ret' = NoResult
        /\ iter' = Iteration("reduce", first + 1, arr.length, FALSE,
                             ownElementValue(arr, first), newArrayObject, 0)
    BY <1>4 DEF ReduceFirst
  <2> HIDE DEF first
  <2>6. first + 1 \in 0 .. arr.length
    BY <1>1, <2>4
  <2>7. "reduce" \in Callbacks
    BY DEF Callbacks
  <2> QED
    BY <1>2, <2>5, <2>6, <2>7, StartPreserves
<1> QED
  BY <1>3, <1>4

LEMMA WritingPreserves ==
    ASSUME ArrayInv, Writing
    PROVE  ArrayInv'
<1>1. GoodArray(arr') /\ GoodArray(res')
  BY WritingGood, WritingResets, NewArrayGood DEF ArrayInv
<1>2. CopiesExact'
  BY WritingResets DEF ArrayInv, CopiesExact
<1>3. iter' = Idle \/ GoodIteration(iter')
  <2>1. CASE iter.op = "none"
    BY <2>1, WritingResets DEF ArrayInv
  <2>2. CASE iter.op # "none"
    <3>1. iter' = [iter EXCEPT !.writes = iter.writes + 1]
      BY <2>2, WritingResets DEF ArrayInv
    <3>2. GoodIteration(iter)
      BY <2>2, RunningIsNotIdle DEF ArrayInv
    <3> QED
      BY <3>1, <3>2, IterationCounted
  <2> QED
    BY <2>1, <2>2
<1> QED
  BY <1>1, <1>2, <1>3 DEF ArrayInv

LEMMA InitInv == Init => ArrayInv
<1> SUFFICES ASSUME Init PROVE ArrayInv
  OBVIOUS
<1>1. CopiesExact
  BY DEF Init, CopiesExact, NoResult, Value
<1> QED
  BY <1>1, NewArrayGood DEF Init, ArrayInv

LEMMA NextInv == ArrayInv /\ [Next]_vars => ArrayInv'
<1> SUFFICES ASSUME ArrayInv, [Next]_vars PROVE ArrayInv'
  OBVIOUS
<1>1. CASE iter.op = "none" /\ (Reading \/ Writing)
  BY <1>1, ReadingPreserves, WritingPreserves
<1>2. CASE Writing
  BY <1>2, WritingPreserves
<1>3. ASSUME NEW op \in Callbacks, Iterate(op)
      PROVE  ArrayInv'
  <2>1. 0 \in 0 .. arr.length
    BY ArrayParts DEF ArrayInv
  <2>2. /\ iter' = Iteration(op, 0, arr.length, FALSE, Hole, newArrayObject, 0)
        /\ ret' = NoResult /\ res' = newArrayObject /\ UNCHANGED arr
    BY <1>3 DEF Iterate
  <2> QED
    BY <2>1, <2>2, StartPreserves
<1>4. CASE ReduceFirst
  BY <1>4, ReduceFirstPreserves
<1>5. CASE SkipHole
  BY <1>5, SkipHolePreserves
<1>6. CASE Call
  BY <1>6, CallPreserves
<1>7. CASE CallbackThrow
  <2>1. CopiesExact'
    BY <1>7 DEF CallbackThrow, CopiesExact, Error
  <2> QED
    BY <1>7, <2>1, NewArrayGood DEF CallbackThrow, ArrayInv
<1>8. CASE IterateDone
  <2>1. GoodArray(iter.out)
    BY <1>8, TurnParts DEF IterateDone
  <2>2. ret'[1] = "value"
    BY <1>8 DEF IterateDone, NoResult, Value
  <2>3. CopiesExact'
    BY <2>2 DEF CopiesExact
  <2> QED
    BY <1>8, <2>1, <2>3 DEF IterateDone, ArrayInv
<1>9. ASSUME NEW v \in CallbackValues, CallbackReturn(v)
      PROVE  ArrayInv'
  BY <1>9, CallbackReturnPreserves
<1>10. CASE UNCHANGED vars
  BY <1>10 DEF vars, ArrayInv, CopiesExact, Clamp
<1> QED
  BY <1>1, <1>2, <1>3, <1>4, <1>5, <1>6, <1>7, <1>8, <1>9, <1>10 DEF Next

-----------------------------------------------------------------------------
(* The invariants that TsArray states.                                     *)

\* The inductive invariant holds in every reachable state.
THEOREM ArrayInvHolds == Spec => []ArrayInv
BY InitInv, NextInv, PTL DEF Spec

LEMMA ArraysGood ==
    ASSUME ArrayInv, NEW a \in Arrays
    PROVE  GoodArray(a)
BY TurnParts DEF Arrays, ArrayInv

\* Whatever the values, the indices and the bounds, an array that a program
\* or a native holds stores only what its elements kind allows, and nothing
\* beyond its length (widenElementsFor, setArrayElement, appendElement,
\* deletePropertyImpl, arraySetLength and the natives).
THEOREM KindsAlwaysSound == Spec => []KindSound
<1>1. ArrayInv => KindSound
  <2> SUFFICES ASSUME ArrayInv PROVE KindSound
    OBVIOUS
  <2>1. TypeOK
    <3>1. iter.op \in Callbacks \cup {"none"}
      BY TurnParts
    <3>2. ASSUME NEW a \in Arrays
          PROVE  /\ a.elements \in Seq(Values \cup {Hole})
                 /\ \A i \in DOMAIN a.sparse : a.sparse[i] \in Values \cup {Hole}
                 /\ a.kind \in Kinds /\ a.length \in 0 .. MaxArrayLength
      BY ArraysGood, ArrayParts DEF Cells
    <3> QED
      BY <3>1, <3>2 DEF TypeOK
  <2>2. NoElementBeyondLength
    <3> SUFFICES ASSUME NEW a \in Arrays, NEW i \in 0 .. MaxArrayLength,
                        ownElementValue(a, i) # Hole
                 PROVE  i < a.length
      BY DEF NoElementBeyondLength
    <3>1. GoodParts(a.elements, a.sparse, a.kind, a.length) /\ i \in Nat
      BY ArraysGood, ArrayParts
    <3> QED
      BY <3>1, OwnBelowLength, OwnOfArray
  <2>3. ASSUME NEW a \in Arrays,
               NEW x \in {a.elements[p] : p \in 1 .. Len(a.elements)}
                             \cup {a.sparse[i] : i \in DOMAIN a.sparse}
        PROVE  Covers(a.kind, x)
    <3>1. GoodParts(a.elements, a.sparse, a.kind, a.length)
      BY ArraysGood, ArrayParts
    <3> QED
      BY <3>1 DEF GoodParts
  <2>4. ASSUME NEW a \in Arrays
        PROVE  LET stored == {a.elements[p] : p \in 1 .. Len(a.elements)}
                                 \cup {a.sparse[i] : i \in DOMAIN a.sparse}
               IN  /\ a.kind % 2 = 0 => Hole \notin stored
                   /\ a.kind < 2 => stored \subseteq Smis \cup {Hole}
                   /\ a.kind < 4 => stored \subseteq Numbers \cup {Hole}
    <3> DEFINE stored == {a.elements[p] : p \in 1 .. Len(a.elements)}
                             \cup {a.sparse[i] : i \in DOMAIN a.sparse}
    <3>1. \A x \in stored : Covers(a.kind, x)
      BY <2>3
    <3>2. a.kind % 2 = 0 => a.kind % 2 # 1
      OBVIOUS
    <3> HIDE DEF stored
    <3>3. /\ a.kind % 2 = 0 => Hole \notin stored
          /\ a.kind < 2 => stored \subseteq Smis \cup {Hole}
          /\ a.kind < 4 => stored \subseteq Numbers \cup {Hole}
      BY <3>1, <3>2 DEF Covers
    <3> QED
      BY <3>3 DEF stored
  <2> QED
    BY <2>1, <2>2, <2>4 DEF KindSound
<1> QED
  BY <1>1, ArrayInvHolds, PTL

\* While callbacks rewrite the array under them, map has appended one entry
\* per index it has passed and filter only present elements (arrayMap,
\* arrayFilter).
THEOREM ResultsAlwaysInStep == Spec => []ResultsGrowInStep
<1>1. ArrayInv => ResultsGrowInStep
  <2> SUFFICES ASSUME ArrayInv PROVE ResultsGrowInStep
    OBVIOUS
  <2>1. iter.op = "map" => iter.out.length = iter.i
    BY TurnParts
  <2>2. ASSUME iter.op = "filter", NEW p \in 1 .. iter.out.length
        PROVE  Contents(iter.out)[p] # Hole
    <3> DEFINE a == iter.out
    <3>1. GoodArray(a) /\ Contiguous(a) /\ NoHole(a)
      BY <2>2, TurnParts
    <3> HIDE DEF a
    <3>2. Contents(a)[p] = ownElementValue(a, p - 1)
      BY <2>2, <3>1, ContentsSeq DEF a
    <3>3. Len(a.elements) \in Nat /\ a.length \in Nat /\ p \in 1 .. a.length /\ MaxDense \in Nat
      BY <3>1, ArrayParts, ArrayAssumption DEF a
    <3>4. CASE p - 1 < Len(a.elements)
      <4>1. p \in 1 .. Len(a.elements) /\ p - 1 + 1 = p
        BY <3>3, <3>4
      <4> QED
        BY <3>1, <3>2, <3>4, <4>1 DEF ownElementValue, NoHole, a
    <3>5. CASE ~(p - 1 < Len(a.elements))
      <4>1. p - 1 \in DOMAIN a.sparse
        BY <3>1, <3>3, <3>5 DEF Contiguous
      <4> QED
        BY <3>1, <3>2, <3>5, <4>1 DEF ownElementValue, NoHole, a
    <3> QED
      BY <3>4, <3>5
  <2>3. iter.op = "filter" => iter.out.length <= iter.i
    BY TurnParts
  <2> QED
    BY <2>1, <2>2, <2>3 DEF ResultsGrowInStep
<1> QED
  BY <1>1, ArrayInvHolds, PTL

\* slice and concat copy exactly what reading index by index gives, whichever
\* storage the elements lie in (arraySlice, arrayConcat).
THEOREM CopiesAlwaysExact == Spec => []CopiesExact
<1>1. ArrayInv => CopiesExact
  BY DEF ArrayInv
<1> QED
  BY <1>1, ArrayInvHolds, PTL

\* Only the writing operations change the array.
LEMMA ArrayChanges ==
    ASSUME ArrayInv, [Next]_vars
    PROVE  arr' = arr \/ Writing
<1>1. CASE iter.op = "none" /\ (Reading \/ Writing)
  BY <1>1, ReadingPreserves
<1>2. CASE ReduceFirst \/ SkipHole \/ Call \/ CallbackThrow \/ IterateDone
  BY <1>2 DEF ReduceFirst, SkipHole, Call, CallbackThrow, IterateDone
<1>3. ASSUME NEW op \in Callbacks, Iterate(op)
      PROVE  arr' = arr
  BY <1>3 DEF Iterate
<1>4. ASSUME NEW v \in CallbackValues, CallbackReturn(v)
      PROVE  arr' = arr
  BY <1>4 DEF CallbackReturn
<1>5. CASE UNCHANGED vars
  BY <1>5 DEF vars
<1> QED
  BY <1>1, <1>2, <1>3, <1>4, <1>5 DEF Next

\* No operation narrows the elements kind of an array or packs it again
\* ("transitions are eager and monotonic").
THEOREM KindsOnlyWiden == Spec => KindMonotone
<1>1. ArrayInv /\ [Next]_vars =>
        [arr'.kind \div 2 >= arr.kind \div 2 /\ arr'.kind % 2 >= arr.kind % 2]_arr
  <2> SUFFICES ASSUME ArrayInv, [Next]_vars, arr' # arr
               PROVE  arr'.kind \div 2 >= arr.kind \div 2 /\ arr'.kind % 2 >= arr.kind % 2
    OBVIOUS
  <2>1. Wider(arr.kind, arr'.kind)
    BY ArrayChanges, WritingGood DEF ArrayInv
  <2> QED
    BY <2>1 DEF Wider
<1> QED
  BY <1>1, ArrayInvHolds, PTL DEF Spec, KindMonotone

-----------------------------------------------------------------------------
(* Refinement: what a write does to the elements that are present.         *)

StoreIn(f, i, v) == [j \in DOMAIN f \cup {i} |-> IF j = i THEN v ELSE f[j]]
CutTo(f, K) == [j \in DOMAIN f \cap K |-> f[j]]

LEMMA ElementsOf ==
    ASSUME NEW a
    PROVE  /\ \A k : k \in DOMAIN Elements(a) <=>
                      k \in 0 .. MaxArrayLength /\ ownElementValue(a, k) # Hole
           /\ \A k \in DOMAIN Elements(a) : Elements(a)[k] = ownElementValue(a, k)
BY DEF Elements

LEMMA ElementsEqual ==
    ASSUME NEW a, NEW D, NEW f, f = [k \in D |-> f[k]],
           \A k : k \in D <=> k \in 0 .. MaxArrayLength /\ ownElementValue(a, k) # Hole,
           \A k \in D : f[k] = ownElementValue(a, k)
    PROVE  Elements(a) = f
<1>1. D = {k \in 0 .. MaxArrayLength : ownElementValue(a, k) # Hole}
  OBVIOUS
<1>2. Elements(a) = [k \in D |-> ownElementValue(a, k)]
  BY <1>1 DEF Elements
<1>3. [k \in D |-> ownElementValue(a, k)] = [k \in D |-> f[k]]
  OBVIOUS
<1> QED
  BY <1>2, <1>3

LEMMA StoredElements ==
    ASSUME NEW a, NEW b, NEW i \in 0 .. MaxArrayLength, NEW v, v # Hole,
           \A l \in Nat : ownElementValue(b, l) = IF l = i THEN v ELSE ownElementValue(a, l)
    PROVE  Elements(b) = StoreIn(Elements(a), i, v)
<1> DEFINE E == Elements(a)
           D == DOMAIN E \cup {i}
           f == [j \in D |-> IF j = i THEN v ELSE E[j]]
<1>1. \A k \in 0 .. MaxArrayLength :
         ownElementValue(b, k) = IF k = i THEN v ELSE ownElementValue(a, k)
  BY ArrayAssumption
<1>2. /\ \A k : k \in D <=> k \in DOMAIN E \/ k = i
      /\ \A k : k \in DOMAIN E <=> k \in 0 .. MaxArrayLength /\ ownElementValue(a, k) # Hole
      /\ \A k \in DOMAIN E : E[k] = ownElementValue(a, k)
  BY ElementsOf
<1>3. f = [k \in D |-> f[k]] /\ \A k \in D : f[k] = IF k = i THEN v ELSE E[k]
  OBVIOUS
<1> HIDE DEF f, D, E
<1>4. ASSUME NEW k
      PROVE  k \in D <=> k \in 0 .. MaxArrayLength /\ ownElementValue(b, k) # Hole
  BY <1>1, <1>2
<1>5. \A k \in D : f[k] = ownElementValue(b, k)
  BY <1>1, <1>2, <1>3
<1>6. Elements(b) = f
  BY <1>3, <1>4, <1>5, ElementsEqual
<1> QED
  BY <1>6 DEF f, D, E, StoreIn

LEMMA CutElements ==
    ASSUME NEW a, NEW b, NEW K,
           \A l \in 0 .. MaxArrayLength :
              ownElementValue(b, l) = IF l \in K THEN ownElementValue(a, l) ELSE Hole
    PROVE  Elements(b) = CutTo(Elements(a), K)
<1> DEFINE E == Elements(a)
           D == DOMAIN E \cap K
           f == [j \in D |-> E[j]]
<1>1. /\ \A k : k \in D <=> k \in DOMAIN E /\ k \in K
      /\ \A k : k \in DOMAIN E <=> k \in 0 .. MaxArrayLength /\ ownElementValue(a, k) # Hole
      /\ \A k \in DOMAIN E : E[k] = ownElementValue(a, k)
  BY ElementsOf
<1>2. f = [k \in D |-> f[k]] /\ \A k \in D : f[k] = E[k]
  OBVIOUS
<1> HIDE DEF f, D, E
<1>3. ASSUME NEW k
      PROVE  k \in D <=> k \in 0 .. MaxArrayLength /\ ownElementValue(b, k) # Hole
  BY <1>1
<1>4. \A k \in D : f[k] = ownElementValue(b, k)
  BY <1>1, <1>2
<1>5. Elements(b) = f
  BY <1>2, <1>3, <1>4, ElementsEqual
<1> QED
  BY <1>5 DEF f, D, E, CutTo

LEMMA ShiftedElements ==
    ASSUME NEW a, GoodArray(a), a.length > 0
    PROVE  Elements(Shifted(a)) = [i \in {k - 1 : k \in DOMAIN Elements(a) \ {0}} |-> Elements(a)[i + 1]]
<1> DEFINE E == Elements(a)
           b == Shifted(a)
           D == {k - 1 : k \in DOMAIN E \ {0}}
           f == [i \in D |-> E[i + 1]]
<1>1. /\ \A l \in Nat : ownElementValue(b, l) = ownElementValue(a, l + 1)
      /\ a.length \in 0 .. MaxArrayLength
      /\ \A l \in Nat : ownElementValue(a, l) # Hole => l < a.length
  BY ShiftProperties, ArrayParts, OwnBelowLength, OwnOfArray
<1>2. /\ \A k : k \in DOMAIN E <=> k \in 0 .. MaxArrayLength /\ ownElementValue(a, k) # Hole
      /\ \A k \in DOMAIN E : E[k] = ownElementValue(a, k)
  BY ElementsOf
<1> HIDE DEF E, b
<1>3. /\ \A k : k \in D => k \in Nat /\ k + 1 \in DOMAIN E
      /\ \A k \in Nat : k + 1 \in DOMAIN E => k \in D
  <2>1. ASSUME NEW k \in D
        PROVE  k \in Nat /\ k + 1 \in DOMAIN E
    BY <1>2
  <2>2. ASSUME NEW k \in Nat, k + 1 \in DOMAIN E
        PROVE  k \in D
    <3>1. k + 1 \in DOMAIN E \ {0} /\ k = (k + 1) - 1
      BY <2>2
    <3> QED
      BY <3>1
  <2> QED
    BY <2>1, <2>2
<1>4. f = [k \in D |-> f[k]] /\ \A k \in D : f[k] = E[k + 1]
  OBVIOUS
<1> HIDE DEF f, D
<1>5. ASSUME NEW k
      PROVE  k \in D <=> k \in 0 .. MaxArrayLength /\ ownElementValue(b, k) # Hole
  <2>1. ASSUME k \in D
        PROVE  k \in 0 .. MaxArrayLength /\ ownElementValue(b, k) # Hole
    <3>1. k \in Nat /\ k + 1 \in 0 .. MaxArrayLength /\ ownElementValue(a, k + 1) # Hole
      BY <1>2, <1>3, <2>1
    <3> QED
      BY <1>1, <3>1, ArrayAssumption
  <2>2. ASSUME k \in 0 .. MaxArrayLength, ownElementValue(b, k) # Hole
        PROVE  k \in D
    <3>1. k \in Nat /\ ownElementValue(a, k + 1) # Hole
      BY <1>1, <2>2
    <3>2. k + 1 \in Nat /\ k + 1 < a.length
      BY <1>1, <3>1
    <3>3. k + 1 \in 0 .. MaxArrayLength
      BY <1>1, <3>2, ArrayAssumption
    <3> QED
      BY <1>2, <1>3, <3>1, <3>3
  <2> QED
    BY <2>1, <2>2
<1>6. \A k \in D : f[k] = ownElementValue(b, k)
  BY <1>1, <1>2, <1>3, <1>4
<1>7. Elements(b) = f
  BY <1>4, <1>5, <1>6, ElementsEqual
<1> QED
  BY <1>7, SMTT(30) DEF f, D, E, b

LEMMA UnshiftedElements ==
    ASSUME NEW a, GoodArray(a), NEW v \in Values,
           a.length + 1 <= LengthCap, Len(a.elements) + 1 <= MaxVector
    PROVE  Elements(Unshifted(a, <<v>>)) =
               [i \in {0} \cup {k + 1 : k \in DOMAIN Elements(a)} |->
                   IF i = 0 THEN v ELSE Elements(a)[i - 1]]
<1> DEFINE E == Elements(a)
           b == Unshifted(a, <<v>>)
           D == {0} \cup {k + 1 : k \in DOMAIN E}
           f == [i \in D |-> IF i = 0 THEN v ELSE E[i - 1]]
<1>1. /\ \A l \in Nat : ownElementValue(b, l) = IF l = 0 THEN v ELSE ownElementValue(a, l - 1)
      /\ a.length \in 0 .. MaxArrayLength
      /\ \A l \in Nat : ownElementValue(a, l) # Hole => l < a.length
      /\ v # Hole
  BY UnshiftProperties, ArrayParts, OwnBelowLength, OwnOfArray, ArrayAssumption
<1>2. /\ \A k : k \in DOMAIN E <=> k \in 0 .. MaxArrayLength /\ ownElementValue(a, k) # Hole
      /\ \A k \in DOMAIN E : E[k] = ownElementValue(a, k)
  BY ElementsOf
<1> HIDE DEF E, b
<1>3. /\ 0 \in D
      /\ \A k : k \in D /\ k # 0 => k \in Nat /\ k - 1 \in DOMAIN E
      /\ \A k \in Nat : k - 1 \in DOMAIN E => k \in D
  <2>1. ASSUME NEW k \in D, k # 0
        PROVE  k \in Nat /\ k - 1 \in DOMAIN E
    <3>1. PICK j \in DOMAIN E : k = j + 1
      BY <2>1
    <3>2. j \in Nat /\ k - 1 = j
      BY <1>2, <3>1
    <3> QED
      BY <3>1, <3>2
  <2>2. ASSUME NEW k \in Nat, k - 1 \in DOMAIN E
        PROVE  k \in D
    <3>1. k = (k - 1) + 1
      OBVIOUS
    <3> QED
      BY <2>2, <3>1
  <2> QED
    BY <2>1, <2>2
<1>4. f = [k \in D |-> f[k]] /\ \A k \in D : f[k] = IF k = 0 THEN v ELSE E[k - 1]
  OBVIOUS
<1> HIDE DEF f, D
<1>5. ASSUME NEW k
      PROVE  k \in D <=> k \in 0 .. MaxArrayLength /\ ownElementValue(b, k) # Hole
  <2>1. ASSUME k \in D
        PROVE  k \in 0 .. MaxArrayLength /\ ownElementValue(b, k) # Hole
    <3>1. CASE k = 0
      BY <1>1, <3>1, ArrayAssumption
    <3>2. CASE k # 0
      <4>1. k \in Nat /\ k - 1 \in Nat /\ ownElementValue(a, k - 1) # Hole
        BY <1>2, <1>3, <2>1, <3>2
      <4>2. k - 1 < a.length
        BY <1>1, <4>1
      <4>3. k \in 0 .. MaxArrayLength
        BY <1>1, <4>1, <4>2, ArrayAssumption
      <4> QED
        BY <1>1, <3>2, <4>1, <4>3
    <3> QED
      BY <3>1, <3>2
  <2>2. ASSUME k \in 0 .. MaxArrayLength, ownElementValue(b, k) # Hole
        PROVE  k \in D
    <3>1. CASE k = 0
      BY <1>3, <3>1
    <3>2. CASE k # 0
      <4>1. k \in Nat /\ k - 1 \in 0 .. MaxArrayLength /\ ownElementValue(a, k - 1) # Hole
        BY <1>1, <2>2, <3>2, ArrayAssumption
      <4> QED
        BY <1>2, <1>3, <4>1
    <3> QED
      BY <3>1, <3>2
  <2> QED
    BY <2>1, <2>2
<1>6. \A k \in D : f[k] = ownElementValue(b, k)
  <2>1. ASSUME NEW k \in D
        PROVE  f[k] = ownElementValue(b, k)
    <3>1. CASE k = 0
      BY <1>1, <1>4, <3>1
    <3>2. CASE k # 0
      BY <1>1, <1>2, <1>3, <1>4, <3>2
    <3> QED
      BY <3>1, <3>2
  <2> QED
    BY <2>1
<1>7. Elements(b) = f
  BY <1>4, <1>5, <1>6, ElementsEqual
<1> QED
  BY <1>7, SMTT(30) DEF f, D, E, b

LEMMA ReturningMaps ==
    ASSUME NEW r, Returning(r)
    PROVE  A!Returns(r)
BY DEF A!Returns, Returning, NoResult, Value

\* A write to an array without displaced elements is a step of the abstract
\* array.
LEMMA WritingMaps ==
    ASSUME ArrayInv, Writing, ~Displaced
    PROVE  A!Next
<1>1. /\ GoodArray(arr) /\ Orderly(arr) /\ arr.length \in 0 .. MaxArrayLength /\ arr.length \in Nat
      /\ MaxArrayLength \in Nat /\ Indices \subseteq 0 .. MaxArrayLength - 1
      /\ \A v \in Values : v # Hole
      /\ \A l \in Nat : ownElementValue(arr, l) # Hole => l < arr.length
  BY ArrayParts, ArrayAssumption, OwnBelowLength, OwnOfArray DEF ArrayInv, Displaced, Orderly
<1>2. CASE WroteDelete
  <2>1. PICK i \in Indices : Wrote(deleteElement(arr, i), Truth(TRUE))
    BY <1>2 DEF WroteDelete
  <2> DEFINE K == DOMAIN Elements(arr) \ {i}
  <2>2. i \in 0 .. MaxArrayLength - 1 /\ i \in 0 .. MaxArrayLength
    BY <1>1
  <2>3. /\ arr' = deleteElement(arr, i) /\ arr'.length = arr.length
        /\ \A l \in Nat : ownElementValue(arr', l) = IF l = i THEN Hole ELSE ownElementValue(arr, l)
    BY <1>1, <2>1, <2>2, DeleteProperties DEF Wrote
  <2>4. \A l \in 0 .. MaxArrayLength :
           ownElementValue(arr', l) = IF l \in K THEN ownElementValue(arr, l) ELSE Hole
    <3>1. \A l : l \in K <=> l \in 0 .. MaxArrayLength /\ ownElementValue(arr, l) # Hole /\ l # i
      BY ElementsOf
    <3> HIDE DEF K
    <3> QED
      BY <1>1, <2>3, <3>1
  <2>5. Elements(arr') = CutTo(Elements(arr), K)
    BY <2>4, CutElements
  <2>6. A!Returns(<<"truth", TRUE>>)
    BY <2>1, ReturningMaps DEF Wrote, Truth
  <2>7. A!Delete(i)
    BY <2>3, <2>5, <2>6 DEF A!Delete, A!Restricted, A!Present, CutTo
  <2> QED
    BY <2>2, <2>7 DEF A!Next
<1>3. ASSUME NEW i \in 0 .. MaxArrayLength - 1, NEW v \in Values, NEW r,
             Wrote(setArrayElement(arr, i, v), r),
             r = NoResult \/ r = Number(arr'.length)
      PROVE  A!Next
  <2>1. i \in 0 .. MaxArrayLength
    BY <1>1
  <2>2. /\ arr' = setArrayElement(arr, i, v)
        /\ arr'.length = IF i < arr.length THEN arr.length ELSE i + 1
        /\ \A l \in Nat : ownElementValue(arr', l) = IF l = i THEN v ELSE ownElementValue(arr, l)
    BY <1>1, <1>3, SetProperties DEF Wrote
  <2>3. Elements(arr') = StoreIn(Elements(arr), i, v)
    <3>1. v # Hole
      BY <1>1
    <3> QED
      BY <2>1, <2>2, <3>1, StoredElements
  <2>4. A!Returns(<<"value", Undefined>>) \/ A!Returns(<<"number", arr'.length>>)
    BY <1>3, ReturningMaps DEF Wrote, NoResult, Value, Number
  <2>5. A!Store(i, v)
    BY <2>2, <2>3, <2>4 DEF A!Store, A!Present, StoreIn
  <2> QED
    BY <2>5 DEF A!Next
<1>4. CASE WroteStore
  BY <1>1, <1>3, <1>4 DEF WroteStore
<1>5. CASE WrotePush
  <2>1. PICK v \in Values : Wrote(setArrayElement(arr, arr.length, v),
                                  Number(setArrayElement(arr, arr.length, v).length))
    BY <1>5 DEF WrotePush
  <2>2. arr.length \in 0 .. MaxArrayLength - 1 /\ arr' = setArrayElement(arr, arr.length, v)
    BY <1>5, <2>1 DEF WrotePush, Wrote
  <2> QED
    BY <1>3, <2>1, <2>2
<1>6. CASE WroteLength
  <2>1. PICK n \in 0 .. MaxArrayLength : Wrote(arraySetLength(arr, n), NoResult)
    BY <1>6 DEF WroteLength
  <2> DEFINE K == 0 .. n - 1
  <2>2. /\ arr' = arraySetLength(arr, n) /\ arr'.length = n
        /\ \A l \in Nat : ownElementValue(arr', l) = IF l < n THEN ownElementValue(arr, l) ELSE Hole
    BY <1>1, <2>1, SetLengthProperties DEF Wrote
  <2>3. \A l \in 0 .. MaxArrayLength :
           ownElementValue(arr', l) = IF l \in K THEN ownElementValue(arr, l) ELSE Hole
    BY <1>1, <2>2
  <2>4. Elements(arr') = CutTo(Elements(arr), K)
    BY <2>3, CutElements
  <2>5. A!Returns(<<"value", Undefined>>)
    BY <2>1, ReturningMaps DEF Wrote, NoResult, Value
  <2>6. A!SetLength(n)
    BY <2>2, <2>4, <2>5 DEF A!SetLength, A!Restricted, A!Present, CutTo
  <2> QED
    BY <2>6 DEF A!Next
<1>8. ASSUME NEW l \in 0 .. MaxArrayLength
      PROVE  A!At(l) = OrUndefined(ownElementValue(arr, l))
  BY ElementsOf DEF A!At, A!Present, OrUndefined
<1>9. CASE WrotePop
  <2> DEFINE i == arr.length - 1
             K == 0 .. arr.length - 2
  <2>1. i \in Nat /\ arr.length = i + 1 /\ i \in 0 .. MaxArrayLength
    BY <1>1, <1>9 DEF WrotePop
  <2>2. arr' = Popped(arr, i) /\ Returning(Value(OrUndefined(ownElementValue(arr, i))))
    BY <1>9 DEF WrotePop, Wrote
  <2> HIDE DEF i
  <2>3. /\ arr'.length = i
        /\ \A l \in Nat : ownElementValue(arr', l) = IF l = i THEN Hole ELSE ownElementValue(arr, l)
    BY <1>1, <2>1, <2>2, PopProperties
  <2>4. \A l \in 0 .. MaxArrayLength :
           ownElementValue(arr', l) = IF l \in K THEN ownElementValue(arr, l) ELSE Hole
    <3>1. ASSUME NEW l \in 0 .. MaxArrayLength
          PROVE  ownElementValue(arr', l) = IF l \in K THEN ownElementValue(arr, l) ELSE Hole
      <4>1. CASE l \in K
        BY <1>1, <2>1, <2>3, <4>1
      <4>2. CASE l \notin K /\ l = i
        BY <1>1, <2>1, <2>3, <4>2
      <4>3. CASE l \notin K /\ l # i
        <5>1. ~(l < arr.length)
          BY <1>1, <2>1, <4>3
        <5> QED
          BY <1>1, <2>3, <4>3, <5>1
      <4> QED
        BY <4>1, <4>2, <4>3
    <3> QED
      BY <3>1
  <2>5. Elements(arr') = CutTo(Elements(arr), K)
    BY <2>4, CutElements
  <2>6. A!Returns(<<"value", A!At(arr.length - 1)>>)
    BY <1>8, <2>1, <2>2, ReturningMaps DEF Value, i
  <2>7. A!Pop
    BY <1>9, <2>3, <2>5, <2>6 DEF A!Pop, A!Restricted, A!Present, CutTo, WrotePop, i
  <2> QED
    BY <2>7 DEF A!Next
<1>10. CASE WroteShift
  <2>1. arr.length > 0 /\ arr' = Shifted(arr) /\ Returning(Value(OrUndefined(ownElementValue(arr, 0))))
    BY <1>10 DEF WroteShift, Wrote
  <2>2. arr'.length = arr.length - 1
    BY <1>1, <2>1, ShiftProperties
  <2>3. Elements(arr') =
           [i \in {k - 1 : k \in DOMAIN Elements(arr) \ {0}} |-> Elements(arr)[i + 1]]
    BY <1>1, <2>1, ShiftedElements
  <2>4. A!Returns(<<"value", A!At(0)>>)
    BY <1>1, <1>8, <2>1, ReturningMaps DEF Value
  <2>5. A!Shift
    BY <2>1, <2>2, <2>3, <2>4 DEF A!Shift, A!Present
  <2> QED
    BY <2>5 DEF A!Next
<1>11. CASE WroteUnshift
  <2>1. PICK v \in Values : Wrote(Unshifted(arr, <<v>>), Number(Unshifted(arr, <<v>>).length))
    BY <1>11 DEF WroteUnshift
  <2>2. /\ arr.length + 1 <= LengthCap /\ Len(arr.elements) + 1 <= MaxVector
        /\ arr' = Unshifted(arr, <<v>>) /\ Returning(Number(arr'.length))
    BY <1>11, <2>1 DEF WroteUnshift, Wrote
  <2>3. arr'.length = arr.length + 1
    BY <1>1, <2>2, UnshiftProperties, SMTT(30)
  <2>4. Elements(arr') = [i \in {0} \cup {k + 1 : k \in DOMAIN Elements(arr)} |->
                             IF i = 0 THEN v ELSE Elements(arr)[i - 1]]
    BY <1>1, <2>2, UnshiftedElements
  <2>5. A!Returns(<<"number", arr'.length>>)
    BY <2>2, ReturningMaps DEF Number
  <2>6. A!Unshift(v)
    BY <2>3, <2>4, <2>5 DEF A!Unshift, A!Present
  <2> QED
    BY <2>6 DEF A!Next
<1>12. CASE WroteNothing
  BY <1>12 DEF WroteNothing, Wrote, A!Next, A!Read
<1> QED
  BY <1>1, <1>2, <1>4, <1>5, <1>6, <1>9, <1>10, <1>11, <1>12, WritingCases

\* Fast lanes, growth, holes and the two storages implement the abstract
\* array: from every state without a displaced element, each operation does
\* to the elements and the length what the array promises and returns what it
\* promises.
THEOREM ArrayImplementsSpec == Spec => StepsRefine
<1>1. Init => A!Init
  <2> SUFFICES ASSUME Init PROVE A!Init
    OBVIOUS
  <2>1. arr = newArrayObject /\ ret = NoResult
    BY DEF Init
  <2>2. \A l \in Nat : ownElementValue(newArrayObject, l) = Hole
    BY NewArrayGood, ArrayParts, OwnBelowLength, OwnOfArray
  <2>3. Elements(newArrayObject) = [i \in {} |-> Undefined]
    <3> DEFINE f == [i \in {} |-> Undefined]
    <3>1. f = [k \in {} |-> f[k]]
      OBVIOUS
    <3>2. \A k : k \in {} <=> k \in 0 .. MaxArrayLength /\ ownElementValue(newArrayObject, k) # Hole
      BY <2>2, ArrayAssumption
    <3> HIDE DEF f
    <3>3. Elements(newArrayObject) = f
      BY <3>1, <3>2, ElementsEqual
    <3> QED
      BY <3>3 DEF f
  <2> QED
    BY <2>1, <2>3, NewArrayGood DEF A!Init, NoResult, Value
<1>2. ArrayInv /\ [Next]_vars => [Displaced \/ A!Next]_(A!vars)
  <2> SUFFICES ASSUME ArrayInv, [Next]_vars PROVE Displaced \/ A!Next
    OBVIOUS
  <2>1. CASE arr' = arr
    BY <2>1 DEF A!Next, A!Read
  <2>2. CASE Writing
    BY <2>2, WritingMaps
  <2> QED
    BY <2>1, <2>2, ArrayChanges
<1> QED
  BY <1>1, <1>2, ArrayInvHolds, PTL DEF Spec, StepsRefine
=============================================================================
