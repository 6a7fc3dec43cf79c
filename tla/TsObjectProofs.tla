--------------------------- MODULE TsObjectProofs ---------------------------
(***************************************************************************)
(* What TsObject states, proved for every set of objects, keys, values and *)
(* attributes: objects stay well formed and prototype chains end whatever  *)
(* getters, setters and traps do, the load and store caches only           *)
(* accelerate, no store overwrites a read-only or hidden entry, and what a *)
(* proxy reports never contradicts its target.                             *)
(***************************************************************************)
EXTENDS TsObject, SequenceTheorems, WellFoundedInduction, TLAPS

\* The entries of a shape and what a slot may hold.
Entries == [key : Keys, attrs : AttrSets]
Slots == Values \cup {Pair(TRUE, FALSE), Pair(FALSE, TRUE)} \cup {Hole}

\* An object whose slots run parallel to its shape and hold what it says.
GoodObject(obj) ==
    /\ obj.shape \in Seq(Entries)
    /\ obj.slots \in Seq(Slots)
    /\ Len(obj.slots) = Len(obj.shape)
    /\ \A p \in 1 .. Len(obj.shape) :
         obj.slots[p] # Hole => obj.slots[p] \in Contents(obj.shape[p].attrs)
    /\ obj.proto \in Objs \cup {Null}

\* A walk up the prototype chain of o reaches null.
Ends(h, o) == \E a \in Chain(h, o) : h[a].proto = Null

HeapOK(h) ==
    /\ DOMAIN h = Objs
    /\ \A o \in Objs : GoodObject(h[o])
    /\ \A o \in Objs : Ends(h, o)

\* A transition leads from a shape to one with one more data property.
Extends(from, to) == \E e \in Entries : ~e.attrs.accessor /\ to = Append(from, e)

\* The cached slot belongs to the cached shape, which never changes: it is a
\* writable data property there, and the newest entry of the site's key.
CachedSlotOK(shape, slot) ==
    /\ shape \in Seq(Entries)
    /\ slot \in 1 .. Len(shape)
    /\ ~shape[slot].attrs.accessor
    /\ shape[slot].attrs.writable
    /\ OneKey => \A k \in SiteKeys : slot = FindInShape(shape, k)

SiteOK(st) ==
    /\ st.op \in Opcodes \cup {"any"}
    /\ st.shape # <<>> => CachedSlotOK(st.shape, st.slot)
    /\ st.trans.valid => st.trans.from \in Seq(Entries) /\ Extends(st.trans.from, st.trans.to)

\* The inductive invariant.
ObjectInv == HeapOK(heap) /\ SiteOK(site) /\ steps \in 0 .. MaxSteps

-----------------------------------------------------------------------------
(* Prototype chains.                                                       *)

Closed(h, S) == \A x \in S : h[x].proto \in S \cup {Null}
Protos(h) == \A x \in Objs : h[x].proto \in Objs \cup {Null}

\* A chain holds its first object, is closed and is the least such set.
LEMMA ChainFacts ==
    ASSUME NEW h, Protos(h), NEW o \in Objs
    PROVE  /\ o \in Chain(h, o)
           /\ Chain(h, o) \subseteq Objs
           /\ Closed(h, Chain(h, o))
           /\ \A S \in SUBSET Objs : o \in S /\ Closed(h, S) => Chain(h, o) \subseteq S
<1>1. Chain(h, o) = {a \in Objs : \A S \in SUBSET Objs : o \in S /\ Closed(h, S) => a \in S}
  BY DEF Chain, Closed
<1>2. ASSUME NEW x \in Chain(h, o) PROVE h[x].proto \in Chain(h, o) \cup {Null}
  <2> DEFINE y == h[x].proto
  <2>1. x \in Objs /\ y \in Objs \cup {Null}
    BY <1>1, <1>2 DEF Protos
  <2>2. ASSUME y # Null, NEW S \in SUBSET Objs, o \in S, Closed(h, S) PROVE y \in S
    BY <1>1, <1>2, <2>2 DEF Closed
  <2> HIDE DEF y
  <2>3. y # Null => y \in Chain(h, o)
    BY <1>1, <2>1, <2>2
  <2> QED
    BY <2>3 DEF y
<1> QED
  BY <1>1, <1>2 DEF Closed

\* A chain from a member of a chain stays on it.
LEMMA ChainTail ==
    ASSUME NEW h, Protos(h), NEW o \in Objs, NEW y \in Chain(h, o)
    PROVE  Chain(h, y) \subseteq Chain(h, o)
<1>1. y \in Objs
  BY ChainFacts
<1> QED
  BY <1>1, ChainFacts

\* The chain of y is y and the chain of its prototype.
LEMMA ChainStep ==
    ASSUME NEW h, Protos(h), NEW y \in Objs
    PROVE  Chain(h, y) \subseteq {y} \cup (IF h[y].proto = Null THEN {} ELSE Chain(h, h[y].proto))
<1> DEFINE S == {y} \cup (IF h[y].proto = Null THEN {} ELSE Chain(h, h[y].proto))
<1>1. h[y].proto # Null => h[y].proto \in Objs
  BY DEF Protos
<1>2. S \in SUBSET Objs /\ y \in S
  BY <1>1, ChainFacts
<1>3. Closed(h, S)
  BY <1>1, ChainFacts DEF Closed
<1> QED
  BY <1>2, <1>3, ChainFacts

\* Chains follow prototypes alone.
LEMMA ChainSame ==
    ASSUME NEW h, NEW g, \A x \in Objs : g[x].proto = h[x].proto, NEW o \in Objs
    PROVE  Chain(g, o) = Chain(h, o)
<1>1. \A S \in SUBSET Objs : Closed(g, S) <=> Closed(h, S)
  BY DEF Closed
<1>2. /\ Chain(g, o) = {a \in Objs : \A S \in SUBSET Objs : o \in S /\ Closed(g, S) => a \in S}
      /\ Chain(h, o) = {a \in Objs : \A S \in SUBSET Objs : o \in S /\ Closed(h, S) => a \in S}
  BY DEF Chain, Closed
<1> QED
  BY <1>1, <1>2

\* A change of o's prototype leaves a chain without o as it is.
LEMMA ChainWithout ==
    ASSUME NEW h, NEW g, Protos(h), Protos(g), NEW o \in Objs, NEW x \in Objs,
           \A y \in Objs \ {o} : g[y].proto = h[y].proto,
           o \notin Chain(h, x)
    PROVE  Chain(h, x) \subseteq Chain(g, x)
<1> DEFINE S == Chain(g, x) \cap Chain(h, x)
<1>1. S \in SUBSET Objs /\ x \in S
  BY ChainFacts
<1>2. Closed(h, S)
  BY <1>1, ChainFacts DEF Closed
<1> QED
  BY <1>1, <1>2, ChainFacts

\* SetPrototype's refusal of cycles is enough: if the new prototype's chain
\* does not meet o, every chain still ends.
LEMMA EndsAfterProto ==
    ASSUME NEW h, NEW g, Protos(h), \A x \in Objs : Ends(h, x),
           NEW o \in Objs, NEW p \in Objs \cup {Null},
           p = Null \/ o \notin Chain(h, p),
           g[o].proto = p, \A y \in Objs \ {o} : g[y].proto = h[y].proto
    PROVE  \A x \in Objs : Ends(g, x)
<1>1. Protos(g)
  BY DEF Protos
<1>2. ASSUME NEW x \in Objs, o \notin Chain(h, x) PROVE Ends(g, x)
  <2>1. PICK a \in Chain(h, x) : h[a].proto = Null
    BY DEF Ends
  <2>2. a \in Chain(g, x)
    BY <1>1, <1>2, ChainWithout
  <2>3. a \in Objs \ {o}
    BY <1>2, ChainFacts
  <2> QED
    BY <2>1, <2>2, <2>3 DEF Ends
<1>3. ASSUME NEW x \in Objs, o \in Chain(h, x) PROVE o \in Chain(g, x)
  <2>1. SUFFICES ASSUME NEW S \in SUBSET Objs, x \in S, Closed(g, S), o \notin S PROVE FALSE
    BY DEF Chain, Closed
  <2>2. Closed(h, S)
    BY <2>1 DEF Closed
  <2> QED
    BY <1>3, <2>1, <2>2, ChainFacts
<1>4. Ends(g, o)
  <2>1. o \in Chain(g, o)
    BY <1>1, ChainFacts
  <2>2. CASE p = Null
    BY <2>1, <2>2 DEF Ends
  <2>3. CASE p # Null
    <3>1. p \in Objs /\ Ends(g, p)
      BY <1>2, <2>3
    <3>2. p \in Chain(g, o)
      BY <1>1, <2>1, <2>3, ChainFacts DEF Closed
    <3> QED
      BY <1>1, <3>1, <3>2, ChainTail DEF Ends
  <2> QED
    BY <2>2, <2>3
<1>5. ASSUME NEW x \in Objs, o \in Chain(h, x) PROVE Ends(g, x)
  BY <1>1, <1>3, <1>4, <1>5, ChainTail DEF Ends
<1> QED
  BY <1>2, <1>5

LEMMA EndsSame ==
    ASSUME NEW h, NEW g, \A x \in Objs : g[x].proto = h[x].proto,
           Protos(h), \A x \in Objs : Ends(h, x)
    PROVE  \A x \in Objs : Ends(g, x)
<1>1. ASSUME NEW x \in Objs PROVE Ends(g, x)
  <2>1. PICK a \in Chain(h, x) : h[a].proto = Null
    BY DEF Ends
  <2>2. a \in Objs /\ a \in Chain(g, x)
    BY ChainSame, ChainFacts
  <2> QED
    BY <2>1, <2>2 DEF Ends
<1> QED
  BY <1>1

\* On chains that end, lookupProperty finds the first object with the key.
LEMMA HolderFacts ==
    ASSUME NEW h, Protos(h), \A x \in Objs : Ends(h, x), NEW o \in Objs, NEW k
    PROVE  \/ Holder(h, o, k) = Null
           \/ Holder(h, o, k) \in Chain(h, o) /\ HasOwn(h[Holder(h, o, k)], k)
<1> DEFINE hits == {a \in Chain(h, o) : HasOwn(h[a], k)}
           S == {y \in Chain(h, o) : hits \subseteq Chain(h, y)}
<1> HIDE DEF hits
<1>1. hits \subseteq Chain(h, o)
  BY DEF hits
<1>2. ASSUME hits # {} PROVE \E a \in hits : hits \subseteq Chain(h, a)
  <2>1. o \in S /\ S \in SUBSET Objs
    BY <1>1, ChainFacts
  <2>2. CASE Closed(h, S)
    <3>1. PICK a \in Chain(h, o) : h[a].proto = Null
      BY DEF Ends
    <3>2. a \in S /\ a \in Objs
      BY <2>1, <2>2, <3>1, ChainFacts
    <3>3. Chain(h, a) \subseteq {a}
      BY <3>1, <3>2, ChainStep
    <3> QED
      BY <1>2, <3>2, <3>3
  <2>3. CASE ~Closed(h, S)
    <3>1. PICK y \in S : h[y].proto \notin S \cup {Null}
      BY <2>3 DEF Closed
    <3>2. y \in Objs /\ h[y].proto # Null /\ h[y].proto \in Chain(h, o)
      BY <3>1, ChainFacts DEF Closed
    <3>3. ~(hits \subseteq Chain(h, h[y].proto))
      BY <3>1, <3>2
    <3>4. Chain(h, y) \subseteq {y} \cup Chain(h, h[y].proto)
      BY <3>2, ChainStep
    <3>5. y \in hits
      BY <3>1, <3>3, <3>4
    <3> QED
      BY <3>1, <3>5
  <2> QED
    BY <2>2, <2>3
<1>3. Holder(h, o, k) = IF hits = {} THEN Null ELSE CHOOSE a \in hits : hits \subseteq Chain(h, a)
  BY DEF Holder, hits
<1>4. CASE hits = {}
  BY <1>3, <1>4
<1>5. CASE hits # {}
  <2>1. (CHOOSE a \in hits : hits \subseteq Chain(h, a)) \in hits
    BY <1>2, <1>5
  <2> QED
    BY <1>3, <1>5, <2>1 DEF hits
<1> QED
  BY <1>4, <1>5

-----------------------------------------------------------------------------
(* Shapes and slots.                                                       *)

\* A non-empty set of positions has a greatest member.
LEMMA GreatestPosition ==
    ASSUME NEW n \in Nat, NEW ps \in SUBSET (1 .. n), ps # {}
    PROVE  \E p \in ps : \A q \in ps : q <= p
<1> DEFINE T == {n - p : p \in ps}
<1>1. T \in SUBSET Nat /\ T # {}
  <2>1. PICK p \in ps : TRUE
    OBVIOUS
  <2>2. n - p \in T
    OBVIOUS
  <2>3. \A q \in ps : n - q \in Nat
    OBVIOUS
  <2> QED
    BY <2>2, <2>3
<1>2. PICK x \in T : \A y \in T : <<y, x>> \notin OpToRel(<, Nat)
  <2> HIDE DEF T
  <2> QED
    BY <1>1, NatLessThanWellFounded, WFMin, Zenon
<1>3. \A y \in T : ~(y < x)
  <2> HIDE DEF T
  <2> QED
    BY <1>1, <1>2, Zenon DEF OpToRel
<1>4. PICK p \in ps : x = n - p
  OBVIOUS
<1>5. ASSUME NEW q \in ps PROVE q <= p
  <2>1. n - q \in T
    OBVIOUS
  <2>2. ~(n - q < n - p)
    BY <1>3, <1>4, <2>1
  <2> QED
    BY <2>2
<1> QED
  BY <1>5

\* Object::findOwnSlot finds an entry of the key, or none.
LEMMA FindFacts ==
    ASSUME NEW shape \in Seq(Entries), NEW k
    PROVE  /\ FindInShape(shape, k) \in 0 .. Len(shape)
           /\ FindInShape(shape, k) # 0 => shape[FindInShape(shape, k)].key = k
<1> DEFINE ps == {p \in 1 .. Len(shape) : shape[p].key = k}
<1>1. FindInShape(shape, k) = IF ps = {} THEN 0 ELSE CHOOSE p \in ps : \A q \in ps : q <= p
  BY DEF FindInShape
<1>2. Len(shape) \in Nat
  OBVIOUS
<1>3. ps # {} => \E p \in ps : \A q \in ps : q <= p
  <2> HIDE DEF ps
  <2>1. ps \in SUBSET (1 .. Len(shape))
    BY DEF ps
  <2> QED
    BY <1>2, <2>1, GreatestPosition
<1>4. ps # {} => FindInShape(shape, k) \in ps
  BY <1>1, <1>3
<1> QED
  BY <1>1, <1>2, <1>4

\* The slot of a key is one of the object's, and holds what its entry says.
LEMMA OwnSlotFacts ==
    ASSUME NEW obj, GoodObject(obj), NEW k, HasOwn(obj, k)
    PROVE  /\ findOwnSlot(obj, k) \in 1 .. Len(obj.shape)
           /\ obj.shape[findOwnSlot(obj, k)].key = k
           /\ obj.shape[findOwnSlot(obj, k)] \in Entries
           /\ obj.slots[findOwnSlot(obj, k)] # Hole
<1>1. obj.shape \in Seq(Entries)
  BY DEF GoodObject
<1>2. findOwnSlot(obj, k) # 0 /\ obj.slots[findOwnSlot(obj, k)] # Hole
  BY DEF HasOwn
<1>3. findOwnSlot(obj, k) \in 1 .. Len(obj.shape) /\ obj.shape[findOwnSlot(obj, k)].key = k
  BY <1>1, <1>2, FindFacts DEF findOwnSlot
<1> QED
  BY <1>1, <1>2, <1>3

LEMMA GoodAdded ==
    ASSUME NEW obj, GoodObject(obj), NEW k \in Keys, NEW attrs \in AttrSets,
           NEW v \in Contents(attrs)
    PROVE  /\ GoodObject(Added(obj, k, attrs, v))
           /\ Added(obj, k, attrs, v).proto = obj.proto
           /\ Added(obj, k, attrs, v).shape = Append(obj.shape, [key |-> k, attrs |-> attrs])
<1> DEFINE e == [key |-> k, attrs |-> attrs]
           s == Append(obj.shape, e)
           t == Append(obj.slots, v)
           new == Added(obj, k, attrs, v)
<1>1. new.shape = s /\ new.slots = t /\ new.proto = obj.proto
  BY DEF Added, Object
<1>2. obj.shape \in Seq(Entries) /\ obj.slots \in Seq(Slots) /\ Len(obj.slots) = Len(obj.shape)
  BY DEF GoodObject
<1>3. e \in Entries /\ v \in Slots
  BY DEF Entries, Slots, Contents
<1>4. /\ s \in Seq(Entries) /\ Len(s) = Len(obj.shape) + 1
      /\ \A p \in 1 .. Len(obj.shape) : s[p] = obj.shape[p]
      /\ s[Len(obj.shape) + 1] = e
  BY <1>2, <1>3
<1>5. /\ t \in Seq(Slots) /\ Len(t) = Len(obj.shape) + 1
      /\ \A p \in 1 .. Len(obj.shape) : t[p] = obj.slots[p]
      /\ t[Len(obj.shape) + 1] = v
  BY <1>2, <1>3
<1>6. e.attrs = attrs
  OBVIOUS
<1> HIDE DEF s, t, e, new
<1>7. ASSUME NEW p \in 1 .. Len(s), t[p] # Hole PROVE t[p] \in Contents(s[p].attrs)
  <2>1. CASE p \in 1 .. Len(obj.shape)
    BY <1>4, <1>5, <1>7, <2>1 DEF GoodObject
  <2>2. CASE p = Len(obj.shape) + 1
    BY <1>4, <1>5, <1>6, <2>2
  <2> QED
    BY <1>2, <1>4, <2>1, <2>2
<1>8. obj.proto \in Objs \cup {Null}
  BY DEF GoodObject
<1>9. GoodObject(new)
  BY <1>1, <1>4, <1>5, <1>7, <1>8 DEF GoodObject
<1> QED
  BY <1>1, <1>9 DEF s, e, new

LEMMA GoodWithSlot ==
    ASSUME NEW obj, GoodObject(obj), NEW p \in 1 .. Len(obj.shape), NEW v,
           v = Hole \/ v \in Contents(obj.shape[p].attrs)
    PROVE  /\ GoodObject(WithSlot(obj, p, v))
           /\ WithSlot(obj, p, v).proto = obj.proto
           /\ WithSlot(obj, p, v).shape = obj.shape
           /\ WithSlot(obj, p, v).slots[p] = v
<1> DEFINE t == [obj.slots EXCEPT ![p] = v]
           new == WithSlot(obj, p, v)
<1>1. new.shape = obj.shape /\ new.slots = t /\ new.proto = obj.proto
  BY DEF WithSlot, Object
<1>2. obj.shape \in Seq(Entries) /\ obj.slots \in Seq(Slots) /\ Len(obj.slots) = Len(obj.shape)
  BY DEF GoodObject
<1>3. v \in Slots
  BY DEF Slots, Contents
<1>4. /\ t \in Seq(Slots) /\ Len(t) = Len(obj.slots) /\ t[p] = v
      /\ \A q \in 1 .. Len(obj.slots) : q # p => t[q] = obj.slots[q]
  BY <1>2, <1>3
<1> HIDE DEF t, new
<1>5. \A q \in 1 .. Len(obj.shape) : t[q] # Hole => t[q] \in Contents(obj.shape[q].attrs)
  BY <1>2, <1>4 DEF GoodObject
<1>6. obj.proto \in Objs \cup {Null}
  BY DEF GoodObject
<1>7. GoodObject(new)
  BY <1>1, <1>2, <1>4, <1>5, <1>6 DEF GoodObject
<1> QED
  BY <1>1, <1>4, <1>7 DEF new

\* Changing the prototype or the extensible flag leaves the properties alone.
LEMMA GoodOthers ==
    ASSUME NEW obj, GoodObject(obj), NEW p \in Objs \cup {Null}
    PROVE  /\ GoodObject(WithProto(obj, p)) /\ WithProto(obj, p).proto = p
           /\ WithProto(obj, p).shape = obj.shape /\ WithProto(obj, p).slots = obj.slots
           /\ GoodObject(NotExtensible(obj)) /\ NotExtensible(obj).proto = obj.proto
           /\ NotExtensible(obj).shape = obj.shape /\ NotExtensible(obj).slots = obj.slots
BY DEF GoodObject, WithProto, NotExtensible, Object

LEMMA HeapProtos ==
    ASSUME NEW h, HeapOK(h)
    PROVE  Protos(h)
BY DEF HeapOK, GoodObject, Protos

\* Replacing an object by a good one with the same prototype.
LEMMA HeapUpdate ==
    ASSUME NEW h, HeapOK(h), NEW o \in Objs, NEW new, GoodObject(new),
           new.proto = h[o].proto, NEW g, g = [h EXCEPT ![o] = new]
    PROVE  HeapOK(g)
<1>1. /\ DOMAIN g = Objs /\ g[o] = new
      /\ \A x \in Objs : x # o => g[x] = h[x]
  BY DEF HeapOK
<1>2. \A x \in Objs : GoodObject(g[x])
  BY <1>1 DEF HeapOK
<1>3. \A x \in Objs : g[x].proto = h[x].proto
  BY <1>1
<1>4. \A x \in Objs : Ends(g, x)
  BY <1>3, HeapProtos, EndsSame DEF HeapOK
<1> QED
  BY <1>1, <1>2, <1>4 DEF HeapOK

\* Giving an object a prototype whose chain it is not on.
LEMMA HeapReproto ==
    ASSUME NEW h, HeapOK(h), NEW o \in Objs, NEW p \in Objs \cup {Null},
           p = Null \/ o \notin Chain(h, p),
           NEW g, g = [h EXCEPT ![o] = WithProto(h[o], p)]
    PROVE  HeapOK(g)
<1>1. /\ DOMAIN g = Objs /\ g[o] = WithProto(h[o], p)
      /\ \A x \in Objs : x # o => g[x] = h[x]
  BY DEF HeapOK
<1>2. GoodObject(h[o])
  BY DEF HeapOK
<1>3. GoodObject(g[o]) /\ g[o].proto = p
  BY <1>1, <1>2, GoodOthers
<1>4. \A x \in Objs : GoodObject(g[x])
  BY <1>1, <1>3 DEF HeapOK
<1>5. \A y \in Objs \ {o} : g[y].proto = h[y].proto
  BY <1>1
<1>6. \A x \in Objs : Ends(g, x)
  BY <1>3, <1>5, HeapProtos, EndsAfterProto DEF HeapOK
<1> QED
  BY <1>1, <1>4, <1>6 DEF HeapOK

-----------------------------------------------------------------------------
(* The parts of the actions.                                               *)

\* What a getter, setter or trap does leaves a good heap, and adds at most
\* one data property.
LEMMA EffectsOK ==
    ASSUME HeapOK(heap), NEW o \in Objs, NEW h \in Effects(o)
    PROVE  /\ HeapOK(h)
           /\ h[o].shape = heap[o].shape \/ Extends(heap[o].shape, h[o].shape)
<1>1. GoodObject(heap[o]) /\ DOMAIN heap = Objs
  BY DEF HeapOK
<1>2. CASE h = heap
  BY <1>2
<1>3. ASSUME NEW k \in Keys, NEW a \in EffectAttrs, NEW v \in Stores,
             h = [heap EXCEPT ![o] = Added(heap[o], k, a, v)]
      PROVE  HeapOK(h) /\ Extends(heap[o].shape, h[o].shape)
  <2>1. a \in AttrSets /\ ~a.accessor /\ v \in Values
    BY ObjectAssumption
  <2>2. v \in Contents(a)
    BY <2>1 DEF Contents
  <2> DEFINE new == Added(heap[o], k, a, v)
             e == [key |-> k, attrs |-> a]
  <2>3. GoodObject(new) /\ new.proto = heap[o].proto /\ new.shape = Append(heap[o].shape, e)
    BY <1>1, <2>1, <2>2, GoodAdded
  <2>4. h[o] = new
    BY <1>1, <1>3
  <2>5. e \in Entries /\ e.attrs = a
    BY <2>1 DEF Entries
  <2> HIDE DEF new, e
  <2>6. HeapOK(h)
    BY <1>3, <2>3, HeapUpdate DEF new
  <2> QED
    BY <2>1, <2>3, <2>4, <2>5, <2>6 DEF Extends
<1>4. CASE h = [heap EXCEPT ![o] = NotExtensible(heap[o])]
  BY <1>1, <1>4, GoodOthers, HeapUpdate
<1>5. CASE h = [heap EXCEPT ![o] = WithProto(heap[o], Null)]
  BY <1>1, <1>5, GoodOthers, HeapReproto
<1> QED
  BY <1>2, <1>3, <1>4, <1>5 DEF Effects

\* A store that setAlongChain sends to a slot finds it on the receiver: a
\* writable data property.
LEMMA SetKindWrite ==
    ASSUME HeapOK(heap), NEW o \in Objs, NEW k, SetKind(heap, o, k) = "write"
    PROVE  /\ HasOwn(heap[o], k)
           /\ ~OwnAttrs(heap[o], k).accessor
           /\ OwnAttrs(heap[o], k).writable
<1> DEFINE w == Holder(heap, o, k)
<1>1. w = Null \/ HasOwn(heap[w], k)
  BY HeapProtos, HolderFacts DEF HeapOK
<1> HIDE DEF w
<1>2. w # Null /\ ~IsAccessor(heap[w], k) /\ w = o /\ OwnAttrs(heap[o], k).writable
  BY DEF SetKind, w
<1> QED
  BY <1>1, <1>2 DEF IsAccessor

LEMMA SetElementKindWrite ==
    ASSUME HeapOK(heap), NEW o \in Objs, NEW k, SetElementKind(heap, o, k) = "write"
    PROVE  HasOwn(heap[o], k) /\ ~OwnAttrs(heap[o], k).accessor
<1> DEFINE w == Holder(heap, o, k)
<1>1. w = Null \/ HasOwn(heap[w], k)
  BY HeapProtos, HolderFacts DEF HeapOK
<1>2. CASE w = o /\ ~IsAccessor(heap[o], k)
  <2>1. o # Null
    BY ObjectAssumption
  <2> HIDE DEF w
  <2> QED
    BY <1>1, <1>2, <2>1 DEF IsAccessor
<1>3. CASE ~(w = o /\ ~IsAccessor(heap[o], k))
  BY <1>3, SetKindWrite DEF SetElementKind
<1> QED
  BY <1>2, <1>3

LEMMA StoredOK ==
    ASSUME HeapOK(heap), NEW o \in Objs, NEW k \in Keys, NEW v \in Stores, NEW kind, NEW lane,
           kind = "write" => HasOwn(heap[o], k) /\ ~OwnAttrs(heap[o], k).accessor,
           Stored(o, k, v, kind, lane)
    PROVE  /\ HeapOK(heap')
           /\ heap'[o].shape = heap[o].shape \/ Extends(heap[o].shape, heap'[o].shape)
<1>1. GoodObject(heap[o]) /\ DOMAIN heap = Objs
  BY DEF HeapOK
<1>2. v \in Values
  BY ObjectAssumption
<1>3. ASSUME kind = "write",
             heap' = [heap EXCEPT ![o] = WithSlot(heap[o], findOwnSlot(heap[o], k), v)]
      PROVE  HeapOK(heap') /\ heap'[o].shape = heap[o].shape
  <2> DEFINE p == findOwnSlot(heap[o], k)
             new == WithSlot(heap[o], p, v)
  <2>1. p \in 1 .. Len(heap[o].shape) /\ ~heap[o].shape[p].attrs.accessor
    BY <1>1, <1>3, OwnSlotFacts DEF OwnAttrs
  <2>2. v \in Contents(heap[o].shape[p].attrs)
    BY <1>2, <2>1 DEF Contents
  <2>3. GoodObject(new) /\ new.proto = heap[o].proto /\ new.shape = heap[o].shape
    BY <1>1, <2>1, <2>2, GoodWithSlot
  <2>4. heap'[o] = new
    BY <1>1, <1>3
  <2> HIDE DEF new
  <2> QED
    BY <1>3, <2>3, <2>4, HeapUpdate DEF new
<1>4. ASSUME heap' = [heap EXCEPT ![o] = Added(heap[o], k, DefaultAttrs, v)]
      PROVE  HeapOK(heap') /\ Extends(heap[o].shape, heap'[o].shape)
  <2>1. DefaultAttrs \in AttrSets /\ ~DefaultAttrs.accessor
    BY DEF DefaultAttrs, AttrSets
  <2>2. v \in Contents(DefaultAttrs)
    BY <1>2, <2>1 DEF Contents
  <2> DEFINE new == Added(heap[o], k, DefaultAttrs, v)
             e == [key |-> k, attrs |-> DefaultAttrs]
  <2>3. GoodObject(new) /\ new.proto = heap[o].proto /\ new.shape = Append(heap[o].shape, e)
    BY <1>1, <2>1, <2>2, GoodAdded
  <2>4. heap'[o] = new
    BY <1>1, <1>4
  <2>5. e \in Entries /\ e.attrs = DefaultAttrs
    BY <2>1 DEF Entries
  <2> HIDE DEF new, e
  <2>6. HeapOK(heap')
    BY <1>4, <2>3, HeapUpdate DEF new
  <2> QED
    BY <2>1, <2>3, <2>4, <2>5, <2>6 DEF Extends
<1>5. CASE heap' \in Effects(o)
  BY <1>5, EffectsOK
<1>6. CASE heap' = heap
  BY <1>6
<1> QED
  BY <1>3, <1>4, <1>5, <1>6 DEF Stored

\* installPropertyIc caches the newest entry of the key in the shape.
LEMMA InstallOK ==
    ASSUME NEW st, SiteOK(st), NEW obj, GoodObject(obj), NEW k \in SiteKeys
    PROVE  SiteOK(installPropertyIc(st, obj, k))
<1> DEFINE p == findOwnSlot(obj, k)
           new == Site(st.op, obj.shape, p, st.trans)
<1>1. CASE ownDataSlot(obj, k) = 0 \/ ~OwnAttrs(obj, k).writable
  BY <1>1 DEF installPropertyIc
<1>2. CASE ~(ownDataSlot(obj, k) = 0 \/ ~OwnAttrs(obj, k).writable)
  <2>1. HasOwn(obj, k) /\ ~OwnAttrs(obj, k).accessor /\ OwnAttrs(obj, k).writable
    BY <1>2 DEF ownDataSlot
  <2>2. obj.shape \in Seq(Entries)
    BY DEF GoodObject
  <2>3. p \in 1 .. Len(obj.shape) /\ ~obj.shape[p].attrs.accessor /\ obj.shape[p].attrs.writable
    BY <2>1, OwnSlotFacts DEF OwnAttrs
  <2>4. OneKey => \A j \in SiteKeys : p = FindInShape(obj.shape, j)
    BY DEF OneKey, findOwnSlot
  <2>5. CachedSlotOK(obj.shape, p)
    BY <2>2, <2>3, <2>4 DEF CachedSlotOK
  <2>6. new.op = st.op /\ new.shape = obj.shape /\ new.slot = p /\ new.trans = st.trans
    BY DEF Site
  <2>7. installPropertyIc(st, obj, k) = new
    BY <1>2 DEF installPropertyIc
  <2> HIDE DEF new, p
  <2> QED
    BY <2>5, <2>6, <2>7 DEF SiteOK
<1> QED
  BY <1>1, <1>2

LEMMA WithTransitionOK ==
    ASSUME NEW st, SiteOK(st), NEW before \in Seq(Entries), NEW obj, NEW k,
           obj.shape = before \/ Extends(before, obj.shape)
    PROVE  SiteOK(WithTransition(st, before, obj, k))
<1> DEFINE t == Transition(before, obj.shape, k, TRUE)
           new == Site(st.op, st.shape, st.slot, t)
<1>1. CASE WithTransition(st, before, obj, k) = st
  BY <1>1
<1>2. CASE WithTransition(st, before, obj, k) # st
  <2>1. WithTransition(st, before, obj, k) = new /\ Len(obj.shape) = Len(before) + 1
    BY <1>2 DEF WithTransition
  <2>2. Extends(before, obj.shape)
    BY <2>1
  <2>3. /\ new.op = st.op /\ new.shape = st.shape /\ new.slot = st.slot
        /\ new.trans.from = before /\ new.trans.to = obj.shape
    BY DEF Site, Transition
  <2> HIDE DEF new
  <2> QED
    BY <2>1, <2>2, <2>3 DEF SiteOK
<1> QED
  BY <1>1, <1>2

LEMMA SiteParts ==
    ASSUME NEW op \in Opcodes, SiteOK(site)
    PROVE  SiteOK(Site(op, site.shape, site.slot, site.trans)) /\ SiteOK(Retired(site))
BY DEF SiteOK, Site, Retired, Transition

LEMMA StepCount ==
    ASSUME steps \in 0 .. MaxSteps, Step
    PROVE  steps' \in 0 .. MaxSteps
BY ObjectAssumption DEF Step

\* The guard of the caches passes only on a receiver whose slot is cached.
LEMMA CacheHitFacts ==
    ASSUME SiteOK(site), NEW obj, GoodObject(obj), CacheHit(obj)
    PROVE  /\ site.slot \in 1 .. Len(obj.shape)
           /\ ~obj.shape[site.slot].attrs.accessor
           /\ obj.shape[site.slot].attrs.writable
           /\ OneKey => \A k \in SiteKeys :
                site.slot = ownDataSlot(obj, k) /\ OwnAttrs(obj, k).writable
<1>1. site.shape = obj.shape /\ CachedSlotOK(obj.shape, site.slot) /\ obj.slots[site.slot] # Hole
  BY DEF CacheHit, SiteOK
<1>2. ASSUME OneKey, NEW k \in SiteKeys
      PROVE  site.slot = ownDataSlot(obj, k) /\ OwnAttrs(obj, k).writable
  <2>1. site.slot = findOwnSlot(obj, k)
    BY <1>1, <1>2 DEF CachedSlotOK, findOwnSlot
  <2>2. HasOwn(obj, k)
    BY <1>1, <2>1 DEF HasOwn, CachedSlotOK
  <2> QED
    BY <1>1, <2>1, <2>2 DEF ownDataSlot, OwnAttrs, CachedSlotOK
<1> QED
  BY <1>1, <1>2 DEF CachedSlotOK

-----------------------------------------------------------------------------
(* Every action preserves the invariant.                                   *)

LEMMA InitInv == Init => ObjectInv
<1> SUFFICES ASSUME Init PROVE ObjectInv
  OBVIOUS
<1>1. DOMAIN heap = Objs /\ \A o \in Objs : heap[o] = Fresh
  BY DEF Init
<1>2. Fresh.shape = <<>> /\ Fresh.slots = <<>> /\ Fresh.proto = Null
  BY DEF Fresh, Object
<1>3. GoodObject(Fresh)
  BY <1>2 DEF GoodObject
<1>4. \A o \in Objs : GoodObject(heap[o])
  BY <1>1, <1>3
<1>5. Protos(heap)
  BY <1>1, <1>2 DEF Protos
<1>6. \A o \in Objs : Ends(heap, o)
  BY <1>1, <1>2, <1>5, ChainFacts DEF Ends
<1>7. SiteOK(site)
  BY DEF Init, SiteOK, Site, NoTransition, Transition
<1>8. steps \in 0 .. MaxSteps
  BY ObjectAssumption DEF Init
<1> QED
  BY <1>1, <1>4, <1>6, <1>7, <1>8 DEF ObjectInv, HeapOK

LEMMA GetPreserves ==
    ASSUME ObjectInv, NEW op \in {"GetProperty", "LoadGlobal"}, NEW o \in Objs,
           GetHit(op, o) \/ \E k \in SiteKeys : GetSlow(op, o, k)
    PROVE  ObjectInv'
<1>1. CASE GetHit(op, o)
  BY <1>1, StepCount DEF GetHit, ObjectInv, HeapOK, SiteOK
<1>2. ASSUME NEW k \in SiteKeys, GetSlow(op, o, k) PROVE ObjectInv'
  <2>1. heap' = heap \/ heap' \in Effects(o)
    BY <1>2 DEF GetSlow
  <2>2. HeapOK(heap')
    BY <2>1, EffectsOK DEF ObjectInv
  <2>3. SiteOK(Site(op, site.shape, site.slot, site.trans))
    BY SiteParts DEF ObjectInv, Opcodes
  <2>4. GoodObject(heap'[o])
    BY <2>2 DEF HeapOK
  <2>5. SiteOK(site')
    BY <1>2, <2>3, <2>4, InstallOK DEF GetSlow
  <2>6. steps' \in 0 .. MaxSteps
    BY <1>2, StepCount DEF GetSlow, ObjectInv
  <2> QED
    BY <2>2, <2>5, <2>6 DEF ObjectInv, HeapOK, SiteOK
<1> QED
  BY <1>1, <1>2

LEMMA SetPreserves ==
    ASSUME ObjectInv, NEW op \in {"SetProperty", "StoreGlobal"}, NEW o \in Objs,
           NEW k \in SiteKeys, NEW v \in Stores,
           SetHit(op, o, k, v) \/ SetSlow(op, o, k, v)
    PROVE  ObjectInv'
<1>1. HeapOK(heap) /\ SiteOK(site) /\ GoodObject(heap[o]) /\ k \in Keys /\ v \in Values
  BY ObjectAssumption DEF ObjectInv, HeapOK
<1>2. CASE SetHit(op, o, k, v)
  <2> DEFINE new == WithSlot(heap[o], site.slot, v)
  <2>1. /\ site.slot \in 1 .. Len(heap[o].shape)
        /\ ~heap[o].shape[site.slot].attrs.accessor
    BY <1>1, <1>2, CacheHitFacts DEF SetHit
  <2>2. v \in Contents(heap[o].shape[site.slot].attrs)
    BY <1>1, <2>1 DEF Contents
  <2>3. GoodObject(new) /\ new.proto = heap[o].proto
    BY <1>1, <2>1, <2>2, GoodWithSlot
  <2>4. heap' = [heap EXCEPT ![o] = new] /\ site' = site
    BY <1>2 DEF SetHit
  <2> HIDE DEF new
  <2>5. HeapOK(heap')
    BY <1>1, <2>3, <2>4, HeapUpdate
  <2>6. steps' \in 0 .. MaxSteps
    BY <1>2, StepCount DEF SetHit, ObjectInv
  <2> QED
    BY <1>1, <2>4, <2>5, <2>6 DEF ObjectInv, HeapOK, SiteOK
<1>3. CASE SetSlow(op, o, k, v)
  <2> DEFINE st == Site(op, site.shape, site.slot, site.trans)
             st2 == installPropertyIc(st, heap'[o], k)
  <2>1. /\ HeapOK(heap')
        /\ heap'[o].shape = heap[o].shape \/ Extends(heap[o].shape, heap'[o].shape)
    <3>1. Stored(o, k, v, SetKind(heap, o, k), "chain")
      BY <1>3 DEF SetSlow
    <3> QED
      BY <1>1, <3>1, StoredOK, SetKindWrite
  <2>2. SiteOK(st)
    BY <1>1, SiteParts DEF Opcodes
  <2>3. GoodObject(heap'[o]) /\ heap[o].shape \in Seq(Entries)
    BY <1>1, <2>1 DEF HeapOK, GoodObject
  <2>4. site' = st \/ site' = WithTransition(st2, heap[o].shape, heap'[o], k)
    BY <1>3 DEF SetSlow
  <2> HIDE DEF st
  <2>5. SiteOK(st2)
    BY <2>2, <2>3, InstallOK
  <2> HIDE DEF st2
  <2>6. SiteOK(site')
    BY <2>1, <2>2, <2>3, <2>4, <2>5, WithTransitionOK
  <2>7. steps' \in 0 .. MaxSteps
    BY <1>3, StepCount DEF SetSlow, ObjectInv
  <2> QED
    BY <2>1, <2>6, <2>7 DEF ObjectInv, HeapOK, SiteOK
<1> QED
  BY <1>2, <1>3

LEMMA TransitionPreserves ==
    ASSUME ObjectInv, NEW o \in Objs, NEW k \in SiteKeys, NEW v \in Stores, SetTransition(o, k, v)
    PROVE  ObjectInv'
<1>1. HeapOK(heap) /\ SiteOK(site) /\ GoodObject(heap[o]) /\ v \in Values
  BY ObjectAssumption DEF ObjectInv, HeapOK
<1>2. site.trans.valid /\ heap[o].shape = site.trans.from
  BY DEF SetTransition, TransitionHit
<1>3. PICK e \in Entries : ~e.attrs.accessor /\ site.trans.to = Append(heap[o].shape, e)
  BY <1>1, <1>2 DEF SiteOK, Extends
<1> DEFINE new == Added(heap[o], e.key, e.attrs, v)
<1>4. e.key \in Keys /\ e.attrs \in AttrSets /\ e = [key |-> e.key, attrs |-> e.attrs]
  BY DEF Entries
<1>5. v \in Contents(e.attrs)
  BY <1>1, <1>3 DEF Contents
<1>6. GoodObject(new) /\ new.proto = heap[o].proto
  BY <1>1, <1>4, <1>5, GoodAdded
<1>7. new = Object(site.trans.to, Append(heap[o].slots, v), heap[o].proto, heap[o].extensible)
  BY <1>3, <1>4 DEF Added
<1>8. heap' = [heap EXCEPT ![o] = new] /\ site' = site
  BY <1>7 DEF SetTransition
<1> HIDE DEF new
<1>9. HeapOK(heap')
  BY <1>1, <1>6, <1>8, HeapUpdate
<1>10. steps' \in 0 .. MaxSteps
  BY StepCount DEF SetTransition, ObjectInv
<1> QED
  BY <1>1, <1>8, <1>9, <1>10 DEF ObjectInv, HeapOK, SiteOK

\* The operations that the site does not see, except for accessors.
LEMMA DefinePreserves ==
    ASSUME ObjectInv, NEW o \in Objs, NEW k \in Keys, NEW a \in Attrs, NEW v \in Contents(a),
           DefineProperty(o, k, a, v)
    PROVE  ObjectInv'
<1>1. HeapOK(heap) /\ SiteOK(site) /\ GoodObject(heap[o]) /\ a \in AttrSets
  BY ObjectAssumption DEF ObjectInv, HeapOK
<1> DEFINE new == Defined(heap[o], k, a, v)
<1>2. GoodObject(new) /\ new.proto = heap[o].proto
  <2>1. CASE HasOwn(heap[o], k) /\ OwnAttrs(heap[o], k) = a /\ (a.accessor \/ a.writable)
    <3> DEFINE p == findOwnSlot(heap[o], k)
    <3>1. p \in 1 .. Len(heap[o].shape) /\ heap[o].shape[p].attrs = a
      BY <1>1, <2>1, OwnSlotFacts DEF OwnAttrs
    <3>2. new = WithSlot(heap[o], p, v)
      BY <2>1 DEF Defined
    <3> QED
      BY <1>1, <3>1, <3>2, GoodWithSlot
  <2>2. CASE ~(HasOwn(heap[o], k) /\ OwnAttrs(heap[o], k) = a /\ (a.accessor \/ a.writable))
    <3>1. new = Added(heap[o], k, a, v)
      BY <2>2 DEF Defined
    <3>2. /\ GoodObject(Added(heap[o], k, a, v))
          /\ Added(heap[o], k, a, v).proto = heap[o].proto
      BY <1>1, GoodAdded
    <3> QED
      BY <3>1, <3>2
  <2> QED
    BY <2>1, <2>2
<1>3. \/ heap' = heap /\ site' = site
      \/ heap' = [heap EXCEPT ![o] = new] /\ (site' = Retired(site) \/ site' = site)
  BY DEF DefineProperty
<1> HIDE DEF new
<1>4. HeapOK(heap')
  BY <1>1, <1>2, <1>3, HeapUpdate
<1>5. SiteOK(site')
  BY <1>1, <1>3, SiteParts DEF Opcodes
<1>6. steps' \in 0 .. MaxSteps
  BY StepCount DEF DefineProperty, ObjectInv
<1> QED
  BY <1>4, <1>5, <1>6 DEF ObjectInv, HeapOK, SiteOK

\* An action that leaves the site and a good heap.
LEMMA HeapOnly ==
    ASSUME ObjectInv, HeapOK(heap'), site' = site, Step
    PROVE  ObjectInv'
<1>1. steps' \in 0 .. MaxSteps
  BY StepCount DEF ObjectInv
<1>2. SiteOK(site')
  BY DEF ObjectInv
<1> QED
  BY <1>1, <1>2 DEF ObjectInv, HeapOK, SiteOK

LEMMA GlobalVarPreserves ==
    ASSUME ObjectInv, NEW k \in Keys, DefineGlobalVar(k, Undefined)
    PROVE  ObjectInv'
<1>1. HeapOK(heap) /\ \A x \in Objs : GoodObject(heap[x])
  BY DEF ObjectInv, HeapOK
<1>2. DefaultAttrs \in AttrSets /\ Undefined \in Contents(DefaultAttrs) /\ Global \in Objs
  BY ObjectAssumption DEF DefaultAttrs, AttrSets, Contents
<1> DEFINE new == Added(heap[Global], k, DefaultAttrs, Undefined)
<1>3. GoodObject(new) /\ new.proto = heap[Global].proto
  BY <1>1, <1>2, GoodAdded
<1>4. heap' = [heap EXCEPT ![Global] = new] /\ site' = site /\ Step
  BY DEF DefineGlobalVar
<1> HIDE DEF new
<1> QED
  BY <1>1, <1>2, <1>3, <1>4, HeapUpdate, HeapOnly

LEMMA SetElementPreserves ==
    ASSUME ObjectInv, NEW o \in Objs, NEW k \in Keys, NEW v \in Stores, SetElement(o, k, v)
    PROVE  ObjectInv'
<1>1. HeapOK(heap) /\ \A x \in Objs : GoodObject(heap[x])
  BY DEF ObjectInv, HeapOK
<1>2. Stored(o, k, v, SetElementKind(heap, o, k), "element") /\ site' = site /\ Step
  BY DEF SetElement
<1> QED
  BY <1>1, <1>2, StoredOK, SetElementKindWrite, HeapOnly

LEMMA DeletePreserves ==
    ASSUME ObjectInv, NEW o \in Objs, NEW k \in Keys, DeleteProperty(o, k)
    PROVE  ObjectInv'
<1>1. HeapOK(heap) /\ \A x \in Objs : GoodObject(heap[x])
  BY DEF ObjectInv, HeapOK
<1> DEFINE new == Deleted(heap[o], k)
<1>2. GoodObject(new) /\ new.proto = heap[o].proto
  <2>1. CASE HasOwn(heap[o], k)
    <3>1. findOwnSlot(heap[o], k) \in 1 .. Len(heap[o].shape)
      BY <1>1, <2>1, OwnSlotFacts
    <3>2. new = WithSlot(heap[o], findOwnSlot(heap[o], k), Hole)
      BY <2>1 DEF Deleted
    <3> QED
      BY <1>1, <3>1, <3>2, GoodWithSlot
  <2>2. CASE ~HasOwn(heap[o], k)
    BY <1>1, <2>2 DEF Deleted
  <2> QED
    BY <2>1, <2>2
<1>3. heap' = [heap EXCEPT ![o] = new] /\ site' = site /\ Step
  BY DEF DeleteProperty
<1> HIDE DEF new
<1> QED
  BY <1>1, <1>2, <1>3, HeapUpdate, HeapOnly

LEMMA PreventPreserves ==
    ASSUME ObjectInv, NEW o \in Objs, PreventExtensions(o)
    PROVE  ObjectInv'
<1>1. HeapOK(heap) /\ \A x \in Objs : GoodObject(heap[x])
  BY DEF ObjectInv, HeapOK
<1>2. heap' = [heap EXCEPT ![o] = NotExtensible(heap[o])] /\ site' = site /\ Step
  BY DEF PreventExtensions
<1> QED
  BY <1>1, <1>2, GoodOthers, HeapUpdate, HeapOnly

LEMMA SetPrototypePreserves ==
    ASSUME ObjectInv, NEW o \in Objs, NEW p \in Objs \cup {Null}, SetPrototype(o, p)
    PROVE  ObjectInv'
<1>1. HeapOK(heap) /\ \A x \in Objs : GoodObject(heap[x])
  BY DEF ObjectInv, HeapOK
<1>2. /\ site' = site /\ Step
      /\ \/ heap' = heap
         \/ heap' = [heap EXCEPT ![o] = WithProto(heap[o], p)] /\ (p = Null \/ o \notin Chain(heap, p))
  BY DEF SetPrototype
<1> QED
  BY <1>1, <1>2, HeapReproto, HeapOnly

LEMMA ProxyPreserves ==
    ASSUME ObjectInv, NEW o \in Targets,
           (\E k \in Keys : ProxyStep(o, k)) \/ ProxyObjectStep(o)
    PROVE  ObjectInv'
<1>1. o \in Objs /\ HeapOK(heap)
  BY ObjectAssumption DEF ObjectInv
<1>2. \E h \in Effects(o) :
        (heap' = h \/ heap' = [h EXCEPT ![o] = NotExtensible(h[o])]) /\ site' = site /\ Step
  <2>1. CASE \E k \in Keys : ProxyStep(o, k)
    BY <2>1 DEF ProxyStep, ProxyGet, ProxySet, ProxyHas, ProxyDelete, Answered
  <2>2. CASE ProxyObjectStep(o)
    BY <2>2 DEF ProxyObjectStep, ProxyOwnKeys, ProxyGetPrototype, ProxyPreventExtensions, Answered
  <2> QED
    BY <2>1, <2>2
<1>3. PICK h \in Effects(o) :
        (heap' = h \/ heap' = [h EXCEPT ![o] = NotExtensible(h[o])]) /\ site' = site /\ Step
  BY <1>2
<1>4. HeapOK(h) /\ GoodObject(h[o])
  BY <1>1, EffectsOK DEF HeapOK
<1>5. HeapOK(heap')
  BY <1>1, <1>3, <1>4, GoodOthers, HeapUpdate
<1> QED
  BY <1>3, <1>5, HeapOnly

LEMMA NextInv == ObjectInv /\ [Next]_vars => ObjectInv'
<1> SUFFICES ASSUME ObjectInv, [Next]_vars PROVE ObjectInv'
  OBVIOUS
<1>1. CASE UNCHANGED vars
  BY <1>1 DEF vars, ObjectInv, HeapOK, SiteOK
<1>2. CASE \E op \in {"GetProperty", "LoadGlobal"}, o \in Objs :
             GetHit(op, o) \/ \E k \in SiteKeys : GetSlow(op, o, k)
  BY <1>2, GetPreserves
<1>3. CASE \E op \in {"SetProperty", "StoreGlobal"}, o \in Objs, k \in SiteKeys, v \in Stores :
             SetHit(op, o, k, v) \/ SetSlow(op, o, k, v)
  BY <1>3, SetPreserves
<1>4. CASE \E o \in Objs, k \in SiteKeys, v \in Stores : SetTransition(o, k, v)
  BY <1>4, TransitionPreserves
<1>5. CASE \E k \in Keys : DefineGlobalVar(k, Undefined)
  BY <1>5, GlobalVarPreserves
<1>6. CASE \E o \in Objs, k \in Keys : \E v \in Stores : SetElement(o, k, v)
  BY <1>6, SetElementPreserves
<1>7. CASE \E o \in Objs, k \in Keys : DeleteProperty(o, k)
  BY <1>7, DeletePreserves
<1>8. CASE \E o \in Objs, k \in Keys : \E a \in Attrs : \E v \in Contents(a) : DefineProperty(o, k, a, v)
  BY <1>8, DefinePreserves
<1>9. CASE \E o \in Targets, k \in Keys : ProxyStep(o, k)
  BY <1>9, ProxyPreserves
<1>10. CASE \E o \in Targets : ProxyObjectStep(o)
  BY <1>10, ProxyPreserves
<1>11. CASE \E o \in Objs : PreventExtensions(o)
  BY <1>11, PreventPreserves
<1>12. CASE \E o \in Objs, p \in Objs \cup {Null} : SetPrototype(o, p)
  BY <1>12, SetPrototypePreserves
<1> QED
  BY <1>1, <1>2, <1>3, <1>4, <1>5, <1>6, <1>7, <1>8, <1>9, <1>10, <1>11, <1>12 DEF Next

-----------------------------------------------------------------------------
(* The properties that TsObject states.                                    *)

\* The inductive invariant holds in every reachable state.
THEOREM ObjectInvHolds == Spec => []ObjectInv
BY InitInv, NextInv, PTL DEF Spec

\* Objects stay well formed and every walk of a prototype chain ends,
\* whatever getters, setters and traps do in between: the refusal of
\* SetPrototype is the only guard against cycles, and it is enough.
THEOREM ChainsAlwaysEnd == Spec => []ChainsEnd
<1>1. ObjectInv => ChainsEnd
  <2> SUFFICES ASSUME ObjectInv PROVE ChainsEnd
    OBVIOUS
  <2>1. ASSUME NEW o \in Objs
        PROVE  /\ Len(heap[o].slots) = Len(heap[o].shape)
               /\ \A p \in 1 .. Len(heap[o].shape) :
                    /\ heap[o].shape[p].key \in Keys
                    /\ heap[o].slots[p] # Hole =>
                         heap[o].slots[p] \in Contents(heap[o].shape[p].attrs)
               /\ heap[o].proto \in Objs \cup {Null}
    <3>1. GoodObject(heap[o])
      BY DEF ObjectInv, HeapOK
    <3>2. ASSUME NEW p \in 1 .. Len(heap[o].shape) PROVE heap[o].shape[p].key \in Keys
      <4>1. heap[o].shape \in Seq(Entries)
        BY <3>1, Zenon DEF GoodObject
      <4>2. heap[o].shape[p] \in Entries
        BY <4>1, <3>2
      <4> QED
        BY <4>2 DEF Entries
    <3>3. /\ Len(heap[o].slots) = Len(heap[o].shape) /\ heap[o].proto \in Objs \cup {Null}
          /\ \A p \in 1 .. Len(heap[o].shape) : heap[o].slots[p] # Hole =>
               heap[o].slots[p] \in Contents(heap[o].shape[p].attrs)
      BY <3>1, Zenon DEF GoodObject
    <3> QED
      BY <3>2, <3>3, Zenon
  <2>2. TypeOK
    BY <2>1 DEF TypeOK, ObjectInv, SiteOK
  <2> QED
    BY <2>2 DEF ChainsEnd, ObjectInv, HeapOK, Ends
<1> QED
  BY <1>1, ObjectInvHolds, PTL

\* If the key register of a site holds one key, the guard of the load and
\* store caches (shape equal, slot not deleted) is enough on any receiver:
\* the cached slot is the writable data property a lookup would find.
THEOREM CachesAlwaysExact ==
    ASSUME OneKey
    PROVE  Spec => []CacheExact
<1>1. ObjectInv => CacheExact
  <2> SUFFICES ASSUME ObjectInv, NEW o \in Objs, CacheHit(heap[o]), NEW k \in SiteKeys
               PROVE  site.slot = ownDataSlot(heap[o], k) /\ OwnAttrs(heap[o], k).writable
    BY DEF CacheExact
  <2>1. SiteOK(site) /\ GoodObject(heap[o])
    BY DEF ObjectInv, HeapOK
  <2> QED
    BY <2>1, CacheHitFacts
<1> QED
  BY <1>1, ObjectInvHolds, PTL

\* What a step reports of a write.
LEMMA WriteStep ==
    ASSUME OneKey, ObjectInv, Next
    PROVE  WritesLandRight'
<1>1. HeapOK(heap) /\ SiteOK(site) /\ DOMAIN heap = Objs /\ \A x \in Objs : GoodObject(heap[x])
  BY DEF ObjectInv, HeapOK
<1>2. ASSUME NEW o \in Objs, NEW k \in Keys, NEW v \in Stores, NEW p,
             HasOwn(heap[o], k), ~OwnAttrs(heap[o], k).accessor, OwnAttrs(heap[o], k).writable,
             p = findOwnSlot(heap[o], k),
             heap' = [heap EXCEPT ![o] = WithSlot(heap[o], p, v)]
      PROVE  p = ownDataSlot(heap'[o], k) /\ OwnAttrs(heap'[o], k).writable
  <2>1. p \in 1 .. Len(heap[o].shape) /\ heap[o].shape[p] \in Entries
    BY <1>1, <1>2, OwnSlotFacts
  <2>2. heap'[o] = WithSlot(heap[o], p, v)
    BY <1>1, <1>2
  <2>3. v \in Values /\ v # Hole
    BY ObjectAssumption
  <2>4. v \in Contents(heap[o].shape[p].attrs)
    BY <1>2, <2>3 DEF Contents, OwnAttrs
  <2>5. heap'[o].shape = heap[o].shape /\ heap'[o].slots[p] = v
    BY <1>1, <2>1, <2>2, <2>4, GoodWithSlot
  <2>6. findOwnSlot(heap'[o], k) = p
    BY <1>2, <2>5 DEF findOwnSlot
  <2>7. OwnAttrs(heap'[o], k) = OwnAttrs(heap[o], k)
    BY <1>2, <2>5, <2>6 DEF OwnAttrs
  <2>8. HasOwn(heap'[o], k)
    BY <2>1, <2>3, <2>5, <2>6 DEF HasOwn
  <2> QED
    BY <1>2, <2>6, <2>7, <2>8 DEF ownDataSlot
<1>3. ASSUME NEW op, NEW o \in Objs, NEW k \in SiteKeys, NEW v \in Stores,
             SetHit(op, o, k, v)
      PROVE  WritesLandRight'
  <2>1. site.slot = ownDataSlot(heap[o], k) /\ OwnAttrs(heap[o], k).writable
        /\ site.slot \in 1 .. Len(heap[o].shape)
    BY <1>1, <1>3, CacheHitFacts DEF SetHit
  <2>2. site.slot = findOwnSlot(heap[o], k) /\ HasOwn(heap[o], k) /\ ~OwnAttrs(heap[o], k).accessor
    BY <2>1 DEF ownDataSlot
  <2>3. /\ heap' = [heap EXCEPT ![o] = WithSlot(heap[o], site.slot, v)]
        /\ result' = <<"wrote", "ic", o, site.slot, k>>
    BY <1>3 DEF SetHit
  <2>4. k \in Keys
    BY ObjectAssumption
  <2>5. site.slot = ownDataSlot(heap'[o], k) /\ OwnAttrs(heap'[o], k).writable
    BY <1>2, <2>1, <2>2, <2>3, <2>4
  <2> QED
    BY <2>3, <2>5 DEF WritesLandRight
<1>4. ASSUME NEW op, NEW o \in Objs, NEW k \in SiteKeys, NEW v \in Stores,
             SetSlow(op, o, k, v)
      PROVE  WritesLandRight'
  <2>1. Stored(o, k, v, SetKind(heap, o, k), "chain")
    BY <1>4 DEF SetSlow
  <2>2. k \in Keys
    BY ObjectAssumption
  <2>3. CASE /\ SetKind(heap, o, k) = "write"
             /\ heap' = [heap EXCEPT ![o] = WithSlot(heap[o], findOwnSlot(heap[o], k), v)]
             /\ result' = <<"wrote", "chain", o, findOwnSlot(heap[o], k), k>>
    <3>1. /\ HasOwn(heap[o], k) /\ ~OwnAttrs(heap[o], k).accessor
          /\ OwnAttrs(heap[o], k).writable
      BY <1>1, <2>3, SetKindWrite
    <3>2. /\ findOwnSlot(heap[o], k) = ownDataSlot(heap'[o], k)
          /\ OwnAttrs(heap'[o], k).writable
      BY <1>2, <2>2, <2>3, <3>1
    <3> QED
      BY <2>3, <3>2 DEF WritesLandRight
  <2>4. CASE result'[1] # "wrote"
    BY <2>4 DEF WritesLandRight
  <2> QED
    BY <2>1, <2>3, <2>4 DEF Stored
<1>5. CASE result'[1] # "wrote" \/ result'[2] = "element"
  BY <1>5 DEF WritesLandRight
<1>6. ASSUME NEW o, NEW k, NEW v, SetElement(o, k, v)
      PROVE  result'[1] # "wrote" \/ result'[2] = "element"
  BY <1>6 DEF SetElement, Stored
<1>7. ASSUME NEW o, NEW k, ProxyStep(o, k) PROVE result'[1] # "wrote"
  <2>1. PICK h \in Effects(o) :
          \/ \E v \in Values : ProxyGet(o, k, v, h)
          \/ \E v \in Values, ok \in BOOLEAN, answer \in ExtensibleAnswers :
               ProxySet(o, k, v, ok, answer, h)
          \/ \E b \in BOOLEAN : ProxyHas(o, k, b, h) \/ ProxyDelete(o, k, b, h)
    BY <1>7 DEF ProxyStep
  <2>2. result' = <<"error">> \/ \E x :
          \/ result' = <<"proxyGet", o, k, x>> \/ result' = <<"proxySet", o, k, x>>
          \/ result' = <<"proxyHas", o, k, x>> \/ result' = <<"proxyDelete", o, k, x>>
    BY <2>1 DEF ProxyGet, ProxySet, ProxyHas, ProxyDelete, Answered
  <2> QED
    BY <2>2
<1>8. ASSUME NEW o, ProxyObjectStep(o) PROVE result'[1] # "wrote"
  <2>1. \/ result' = <<"error">> \/ result' = <<"none">>
        \/ \E x : result' = <<"proxyOwnKeys", o, x>>
        \/ \E x, y : result' = <<"proxyGetPrototype", o, x, y>>
    BY <1>8 DEF ProxyObjectStep, ProxyOwnKeys, ProxyGetPrototype, ProxyPreventExtensions, Answered
  <2> QED
    BY <2>1
<1>9. ASSUME NEW op, NEW o, NEW k, NEW v, NEW a, NEW p,
             \/ GetHit(op, o) \/ GetSlow(op, o, k) \/ SetTransition(o, k, v)
             \/ DefineGlobalVar(k, v) \/ DeleteProperty(o, k) \/ DefineProperty(o, k, a, v)
             \/ PreventExtensions(o) \/ SetPrototype(o, p)
      PROVE  result'[1] # "wrote"
  BY <1>9 DEF GetHit, GetSlow, SetTransition, DefineGlobalVar, DeleteProperty, DefineProperty,
              PreventExtensions, SetPrototype
<1> QED
  BY <1>3, <1>4, <1>5, <1>6, <1>7, <1>8, <1>9 DEF Next

\* A store by SetProperty or StoreGlobal, through the cache or the chain,
\* lands in the newest entry of its key, never in a read-only property, an
\* accessor or an entry that a redefinition hides.
THEOREM WritesAlwaysLandRight ==
    ASSUME OneKey
    PROVE  Spec => []WritesLandRight
<1>1. Init => WritesLandRight
  BY DEF Init, WritesLandRight
<1>2. ObjectInv /\ WritesLandRight /\ [Next]_vars => WritesLandRight'
  <2>1. ASSUME WritesLandRight, UNCHANGED vars PROVE WritesLandRight'
    BY <2>1 DEF WritesLandRight, vars
  <2> QED
    BY <2>1, WriteStep
<1> QED
  BY <1>1, <1>2, ObjectInvHolds, PTL DEF Spec

\* The results ProxyHonest is about.
Reports == {"proxyGet", "proxySet", "proxyHas", "proxyDelete", "proxyOwnKeys"}

LEMMA KeyAnswerHonest ==
    ASSUME HeapOK(heap), NEW o \in Objs, NEW k \in Keys, ProxyStep(o, k)
    PROVE  ProxyHonest'
<1>1. PICK h \in Effects(o) :
        \/ \E v \in Values : ProxyGet(o, k, v, h)
        \/ \E v \in Values, ok \in BOOLEAN, answer \in ExtensibleAnswers :
             ProxySet(o, k, v, ok, answer, h)
        \/ \E b \in BOOLEAN : ProxyHas(o, k, b, h) \/ ProxyDelete(o, k, b, h)
  BY DEF ProxyStep
<1>2. heap' = h
  BY <1>1 DEF ProxyGet, ProxySet, ProxyHas, ProxyDelete, Answered
<1>3. CASE result' = <<"error">>
  BY <1>3 DEF ProxyHonest
<1>4. ASSUME NEW v \in Values, ProxyGet(o, k, v, h) PROVE ProxyHonest'
  <2>1. CASE result' = <<"proxyGet", o, k, v>> /\ ~GetRefused(h[o], k, v)
    <3>1. NonConfigurable(h[o], k) /\ ~OwnAttrs(h[o], k).accessor /\ ~OwnAttrs(h[o], k).writable
            => v = h[o].slots[findOwnSlot(h[o], k)]
      BY <2>1 DEF GetRefused
    <3> QED
      BY <1>2, <2>1, <3>1 DEF ProxyHonest
  <2> QED
    BY <1>3, <1>4, <2>1 DEF ProxyGet, Answered
<1>5. ASSUME NEW v \in Values, NEW ok \in BOOLEAN, NEW answer \in ExtensibleAnswers,
             ProxySet(o, k, v, ok, answer, h)
      PROVE  ProxyHonest'
  <2>1. CASE result' = <<"proxySet", o, k, v>> /\ ~SetRefused(h[o], k, v, ok, answer)
    <3>1. NonConfigurable(h[o], k) /\ ~OwnAttrs(h[o], k).accessor /\ ~OwnAttrs(h[o], k).writable
            => v = h[o].slots[findOwnSlot(h[o], k)]
      BY <2>1 DEF SetRefused
    <3> QED
      BY <1>2, <2>1, <3>1 DEF ProxyHonest
  <2> QED
    BY <1>3, <1>5, <2>1 DEF ProxySet, Answered
<1>6. ASSUME NEW b \in BOOLEAN, ProxyHas(o, k, b, h) PROVE ProxyHonest'
  <2>1. CASE result' = <<"proxyHas", o, k, b>> /\ (NonConfigurable(h[o], k) => b)
    BY <1>2, <2>1 DEF ProxyHonest
  <2> QED
    BY <1>3, <1>6, <2>1 DEF ProxyHas, Answered
<1>7. ASSUME NEW b \in BOOLEAN, ProxyDelete(o, k, b, h) PROVE ProxyHonest'
  <2>1. CASE result' = <<"proxyDelete", o, k, b>> /\ (NonConfigurable(h[o], k) => ~b)
    BY <1>2, <2>1 DEF ProxyHonest
  <2> QED
    BY <1>3, <1>7, <2>1 DEF ProxyDelete, Answered
<1> QED
  BY <1>1, <1>4, <1>5, <1>6, <1>7

LEMMA ObjectAnswerHonest ==
    ASSUME HeapOK(heap), NEW o \in Objs, ProxyObjectStep(o)
    PROVE  ProxyHonest'
<1>1. PICK h \in Effects(o) :
        \/ \E keys \in SUBSET Keys : ProxyOwnKeys(o, keys, h)
        \/ \E p \in Objs \cup {Null}, answer \in ExtensibleAnswers :
             ProxyGetPrototype(o, p, answer, h)
        \/ \E ok \in BOOLEAN : ProxyPreventExtensions(o, ok, h)
  BY DEF ProxyObjectStep
<1>2. GoodObject(h[o])
  BY EffectsOK DEF HeapOK
<1>3. CASE result'[1] \notin Reports
  BY <1>3 DEF ProxyHonest, Reports
<1>4. ASSUME NEW keys \in SUBSET Keys, ProxyOwnKeys(o, keys, h) PROVE ProxyHonest'
  <2>1. \A k \in Keys : NonConfigurable(h[o], k) => k \in ownKeysValues(h[o])
    <3>1. ASSUME NEW k \in Keys, NonConfigurable(h[o], k) PROVE k \in ownKeysValues(h[o])
      <4>1. HasOwn(h[o], k)
        BY <3>1 DEF NonConfigurable
      <4> QED
        BY <1>2, <4>1, OwnSlotFacts DEF ownKeysValues
    <3> QED
      BY <3>1
  <2>2. CASE result' = <<"error">>
    BY <1>3, <2>2 DEF Reports
  <2>3. CASE /\ result' = <<"proxyOwnKeys", o, keys>>
             /\ ~(IF h[o].extensible
                  THEN \E k \in ownKeysValues(h[o]) \ keys : NonConfigurable(h[o], k)
                  ELSE keys # ownKeysValues(h[o]))
    <3>1. {k \in Keys : NonConfigurable(h[o], k)} \subseteq keys
      BY <2>1, <2>3
    <3>2. heap' = h
      BY <1>4 DEF ProxyOwnKeys, Answered
    <3> QED
      BY <2>3, <3>1, <3>2 DEF ProxyHonest
  <2> QED
    BY <1>4, <2>2, <2>3 DEF ProxyOwnKeys, Answered
<1>5. ASSUME NEW p, NEW answer, ProxyGetPrototype(o, p, answer, h) PROVE result'[1] \notin Reports
  BY <1>5 DEF ProxyGetPrototype, Answered, Reports
<1>6. ASSUME NEW ok \in BOOLEAN, ProxyPreventExtensions(o, ok, h) PROVE result'[1] \notin Reports
  BY <1>6 DEF ProxyPreventExtensions, Answered, Reports
<1> QED
  BY <1>1, <1>3, <1>4, <1>5, <1>6

LEMMA HonestStep ==
    ASSUME HeapOK(heap), Next
    PROVE  ProxyHonest'
<1>1. CASE result'[1] \notin Reports
  BY <1>1 DEF ProxyHonest, Reports
<1>2. ASSUME NEW op, NEW o, NEW k, NEW v, NEW a, NEW p,
              \/ GetHit(op, o) \/ GetSlow(op, o, k) \/ SetHit(op, o, k, v) \/ SetTransition(o, k, v)
              \/ DefineGlobalVar(k, v) \/ DeleteProperty(o, k) \/ DefineProperty(o, k, a, v)
              \/ PreventExtensions(o) \/ SetPrototype(o, p)
       PROVE  result'[1] \notin Reports
  BY <1>2 DEF GetHit, GetSlow, SetHit, SetTransition, DefineGlobalVar, DeleteProperty,
              DefineProperty, PreventExtensions, SetPrototype, Reports
<1>3. ASSUME NEW op, NEW o, NEW k, NEW v, SetSlow(op, o, k, v) \/ SetElement(o, k, v)
      PROVE  result'[1] \notin Reports
  BY <1>3 DEF SetSlow, SetElement, Stored, Reports
<1>4. Targets \subseteq Objs
  BY ObjectAssumption
<1> QED
  BY <1>1, <1>2, <1>3, <1>4, KeyAnswerHonest, ObjectAnswerHonest DEF Next

\* What a proxy reports of a property never contradicts a non-configurable
\* property its target has when the trap has returned: proxyGet, proxySet,
\* proxyHas, proxyDelete and proxyOwnKeys check their answer against the
\* target as the trap left it.
THEOREM ProxiesAlwaysHonest == Spec => []ProxyHonest
<1>1. Init => ProxyHonest
  BY DEF Init, ProxyHonest
<1>2. ObjectInv /\ ProxyHonest /\ [Next]_vars => ProxyHonest'
  <2>1. ASSUME ProxyHonest, UNCHANGED vars PROVE ProxyHonest'
    BY <2>1 DEF ProxyHonest, vars
  <2> QED
    BY <2>1, HonestStep DEF ObjectInv
<1> QED
  BY <1>1, <1>2, ObjectInvHolds, PTL DEF Spec
=============================================================================
