------------------------------ MODULE TsObject ------------------------------
(***************************************************************************)
(* Ordinary objects of TurboScript, the inline caches of the property      *)
(* opcodes, and proxies (ts_object.cpp, ts_interpreter.cpp, ts_dispatch.cpp*)
(* and ts_proxy.cpp).                                                      *)
(*                                                                         *)
(* A shape is a node of the transition tree, which is memoised on (shape,  *)
(* key, attributes): it is the sequence of entries from the root to it.    *)
(* An object's slot vector runs parallel to its shape; a deleted property  *)
(* leaves Hole in its slot, and redefining a key adds a newer entry that   *)
(* hides the older one.                                                    *)
(*                                                                         *)
(* A property opcode carries a feedback slot (a site) with two caches: the *)
(* shape and slot index of an own data property, and, for stores, the      *)
(* transition a fresh property took.  accessorEpoch_ is only ever compared *)
(* with the epoch a transition was installed under, so a transition is     *)
(* valid until an accessor is defined anywhere.                            *)
(*                                                                         *)
(* A site is one opcode, fixed by its first execution.  A second site      *)
(* would reach this one only through the heap.                             *)
(***************************************************************************)
EXTENDS Integers, Sequences

CONSTANTS Objs, Null,      \* ordinary objects, and the null prototype
          Global,          \* the global object, one of Objs
          Keys,            \* property keys
          Values, Undefined, \* data values, Undefined among them
          Hole,            \* the mark of a deleted property
          Stores,          \* bound: the data values opcodes store
          EffectAttrs,     \* bound: the attributes user code run by them defines
          Targets,         \* bound: the objects that have a proxy
          Attrs,           \* attribute sets a program defines properties with
          SiteKeys,        \* the keys the site's key register may hold
          MaxSlots,        \* bound: properties ever added to one object
          MaxSteps         \* bound: operations in a run

VARIABLES heap,     \* object -> [shape, slots, proto, extensible]
          site,     \* the opcode and its two inline caches
          result,   \* what the last operation did
          steps

vars == <<heap, site, result, steps>>

AttrSets == [writable : BOOLEAN, configurable : BOOLEAN, accessor : BOOLEAN]

ASSUME ObjectAssumption ==
    /\ Null \notin Objs /\ Global \in Objs /\ Targets \subseteq Objs
    /\ Undefined \in Values /\ Hole \notin Values /\ Stores \subseteq Values
    /\ SiteKeys \subseteq Keys
    /\ Attrs \subseteq AttrSets
    /\ EffectAttrs \subseteq AttrSets /\ \A a \in EffectAttrs : ~a.accessor
    /\ MaxSlots \in Nat /\ MaxSteps \in Nat

-----------------------------------------------------------------------------
\* kDefaultDataAttrs; Enumerable is never consulted.
DefaultAttrs == [writable |-> TRUE, configurable |-> TRUE, accessor |-> FALSE]

\* An AccessorPair: which of its two functions is defined.
Pair(g, s) == [getter |-> g, setter |-> s]

Object(shape, slots, proto, extensible) ==
    [shape |-> shape, slots |-> slots, proto |-> proto, extensible |-> extensible]

Fresh == Object(<<>>, <<>>, Null, TRUE)

\* Object::findOwnSlot: the newest entry of the key (0 if there is none).
FindInShape(shape, k) ==
    LET ps == {p \in 1 .. Len(shape) : shape[p].key = k}
    IN  IF ps = {} THEN 0 ELSE CHOOSE p \in ps : \A q \in ps : q <= p

findOwnSlot(obj, k) == FindInShape(obj.shape, k)

\* classifyOwn / lookupOwnProperty: a hole is invisible.
HasOwn(obj, k) ==
    LET p == findOwnSlot(obj, k) IN p # 0 /\ obj.slots[p] # Hole

OwnAttrs(obj, k) == obj.shape[findOwnSlot(obj, k)].attrs

IsAccessor(obj, k) == HasOwn(obj, k) /\ OwnAttrs(obj, k).accessor

\* ownDataSlotAttrs: the slot of an own, present data property, else 0.
ownDataSlot(obj, k) ==
    IF HasOwn(obj, k) /\ ~OwnAttrs(obj, k).accessor THEN findOwnSlot(obj, k) ELSE 0

\* The objects a walk with protoOfObject visits from o: the least set that
\* holds o and the prototype of each of its members.
Chain(h, o) ==
    {a \in Objs : \A S \in SUBSET Objs :
        o \in S /\ (\A x \in S : h[x].proto \in S \cup {Null}) => a \in S}

\* lookupProperty: the first object of the chain that has the key; the others
\* that have it lie on its chain.
Holder(h, o, k) ==
    LET hits == {a \in Chain(h, o) : HasOwn(h[a], k)}
    IN  IF hits = {} THEN Null ELSE CHOOSE a \in hits : hits \subseteq Chain(h, a)

\* ShapeTree::transition and the push of the new slot.
Added(obj, k, attrs, v) ==
    Object(Append(obj.shape, [key |-> k, attrs |-> attrs]), Append(obj.slots, v),
           obj.proto, obj.extensible)

\* A store to the slot at p.
WithSlot(obj, p, v) ==
    Object(obj.shape, [obj.slots EXCEPT ![p] = v], obj.proto, obj.extensible)

WithProto(obj, p) == Object(obj.shape, obj.slots, p, obj.extensible)
NotExtensible(obj) == Object(obj.shape, obj.slots, obj.proto, FALSE)

-----------------------------------------------------------------------------
\* getAlongChain on ordinary objects: what a read of k from o yields.
Get(h, o, k) ==
    LET w == Holder(h, o, k)
    IN  IF w = Null THEN "undefined"
        ELSE IF ~IsAccessor(h[w], k) THEN "data"
        ELSE IF h[w].slots[findOwnSlot(h[w], k)].getter THEN "getter" ELSE "undefined"

\* A walk that does not ask whether the own property is writable.
SetKindUnguarded(h, o, k) ==
    LET w == Holder(h, o, k)
    IN  IF w = o /\ ~IsAccessor(h[w], k) THEN "write"
        ELSE IF w # Null /\ IsAccessor(h[w], k)
             THEN IF h[w].slots[findOwnSlot(h[w], k)].setter THEN "setter" ELSE "error"
        ELSE "define"

\* setAlongChain: which way a store of k to o goes.
SetKind(h, o, k) ==
    LET w == Holder(h, o, k)
    IN  IF w = Null THEN "define"
        ELSE IF IsAccessor(h[w], k)
             THEN IF h[w].slots[findOwnSlot(h[w], k)].setter THEN "setter" ELSE "error"
        ELSE IF w # o THEN "define"
        ELSE IF OwnAttrs(h[o], k).writable THEN "write" ELSE "error"

\* The walk of setElementValue, which does not ask for Writable.
SetElementKind(h, o, k) ==
    IF Holder(h, o, k) = o /\ ~IsAccessor(h[o], k) THEN "write" ELSE SetKind(h, o, k)

Room(o) == Len(heap[o].slots) < MaxSlots

\* What the code behind a getter, setter or trap may do to the object before
\* it returns: nothing, or one operation of its own.
Effects(o) ==
    {heap}
    \cup {[heap EXCEPT ![o] = Added(@, k, a, v)] :
              k \in {j \in Keys : Room(o) /\ ~HasOwn(heap[o], j)},
              a \in EffectAttrs, v \in Stores}
    \cup {[heap EXCEPT ![o] = NotExtensible(@)], [heap EXCEPT ![o] = WithProto(@, Null)]}

-----------------------------------------------------------------------------
Opcodes == {"GetProperty", "SetProperty", "LoadGlobal", "StoreGlobal"}

Site(op, shape, slot, trans) == [op |-> op, shape |-> shape, slot |-> slot, trans |-> trans]

Transition(from, to, key, valid) == [from |-> from, to |-> to, key |-> key, valid |-> valid]

NoTransition == Transition(<<>>, <<>>, CHOOSE k \in Keys : TRUE, FALSE)

Init ==
    /\ heap = [o \in Objs |-> Fresh]
    /\ site = Site("any", <<>>, 0, NoTransition)
    /\ result = <<"none">>
    /\ steps = 0

Step == steps < MaxSteps /\ steps' = steps + 1

\* The site is the opcode op, executed on o: LoadGlobal and StoreGlobal have
\* the global object as receiver.
Executes(op, o) ==
    /\ site.op \in {"any", op}
    /\ op \in {"LoadGlobal", "StoreGlobal"} => o = Global

\* An installation that caches read-only properties too.
InstallAnyData(st, obj, k) ==
    IF ownDataSlot(obj, k) = 0 THEN st
    ELSE Site(st.op, obj.shape, findOwnSlot(obj, k), st.trans)

\* installPropertyIc: own, present, writable data properties only.
installPropertyIc(st, obj, k) ==
    IF ownDataSlot(obj, k) = 0 \/ ~OwnAttrs(obj, k).writable THEN st
    ELSE Site(st.op, obj.shape, findOwnSlot(obj, k), st.trans)

\* The guard of the load and store caches: the shape matches (a fresh object
\* has none) and the slot is not deleted.
CacheHit(obj) ==
    /\ obj.shape # <<>>
    /\ site.shape = obj.shape
    /\ obj.slots[site.slot] # Hole

\* GetProperty and LoadGlobal: the cache, else the chain, then install.
GetHit(op, o) ==
    /\ Step
    /\ Executes(op, o)
    /\ CacheHit(heap[o])
    /\ result' = <<"read", o, site.slot>>
    /\ UNCHANGED <<heap, site>>

GetSlow(op, o, k) ==
    /\ Step
    /\ Executes(op, o)
    /\ ~CacheHit(heap[o])
    /\ heap' \in IF Get(heap, o, k) = "getter" THEN Effects(o) ELSE {heap}
    /\ result' = <<"got", Get(heap, o, k)>>
    /\ site' = installPropertyIc(Site(op, site.shape, site.slot, site.trans), heap'[o], k)

\* The guard of the transition cache, which only SetProperty has.
TransitionHit(obj, k) ==
    /\ site.op = "SetProperty"
    /\ site.trans.valid
    /\ obj.shape = site.trans.from
    /\ site.trans.key = k
    /\ obj.extensible

\* The transition installed after a slow store took an object from the shape
\* before to obj.shape.  The root shape is not the shape of a fresh object
\* (null), so an object's first property installs no transition.
WithTransition(st, before, obj, k) ==
    IF /\ st.op = "SetProperty" /\ before # <<>>
       /\ Len(obj.shape) = Len(before) + 1 /\ SubSeq(obj.shape, 1, Len(before)) = before
    THEN Site(st.op, st.shape, st.slot, Transition(before, obj.shape, k, TRUE))
    ELSE st

\* A store of v by its kind: what it did, and the heap after it.
Stored(o, k, v, kind, lane) ==
    \/ /\ kind = "write"
       /\ heap' = [heap EXCEPT ![o] = WithSlot(@, findOwnSlot(@, k), v)]
       /\ result' = <<"wrote", lane, o, findOwnSlot(heap[o], k), k>>
    \/ /\ kind = "define" /\ Room(o)
       /\ heap' = [heap EXCEPT ![o] = Added(@, k, DefaultAttrs, v)]
       /\ result' = <<"pushed", lane, kind>>
    \/ /\ kind = "setter"
       /\ heap' \in Effects(o)
       /\ result' = <<"called">>
    \/ /\ kind = "error"
       /\ result' = <<"error">>
       /\ UNCHANGED heap

\* SetProperty and StoreGlobal, through the store cache.
SetHit(op, o, k, v) ==
    /\ Step
    /\ Executes(op, o)
    /\ CacheHit(heap[o])
    /\ heap' = [heap EXCEPT ![o] = WithSlot(@, site.slot, v)]
    /\ result' = <<"wrote", "ic", o, site.slot, k>>
    /\ UNCHANGED site

\* SetProperty through the transition cache; the last component of result is
\* what setProperty would have done instead.
SetTransition(o, k, v) ==
    /\ Step
    /\ ~CacheHit(heap[o])
    /\ TransitionHit(heap[o], k)
    /\ Room(o)
    /\ heap' = [heap EXCEPT ![o] = Object(site.trans.to, Append(@.slots, v), @.proto, @.extensible)]
    /\ result' = <<"pushed", "transition", SetKind(heap, o, k)>>
    /\ UNCHANGED site

\* Past the caches: setProperty and, unless it raised, installation.
SetSlow(op, o, k, v) ==
    /\ Step
    /\ Executes(op, o)
    /\ ~CacheHit(heap[o])
    /\ ~TransitionHit(heap[o], k)
    /\ Stored(o, k, v, SetKind(heap, o, k), "chain")
    /\ LET st == Site(op, site.shape, site.slot, site.trans)
       IN  site' = IF result' = <<"error">> THEN st
                   ELSE WithTransition(installPropertyIc(st, heap'[o], k),
                                       heap[o].shape, heap'[o], k)

\* DefineGlobalVar: a var statement declares, and never overwrites.
DefineGlobalVar(k, undefined) ==
    /\ Step
    /\ Holder(heap, Global, k) = Null
    /\ Room(Global)
    /\ heap' = [heap EXCEPT ![Global] = Added(@, k, DefaultAttrs, undefined)]
    /\ result' = <<"none">>
    /\ UNCHANGED site

\* SetElement with a Smi key whose decimal text is k, on an ordinary object;
\* also [[Set]] of a proxy without a trap.
SetElement(o, k, v) ==
    /\ Step
    /\ Stored(o, k, v, SetElementKind(heap, o, k), "element")
    /\ UNCHANGED site

-----------------------------------------------------------------------------
\* deletePropertyImpl: hole-ify the slot; Configurable is not consulted.
Deleted(obj, k) ==
    IF HasOwn(obj, k) THEN WithSlot(obj, findOwnSlot(obj, k), Hole) ELSE obj

DeleteProperty(o, k) ==
    /\ Step
    /\ heap' = [heap EXCEPT ![o] = Deleted(@, k)]
    /\ result' = <<"deleted", o, k>>
    /\ UNCHANGED site

\* SetPrototype without the walk up the new prototype's chain.
SetPrototypeUnwalked(o, p) ==
    /\ Step
    /\ IF o = p THEN result' = <<"refused">> /\ UNCHANGED heap
       ELSE result' = <<"none">> /\ heap' = [heap EXCEPT ![o] = WithProto(@, p)]
    /\ UNCHANGED site

\* SetPrototype, and [[SetPrototypeOf]] of a proxy of o without a trap:
\* refuse what would close a cycle.  No inline cache is told.
SetPrototype(o, p) ==
    /\ Step
    /\ IF p # Null /\ o \in Chain(heap, p)
       THEN result' = <<"refused">> /\ UNCHANGED heap
       ELSE result' = <<"none">> /\ heap' = [heap EXCEPT ![o] = WithProto(@, p)]
    /\ UNCHANGED site

PreventExtensions(o) ==
    /\ Step
    /\ heap' = [heap EXCEPT ![o] = NotExtensible(@)]
    /\ result' = <<"none">>
    /\ UNCHANGED site

\* definePropertyDescriptor raises.
DefineRefused(obj, k, attrs, v) ==
    \/ ~obj.extensible /\ ~HasOwn(obj, k)
    \/ /\ ownDataSlot(obj, k) # 0 /\ OwnAttrs(obj, k) = attrs /\ ~attrs.writable
       /\ obj.slots[findOwnSlot(obj, k)] # v

\* Otherwise: in place if the attributes are the same (and a data property
\* writable), else a newer entry.  Configurable is not consulted.
Defined(obj, k, attrs, v) ==
    IF HasOwn(obj, k) /\ OwnAttrs(obj, k) = attrs /\ (attrs.accessor \/ attrs.writable)
    THEN WithSlot(obj, findOwnSlot(obj, k), v)
    ELSE Added(obj, k, attrs, v)

Retired(st) ==
    Site(st.op, st.shape, st.slot,
         Transition(st.trans.from, st.trans.to, st.trans.key, FALSE))

\* An accessor definition bumps accessorEpoch_, which retires transitions.
DefineProperty(o, k, attrs, v) ==
    /\ Step
    /\ IF DefineRefused(heap[o], k, attrs, v)
       THEN result' = <<"error">> /\ UNCHANGED <<heap, site>>
       ELSE /\ heap' = [heap EXCEPT ![o] = Defined(@, k, attrs, v)]
            /\ Len(heap'[o].slots) <= MaxSlots
            /\ result' = <<"none">>
            /\ site' = IF attrs.accessor THEN Retired(site) ELSE site

-----------------------------------------------------------------------------
(* Proxies.  A proxy of target o with a handler is what its traps say; the  *)
(* handler may gain or lose a trap at any time, so each operation chooses   *)
(* whether the trap is there.  A trap runs code of its own (Effects) and    *)
(* answers anything; the invariants are then checked against the target as  *)
(* the trap left it.                                                        *)
NonConfigurable(obj, k) == HasOwn(obj, k) /\ ~OwnAttrs(obj, k).configurable

\* The trap ran and left the heap h; its answer is taken or refused.
Answered(h, refused, answer) ==
    /\ Step
    /\ heap' = h
    /\ result' = IF refused THEN <<"error">> ELSE answer
    /\ UNCHANGED site

\* The check at the end of proxyGet: a non-configurable property that is not
\* read-only data must come back undefined unless it has a getter.
GetRefused(obj, k, v) ==
    /\ NonConfigurable(obj, k)
    /\ IF ~OwnAttrs(obj, k).accessor /\ ~OwnAttrs(obj, k).writable
       THEN v # obj.slots[findOwnSlot(obj, k)]
       ELSE v # Undefined /\ ~(OwnAttrs(obj, k).accessor /\ obj.slots[findOwnSlot(obj, k)].getter)

\* The check made before the trap runs instead of after.
ProxyGetEarly(o, k, v, h) ==
    Answered(h, GetRefused(heap[o], k, v), <<"proxyGet", o, k, v>>)

ProxyGet(o, k, v, h) ==
    Answered(h, GetRefused(h[o], k, v), <<"proxyGet", o, k, v>>)

\* proxyIsExtensible: the trap's answer, if there is one ("absent"), else the
\* target's.  It raises exactly when trap and target both say no.
ExtensibleAnswers == {"absent", "yes", "no"}
SaysExtensible(obj, answer) == IF answer = "absent" THEN obj.extensible ELSE answer = "yes"
ExtensibleRefused(obj, answer) == answer = "no" /\ ~obj.extensible

\* proxySet, its trap returning success: every check, then the strict-mode
\* error of a failed set.
SetRefused(obj, k, v, success, answer) ==
    \/ ~success
    \/ ExtensibleRefused(obj, answer)
    \/ ~HasOwn(obj, k) /\ ~SaysExtensible(obj, answer)
    \/ /\ NonConfigurable(obj, k)
       /\ LET slot == obj.slots[findOwnSlot(obj, k)]
          IN  IF OwnAttrs(obj, k).accessor THEN ~slot.setter
              ELSE ~OwnAttrs(obj, k).writable /\ v # slot

ProxySet(o, k, v, success, answer, h) ==
    Answered(h, SetRefused(h[o], k, v, success, answer), <<"proxySet", o, k, v>>)

ProxyHas(o, k, found, h) ==
    Answered(h, ~found /\ NonConfigurable(h[o], k), <<"proxyHas", o, k, found>>)

ProxyDelete(o, k, deleted, h) ==
    Answered(h, deleted /\ NonConfigurable(h[o], k), <<"proxyDelete", o, k, deleted>>)

\* ownKeysValues: the keys with a slot that is not a hole, whichever entry of
\* the key it belongs to.
ownKeysValues(obj) ==
    {obj.shape[p].key : p \in {q \in 1 .. Len(obj.shape) : obj.slots[q] # Hole}}

ProxyOwnKeys(o, keys, h) ==
    Answered(h, IF h[o].extensible
                THEN \E k \in ownKeysValues(h[o]) \ keys : NonConfigurable(h[o], k)
                ELSE keys # ownKeysValues(h[o]),
             <<"proxyOwnKeys", o, keys>>)

\* proxyGetPrototype with a trap: the target's prototype is read before the
\* trap runs.
ProxyGetPrototype(o, p, answer, h) ==
    Answered(h, \/ ExtensibleRefused(h[o], answer)
                \/ ~SaysExtensible(h[o], answer) /\ p # heap[o].proto,
             <<"proxyGetPrototype", o, p, answer>>)

\* proxyPreventExtensions: a truthy answer makes the target non-extensible,
\* a falsy one is an error of Object.preventExtensions.
ProxyPreventExtensions(o, ok, h) ==
    Answered(IF ok THEN [h EXCEPT ![o] = NotExtensible(@)] ELSE h, ~ok, <<"none">>)

ProxyStep(o, k) ==
    \E h \in Effects(o) :
        \/ \E v \in Values : ProxyGet(o, k, v, h)
        \/ \E v \in Values, ok \in BOOLEAN, answer \in ExtensibleAnswers :
             ProxySet(o, k, v, ok, answer, h)
        \/ \E b \in BOOLEAN : ProxyHas(o, k, b, h) \/ ProxyDelete(o, k, b, h)

ProxyObjectStep(o) ==
    \E h \in Effects(o) :
        \/ \E keys \in SUBSET Keys : ProxyOwnKeys(o, keys, h)
        \/ \E p \in Objs \cup {Null}, answer \in ExtensibleAnswers :
             ProxyGetPrototype(o, p, answer, h)
        \/ \E ok \in BOOLEAN : ProxyPreventExtensions(o, ok, h)

-----------------------------------------------------------------------------
\* What a program puts in a property with the given attributes.
Contents(attrs) ==
    IF attrs.accessor THEN {Pair(TRUE, FALSE), Pair(FALSE, TRUE)} ELSE Values

Next ==
    \/ \E op \in {"GetProperty", "LoadGlobal"}, o \in Objs :
         GetHit(op, o) \/ \E k \in SiteKeys : GetSlow(op, o, k)
    \/ \E op \in {"SetProperty", "StoreGlobal"}, o \in Objs, k \in SiteKeys, v \in Stores :
         SetHit(op, o, k, v) \/ SetSlow(op, o, k, v)
    \/ \E o \in Objs, k \in SiteKeys, v \in Stores : SetTransition(o, k, v)
    \/ \E k \in Keys : DefineGlobalVar(k, Undefined)
    \/ \E o \in Objs, k \in Keys :
         \/ \E v \in Stores : SetElement(o, k, v)
         \/ DeleteProperty(o, k)
         \/ \E a \in Attrs : \E v \in Contents(a) : DefineProperty(o, k, a, v)
    \/ \E o \in Targets, k \in Keys : ProxyStep(o, k)
    \/ \E o \in Targets : ProxyObjectStep(o)
    \/ \E o \in Objs : PreventExtensions(o)
    \/ \E o \in Objs, p \in Objs \cup {Null} : SetPrototype(o, p)

Spec == Init /\ [][Next]_vars

-----------------------------------------------------------------------------
\* Type invariant: slot vectors run parallel to shapes, and a slot that is not
\* deleted holds what the attributes of its entry say.
TypeOK ==
    /\ \A o \in Objs :
         /\ Len(heap[o].slots) = Len(heap[o].shape)
         /\ \A p \in 1 .. Len(heap[o].shape) :
              /\ heap[o].shape[p].key \in Keys
              /\ heap[o].slots[p] # Hole =>
                   heap[o].slots[p] \in Contents(heap[o].shape[p].attrs)
         /\ heap[o].proto \in Objs \cup {Null}
    /\ site.op \in Opcodes \cup {"any"}
    /\ steps \in 0 .. MaxSteps

\* SetPrototype never closes a cycle, whatever traps, getters and setters do
\* in between, so every walk of a prototype chain in the interpreter ends; and
\* objects stay well formed.
ChainsEnd ==
    /\ TypeOK
    /\ \A o \in Objs : \E a \in Chain(heap, o) : heap[a].proto = Null

\* The key register of the site holds the same key every time.  The guard of
\* the load and store caches compares shapes alone.
OneKey == \A j, k \in SiteKeys : j = k

\* The load and store caches can only accelerate: whenever the guard of the
\* site's cache passes, on any receiver, the cached slot is the one a lookup
\* of the site's key finds there, and it is a writable data property.
CacheExact ==
    \A o \in Objs : Executes(site.op, o) /\ CacheHit(heap[o]) =>
        \A k \in SiteKeys :
            site.slot = ownDataSlot(heap[o], k) /\ OwnAttrs(heap[o], k).writable

\* A store that overwrote a slot through SetProperty or StoreGlobal, cached
\* or not, did not overwrite a read-only property, an accessor, or an older
\* entry that a redefinition hides.
WritesLandRight ==
    result[1] = "wrote" /\ result[2] # "element" =>
        LET obj == heap[result[3]]
        IN  result[4] = ownDataSlot(obj, result[5]) /\ OwnAttrs(obj, result[5]).writable

\* What a proxy reports never contradicts a non-configurable property of its
\* target, even one its trap put there before it answered.
ProxyHonest ==
    /\ result[1] \in {"proxyGet", "proxySet", "proxyHas", "proxyDelete"} =>
         LET obj == heap[result[2]]
             k == result[3]
         IN  NonConfigurable(obj, k) =>
                /\ result[1] = "proxyHas" => result[4]
                /\ result[1] = "proxyDelete" => ~result[4]
                /\ /\ result[1] \in {"proxyGet", "proxySet"}
                   /\ ~OwnAttrs(obj, k).accessor /\ ~OwnAttrs(obj, k).writable
                   => result[4] = obj.slots[findOwnSlot(obj, k)]
    /\ result[1] = "proxyOwnKeys" =>
         {k \in Keys : NonConfigurable(heap[result[2]], k)} \subseteq result[3]

\* The transition cache can only accelerate: it appends a property only where
\* setProperty would have.
TransitionExact == result[1] = "pushed" => result[3] = "define"
=============================================================================
