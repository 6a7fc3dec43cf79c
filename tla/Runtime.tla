------------------------------ MODULE Runtime ------------------------------
(***************************************************************************)
(* The object heap and the class registry of the T0 interpreter           *)
(* (compiler/interp/src/Heap.cpp and Runtime.cpp), as pure operators over  *)
(* one record r, the state of a Runtime:                                   *)
(*                                                                         *)
(*   objs         heap objects; ObjRef{id} is the index, 0 is no object    *)
(*   fields       (class, name) -> slot, in order of first resolution      *)
(*   statics      (class, name) -> Value, only the written ones            *)
(*   interned     string literal -> object                                 *)
(*   classObjects class -> its java/lang/Class instance                    *)
(*   initialized  has the program class's <clinit> been started?           *)
(*   profiles     MethodId -> saturating invocation and backedge counts    *)
(*                                                                         *)
(* A value is a tag and, for a Ref, an object: the payload of a primitive  *)
(* is abstracted.  A class is the sequence of its descriptor: <<"P">> is a *)
(* plain class, <<"[", "P">> an array of it.                               *)
(***************************************************************************)
EXTENDS Integers, Sequences, FiniteSets, TLC

CONSTANTS
    Methods,     \* rbc::Program::methods, a function on 0 .. n-1
    ClassName,   \* rbc::Program::className, a plain class
    MaxCount     \* the value at which a profile counter saturates

----------------------------------------------------------------------------
(* Values. *)

RType == {"Bottom", "Int", "Long", "Float", "Double", "Null", "Ref"}

Prim(t) == [type |-> t, obj |-> 0]
Bottom == Prim("Bottom")
NullVal == Prim("Null")
RefVal(o) == [type |-> "Ref", obj |-> o]

isNull(v) == v.type = "Null"

(* Default value of a field or an array element of type t. *)
zeroOf(t) == IF t = "Ref" THEN NullVal ELSE Prim(t)

(* A partial map read with Bottom for an absent key: slots and statics grow *)
(* on demand, Bottom-filled.                                                *)
Lookup(f, k) == IF k \in DOMAIN f THEN f[k] ELSE Bottom

(* The result of a step that also makes or finds an object. *)
With(r, o) == [rt |-> r, obj |-> o]

----------------------------------------------------------------------------
(* Class registry. *)

Object == <<"Object">>
String == <<"String">>
ClassClass == <<"Class">>
PrintStream == <<"PrintStream">>

(* The builtin hierarchy.  A class that is not named here is a child of     *)
(* Object, as is every class registered on first use.                       *)
SuperOf(c) ==
    CASE c \in {"Exception", "Error"} -> "Throwable"
      [] c = "RuntimeException" -> "Exception"
      [] c \in {"ArithmeticException", "NullPointerException", "ArrayStoreException",
                "ClassCastException", "IllegalMonitorStateException",
                "IndexOutOfBoundsException", "NegativeArraySizeException",
                "UnsupportedOperationException"} -> "RuntimeException"
      [] c = "ArrayIndexOutOfBoundsException" -> "IndexOutOfBoundsException"
      [] c \in {"VirtualMachineError", "LinkageError"} -> "Error"
      [] c \in {"InternalError", "StackOverflowError"} -> "VirtualMachineError"
      [] c \in {"NoSuchMethodError", "BootstrapMethodError"} -> "LinkageError"
      [] OTHER -> "Object"

(* The chain walk of isAssignableFrom: c and its superclasses up to Object; *)
(* no chain of the hierarchy is longer than the bound.                      *)
ChainBound == 6
Chain(c) ==
    LET up[n \in 0 .. ChainBound] == IF n = 0 THEN c ELSE SuperOf(up[n - 1])
    IN  {up[n] : n \in 0 .. ChainBound}

isArrayClass(cls) == cls[1] = "["

isAssignableFrom(target, value) ==
    IF isArrayClass(target) \/ isArrayClass(value)
    THEN target = value
    ELSE target[1] \in Chain(value[1])

----------------------------------------------------------------------------
(* Allocation. *)

Instance(cls, slots) ==
    [cls |-> cls, array |-> FALSE, elem |-> "Bottom", slots |-> slots, mon |-> 0]

allocInstance(r, cls) ==
    With([r EXCEPT !.objs = Append(@, Instance(cls, <<>>))], Len(r.objs) + 1)

allocArray(r, cls, elem, length) ==
    With([r EXCEPT !.objs =
            Append(@, [cls |-> cls, array |-> TRUE, elem |-> elem,
                       slots |-> [i \in 0 .. length - 1 |-> zeroOf(elem)],
                       mon |-> 0])],
         Len(r.objs) + 1)

internString(r, s) ==
    IF s \in DOMAIN r.interned
    THEN With(r, r.interned[s])
    ELSE LET a == allocInstance(r, String)
         IN  With([a.rt EXCEPT !.interned = (s :> a.obj) @@ @], a.obj)

classObject(r, cls) ==
    IF cls \in DOMAIN r.classObjects
    THEN With(r, r.classObjects[cls])
    ELSE LET a == allocInstance(r, ClassClass)
         IN  With([a.rt EXCEPT !.classObjects = (cls :> a.obj) @@ @], a.obj)

newRefArray(r, elementClass, length) ==
    allocArray(r, <<"[">> \o elementClass, "Ref", length)

(* multianewarray of a two-level array class: the outer array first, then   *)
(* its n inner arrays of m elements each, in order.                         *)
newMultiArray(r, cls, elem, n, m) ==
    LET outer == allocArray(r, cls, "Ref", n)
        inner == allocArray(r, Tail(cls), elem, m).rt.objs[outer.obj]
        first == outer.obj + 1
    IN  With([outer.rt EXCEPT !.objs =
                [@ EXCEPT ![outer.obj].slots =
                    [i \in 0 .. n - 1 |-> RefVal(first + i)]]
                \o [i \in 1 .. n |-> inner]],
             outer.obj)

----------------------------------------------------------------------------
(* Object queries, fields and elements. *)

Live(r, o) == o \in DOMAIN r.objs

(* A dead or null reference reads as ClassId{0}, java/lang/Object. *)
classOf(r, o) == IF Live(r, o) THEN r.objs[o].cls ELSE Object

isInstance(r, o) == Live(r, o) /\ ~r.objs[o].array
isArray(r, o) == Live(r, o) /\ r.objs[o].array

arrayLength(r, o) == IF isArray(r, o) THEN Cardinality(DOMAIN r.objs[o].slots) ELSE 0

(* Growing the slots of the loaded object with Bottom is not visible.       *)
loadField(r, o, slot) ==
    IF isInstance(r, o) THEN Lookup(r.objs[o].slots, slot) ELSE Bottom

storeField(r, o, slot, v) ==
    [r EXCEPT !.objs[o].slots = (slot :> v) @@ @]

loadElem(r, o, index) == Lookup(r.objs[o].slots, index)
storeElem(r, o, index, v) == [r EXCEPT !.objs[o].slots[index] = v]

----------------------------------------------------------------------------
(* Monitors: one owning thread, so a monitor is its reentry count. *)

monitorenter(r, o) == [r EXCEPT !.objs[o].mon = @ + 1]
Owned(r, o) == r.objs[o].mon > 0
monitorexit(r, o) == [r EXCEPT !.objs[o].mon = @ - 1]

(* Best-effort release: n[o] exits of each o; an exit that fails because the *)
(* monitor is free is ignored.                                              *)
ReleaseAll(r, n) ==
    [r EXCEPT !.objs =
        [o \in DOMAIN r.objs |->
            [r.objs[o] EXCEPT !.mon = IF n[o] <= @ THEN @ - n[o] ELSE 0]]]

----------------------------------------------------------------------------
(* Resolution, statics and exceptions. *)

Fields(r, cls) == {k \in DOMAIN r.fields : k[1] = cls}

(* Mutant: every resolution makes a slot. *)
ResolveFieldAgain(r, c) ==
    [r EXCEPT !.fields = (<<c.cls, c.name>> :> Cardinality(Fields(r, c.cls))) @@ @]

(* Idempotent: a field keeps the slot of its first resolution. *)
resolveField(r, c) ==
    IF <<c.cls, c.name>> \in DOMAIN r.fields
    THEN r
    ELSE [r EXCEPT !.fields =
            (<<c.cls, c.name>> :> Cardinality(Fields(r, c.cls))) @@ @]

SlotOf(r, c) == r.fields[<<c.cls, c.name>>]

loadStatic(r, c) == Lookup(r.statics, <<c.cls, c.name>>)
storeStatic(r, c, v) == [r EXCEPT !.statics = (<<c.cls, c.name>> :> v) @@ @]

(* The methods a MethodRef names: one, or none. *)
resolveMethod(c) ==
    {m \in DOMAIN Methods : c.cls = ClassName /\ Methods[m].name = c.name}

(* System.out and System.err, made by the constructor. *)
systemOut == 1
systemErr == 2
builtinStatic(c) ==
    IF c.cls = <<"System">> /\ c.name \in {"out", "err"}
    THEN {IF c.name = "out" THEN systemOut ELSE systemErr}
    ELSE {}

lookupBuiltinVirtual(cls, c) ==
    cls = PrintStream /\ c.name \in {"println", "print"}

Clinit == {m \in DOMAIN Methods : Methods[m].name = "<clinit>"}

needsInit(r, cls) == ~r.initialized /\ cls = ClassName /\ Clinit # {}

(* Mutant: the wrong initializer is looked up. *)
FindInit(r, cls) == CHOOSE m \in DOMAIN Methods : Methods[m].name = "<init>"

(* MethodId{} is method 0: a caller must have asked needsInit first. *)
findClinit(r, cls) ==
    IF needsInit(r, cls) THEN CHOOSE m \in Clinit : TRUE ELSE 0

(* Mutant: the class is not marked before <clinit> runs. *)
MarkNothing(r) == r

markInitialized(r) == [r EXCEPT !.initialized = TRUE]

DetailMessage == [kind |-> "FieldRef", cls |-> <<"Throwable">>,
                  name |-> "detailMessage", type |-> "Ref"]

(* A fresh instance whose detailMessage slot holds an interned String, made *)
(* after it when it is new; the text is abstracted to one message.          *)
makeException(r, name) ==
    LET f == resolveField(r, DetailMessage)
        text == IF "message" \in DOMAIN r.interned THEN r.interned["message"]
                                                   ELSE Len(r.objs) + 2
        exc == Instance(<<name>>, SlotOf(f, DetailMessage) :> RefVal(text))
    IN  With(internString([f EXCEPT !.objs = Append(@, exc)], "message").rt,
             Len(r.objs) + 1)

Saturating(n) == IF n = MaxCount THEN n ELSE n + 1
bumpInvocations(r, m) == [r EXCEPT !.profiles[m].invocations = Saturating(@)]
bumpBackedge(r, m) == [r EXCEPT !.profiles[m].backedges = Saturating(@)]

(* The constructor registers the builtin classes and makes two streams. *)
InitialRuntime ==
    LET stream == Instance(PrintStream, <<>>)
    IN  [objs |-> <<stream, stream>>, fields |-> <<>>, statics |-> <<>>,
         interned |-> <<>>, classObjects |-> <<>>, initialized |-> FALSE,
         profiles |-> [m \in DOMAIN Methods |-> [invocations |-> 0,
                                                 backedges |-> 0]]]
=============================================================================
