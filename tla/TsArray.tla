------------------------------- MODULE TsArray -------------------------------
(***************************************************************************)
(* The exotic arrays of TurboScript (ts_interpreter.cpp, ts_dispatch.cpp   *)
(* and the Array.prototype natives of ts_builtins.cpp).  An array is a     *)
(* dense vector of elements, an ordered map for the indices the vector     *)
(* does not reach, an elements kind and a uint32 length.  The natives that *)
(* take a callback read the array again on every turn, and the callback    *)
(* may store, delete, push, pop or truncate between two turns.             *)
(***************************************************************************)
EXTENDS Integers, Sequences

CONSTANTS Smis, Doubles, Others,   \* element values by class, disjoint
          Undefined, Hole,         \* Undefined is one of Others; Hole is no value
          MaxDense,                \* kMaxDenseElements
          MaxArrayLength,          \* kMaxArrayLength = 2^w - 1
          Indices, LengthArgs,     \* element keys and lengths a program uses
          FromArgs,                \* start arguments of indexOf, includes and slice
          CallbackValues,          \* what callbacks return
          LengthCap,               \* bound: no operation lengthens an array beyond it
          MaxVector,               \* bound: unshift grows the vector up to here
          MaxCallbackWrites        \* bound: writes during one native with a callback

VARIABLES arr,    \* the array
          ret,    \* what the last operation returned
          res,    \* the array slice or concat made last
          iter    \* the native with a callback that is running, or Idle

vars == <<arr, ret, res, iter>>

Numbers == Smis \cup Doubles
Values == Numbers \cup Others

ASSUME ArrayAssumption ==
    /\ Undefined \in Others /\ Hole \notin Values /\ CallbackValues \subseteq Values
    /\ MaxDense \in Nat /\ MaxArrayLength \in Nat /\ LengthCap \in 0 .. MaxArrayLength
    /\ MaxVector \in 0 .. MaxArrayLength /\ MaxCallbackWrites \in Nat
    /\ Indices \subseteq 0 .. MaxArrayLength - 1
    /\ LengthArgs \subseteq Int /\ FromArgs \subseteq Int

\* PackedSmi 0, HoleySmi 1, PackedDouble 2, HoleyDouble 3, PackedTagged 4,
\* HoleyTagged 5.
Kinds == 0 .. 5
holeyOf(k) == IF k % 2 = 0 THEN k + 1 ELSE k

ArrayObject(elements, sparse, kind, length) ==
    [elements |-> elements, sparse |-> sparse, kind |-> kind, length |-> length]

NoSparse == [i \in {} |-> Hole]

newArrayObject == ArrayObject(<<>>, NoSparse, 0, 0)

UInt32(n) == n % (MaxArrayLength + 1)

-----------------------------------------------------------------------------
ownElementValue(a, i) ==
    IF i < Len(a.elements) THEN a.elements[i + 1]
    ELSE IF i \in DOMAIN a.sparse THEN a.sparse[i]
    ELSE Hole

arrayHasOwnElement(a, i) ==
    IF i < Len(a.elements) THEN a.elements[i + 1] # Hole ELSE i \in DOMAIN a.sparse

\* A widening that forgets that a heap number does not fit a smi array.
WidenTaggedOnly(a, v) ==
    [a EXCEPT !.kind = IF v \in Numbers \/ @ >= 4 THEN @ ELSE IF @ < 2 THEN @ + 4 ELSE @ + 2]

widenElementsFor(a, v) ==
    [a EXCEPT !.kind =
        IF @ < 2 /\ v \notin Smis THEN @ + (IF v \in Numbers THEN 2 ELSE 4)
        ELSE IF @ \in 2 .. 3 /\ v \notin Numbers THEN @ + 2
        ELSE @]

\* if (length <= idx) length = idx + 1, in 32 bits.
Reaching(length, i) == IF length <= i THEN UInt32(i + 1) ELSE length

\* elements.resize(n, hole), for a vector that is shorter.
Resized(s, n) == [p \in 1 .. n |-> IF p <= Len(s) THEN s[p] ELSE Hole]

With(f, i, v) == [j \in DOMAIN f \cup {i} |-> IF j = i THEN v ELSE f[j]]
Without(f, dropped) == [i \in DOMAIN f \ dropped |-> f[i]]

StoredSparse(a, i, v) ==
    ArrayObject(a.elements, With(a.sparse, i, v), 5, Reaching(a.length, i))

setArrayElement(a, i, v) ==
    IF i < MaxDense \/ i < Len(a.elements)
    THEN LET grown == IF i < Len(a.elements) THEN a
                      ELSE ArrayObject(Resized(a.elements, i + 1), a.sparse, holeyOf(a.kind), a.length)
             wide == widenElementsFor(grown, v)
         IN  ArrayObject([wide.elements EXCEPT ![i + 1] = v], wide.sparse, wide.kind,
                         Reaching(wide.length, i))
    ELSE StoredSparse(a, i, v)

\* Truncations that go back to a packed kind, or forget the sparse map.
ArraySetLengthRepacking(a, n) ==
    IF n >= a.length THEN [a EXCEPT !.length = n]
    ELSE ArrayObject(SubSeq(a.elements, 1, IF n < Len(a.elements) THEN n ELSE Len(a.elements)),
                     NoSparse, IF n = 0 THEN 0 ELSE a.kind, n)
ArraySetLengthDense(a, n) ==
    IF n >= a.length THEN [a EXCEPT !.length = n]
    ELSE ArrayObject([p \in 1 .. Len(a.elements) |-> IF p > n THEN Hole ELSE a.elements[p]],
                     a.sparse, holeyOf(a.kind), n)

\* arraySetLength, after ToUint32(newLen) = ToNumber(newLen) was established.
arraySetLength(a, n) ==
    IF n >= a.length THEN [a EXCEPT !.length = n]
    ELSE ArrayObject([p \in 1 .. Len(a.elements) |-> IF p > n THEN Hole ELSE a.elements[p]],
                     Without(a.sparse, {i \in DOMAIN a.sparse : i >= n}),
                     IF \E p \in n + 1 .. Len(a.elements) : a.elements[p] # Hole
                     THEN holeyOf(a.kind) ELSE a.kind,
                     n)

\* The array branch of deletePropertyImpl.
deleteElement(a, i) ==
    IF i >= Len(a.elements) THEN [a EXCEPT !.sparse = Without(@, {i})]
    ELSE IF a.elements[i + 1] = Hole THEN a
    ELSE ArrayObject([a.elements EXCEPT ![i + 1] = Hole], a.sparse, holeyOf(a.kind), a.length)

\* appendElement: v may be Hole; widening is left to the caller.
appendElement(a, i, v) ==
    IF i >= MaxDense THEN StoredSparse(a, i, v)
    ELSE ArrayObject([Resized(a.elements, IF i < Len(a.elements) THEN Len(a.elements) ELSE i + 1)
                         EXCEPT ![i + 1] = v],
                     a.sparse, IF v = Hole THEN holeyOf(a.kind) ELSE a.kind, Reaching(a.length, i))

\* appendElement and the widening every caller does for a present value.
Appended(a, i, v) ==
    IF v = Hole THEN appendElement(a, i, v) ELSE widenElementsFor(appendElement(a, i, v), v)

\* The loops of slice and concat: Appended on a fresh array for f[1], f[2]...
ArrayOf(f) ==
    LET S == {f[j] : j \in 1 .. Len(f)}
        class == IF S \subseteq Smis \cup {Hole} THEN 0
                 ELSE IF S \subseteq Numbers \cup {Hole} THEN 2 ELSE 4
    IN  ArrayObject(SubSeq(f, 1, IF Len(f) < MaxDense THEN Len(f) ELSE MaxDense),
                    [i \in MaxDense .. Len(f) - 1 |-> f[i + 1]],
                    IF Len(f) > MaxDense THEN 5 ELSE IF Hole \in S THEN class + 1 ELSE class,
                    Len(f))

-----------------------------------------------------------------------------
\* A completion: a value, a number, a truth value, a joined text, an error,
\* or the array res with the arguments that asked for it.
Value(v) == <<"value", v>>
Number(n) == <<"number", n>>
Truth(b) == <<"truth", b>>
Error(e) == <<"error", e>>
NoResult == Value(Undefined)

Idle == [op |-> "none"]

Init == arr = newArrayObject /\ ret = NoResult /\ res = newArrayObject /\ iter = Idle

OrUndefined(v) == IF v = Hole THEN Undefined ELSE v

\* Results are recorded outside callbacks; res is the array of the last
\* operation alone.
Returning(v) ==
    /\ ret' = IF iter.op = "none" THEN v ELSE NoResult
    /\ res' = newArrayObject
    /\ iter' = IF iter.op = "none" THEN iter ELSE [iter EXCEPT !.writes = @ + 1]

\* GetElement with a Smi key: the dense read of the handler, else the walk of
\* getElementValue, whose other chain nodes hold no element here.
GetElement(i) ==
    /\ Returning(Value(OrUndefined(IF i < Len(arr.elements) /\ arr.elements[i + 1] # Hole
                                   THEN arr.elements[i + 1] ELSE ownElementValue(arr, i))))
    /\ UNCHANGED arr

\* HasProperty and In on an element key.
HasElement(i) == Returning(Truth(arrayHasOwnElement(arr, i))) /\ UNCHANGED arr

\* The in-handler lane of SetElement: a dense store over a present element.
SetElementFast(i, v) ==
    /\ i < Len(arr.elements)
    /\ arr.elements[i + 1] # Hole
    /\ LET wide == widenElementsFor(arr, v)
       IN  arr' = ArrayObject([wide.elements EXCEPT ![i + 1] = v], wide.sparse, wide.kind,
                              Reaching(wide.length, i))
    /\ Returning(NoResult)

SetElement(i, v) ==
    /\ i < LengthCap
    /\ ~(i < Len(arr.elements) /\ arr.elements[i + 1] # Hole)
    /\ arr' = setArrayElement(arr, i, v)
    /\ Returning(NoResult)

\* setProperty of "length": a length that is not a uint32 is a RangeError.
SetLength(n) ==
    /\ n <= LengthCap
    /\ IF n < 0 THEN UNCHANGED arr ELSE arr' = arraySetLength(arr, n)
    /\ Returning(IF n < 0 THEN Error("RangeError") ELSE NoResult)

DeleteElement(i) == arr' = deleteElement(arr, i) /\ Returning(Truth(TRUE))

Push(v) ==
    /\ arr.length < LengthCap
    /\ arr' = setArrayElement(arr, arr.length, v)
    /\ Returning(Number(setArrayElement(arr, arr.length, v).length))

\* pop writes a hole over the last element, or erases it from the map.
Popped(a, i) ==
    IF i < Len(a.elements)
    THEN ArrayObject([a.elements EXCEPT ![i + 1] = Hole], a.sparse, holeyOf(a.kind), i)
    ELSE ArrayObject(a.elements, Without(a.sparse, {i}), a.kind, i)

Pop ==
    IF arr.length = 0 THEN Returning(NoResult) /\ UNCHANGED arr
    ELSE /\ arr' = Popped(arr, arr.length - 1)
         /\ Returning(Value(OrUndefined(ownElementValue(arr, arr.length - 1))))

\* shift moves the vector and the map down by one.
Shifted(a) ==
    ArrayObject(
        IF a.elements = <<>> THEN <<>> ELSE Tail(a.elements),
        [i \in {k - 1 : k \in DOMAIN a.sparse \cap 1 .. a.length - 1} |-> a.sparse[i + 1]],
        a.kind, a.length - 1)

Shift ==
    IF arr.length = 0 THEN Returning(NoResult) /\ UNCHANGED arr
    ELSE arr' = Shifted(arr) /\ Returning(Value(OrUndefined(ownElementValue(arr, 0))))

\* unshift widens for every argument, then moves the vector and the map up.
WidenedForAll(kind, S) ==
    IF kind < 2 /\ ~(S \subseteq Smis) THEN kind + (IF S \subseteq Numbers THEN 2 ELSE 4)
    ELSE IF kind \in 2 .. 3 /\ ~(S \subseteq Numbers) THEN kind + 2
    ELSE kind

Unshifted(a, args) ==
    LET n == Len(args)
    IN  ArrayObject(args \o a.elements,
                    [i \in {UInt32(k + n) : k \in DOMAIN a.sparse} |-> a.sparse[UInt32(i - n)]],
                    WidenedForAll(a.kind, {args[j] : j \in 1 .. n}),
                    UInt32(a.length + n))

Unshift(args) ==
    /\ arr.length + Len(args) <= LengthCap
    /\ Len(arr.elements) + Len(args) <= MaxVector
    /\ arr' = Unshifted(arr, args)
    /\ Returning(Number(Unshifted(arr, args).length))

\* The start of a search: len + from for a negative from, cut to 0 .. len.
SearchStart(a, from) ==
    IF from < 0 THEN IF a.length + from < 0 THEN 0 ELSE a.length + from
    ELSE IF from >= a.length THEN a.length ELSE from

IndexOf(v, from) ==
    LET hits == {i \in SearchStart(arr, from) .. arr.length - 1 : ownElementValue(arr, i) = v}
    IN  /\ Returning(Number(IF hits = {} THEN -1 ELSE CHOOSE i \in hits : \A j \in hits : i <= j))
        /\ UNCHANGED arr

\* includes reads a hole as undefined.
Includes(v, from) ==
    /\ Returning(Truth(\E i \in SearchStart(arr, from) .. arr.length - 1 :
                           OrUndefined(ownElementValue(arr, i)) = v))
    /\ UNCHANGED arr

\* join: what each index contributes, undefined and holes nothing.
Join ==
    /\ Returning(<<"text", [i \in 1 .. arr.length |-> OrUndefined(ownElementValue(arr, i - 1))]>>)
    /\ UNCHANGED arr

\* slice's clamp of a relative position.
Clamp(rel) ==
    LET r == IF rel < 0 THEN rel + arr.length ELSE rel
    IN  IF r < 0 THEN 0 ELSE IF r > arr.length THEN arr.length ELSE r

\* A slice that includes its end.
SliceInclusive(start, end) ==
    LET k == Clamp(start)
        n == IF Clamp(end) < k THEN 0 ELSE Clamp(end) - k + 1
    IN  /\ res' = ArrayOf([j \in 1 .. n |-> ownElementValue(arr, k + j - 1)])
        /\ ret' = <<"slice", start, end>>
        /\ UNCHANGED <<arr, iter>>

Slice(start, end) ==
    LET k == Clamp(start)
        n == IF Clamp(end) < k THEN 0 ELSE Clamp(end) - k
    IN  /\ res' = ArrayOf([j \in 1 .. n |-> ownElementValue(arr, k + j - 1)])
        /\ ret' = <<"slice", start, end>>
        /\ UNCHANGED <<arr, iter>>

\* concat(itself) or concat(v): the receiver, then the spread argument.
Contents(a) == [j \in 1 .. a.length |-> ownElementValue(a, j - 1)]

Concat(tail) ==
    /\ arr.length + Len(tail) <= LengthCap
    /\ res' = ArrayOf(Contents(arr) \o tail)
    /\ ret' = <<"concat", tail>>
    /\ UNCHANGED <<arr, iter>>

-----------------------------------------------------------------------------
(* forEach, map, filter and reduce: the length is read once, each turn      *)
(* reads the element anew, and "called" is TRUE while the callback runs.    *)
Callbacks == {"forEach", "map", "filter", "reduce"}

Iteration(op, i, len, called, value, out, writes) ==
    [op |-> op, i |-> i, len |-> len, called |-> called, value |-> value, out |-> out,
     writes |-> writes]

Iterate(op) ==
    /\ iter.op = "none"
    /\ iter' = Iteration(op, 0, arr.length, FALSE, Hole, newArrayObject, 0)
    /\ ret' = NoResult
    /\ res' = newArrayObject
    /\ UNCHANGED arr

\* reduce without an initial value: the first present element starts the
\* accumulation, and an array without one is a TypeError.
ReduceFirst ==
    /\ iter.op = "none"
    /\ LET present == {k \in 0 .. arr.length - 1 : ownElementValue(arr, k) # Hole}
           first == CHOOSE k \in present : \A j \in present : k <= j
       IN  IF present = {} THEN ret' = Error("TypeError") /\ UNCHANGED iter
           ELSE /\ ret' = NoResult
                /\ iter' = Iteration("reduce", first + 1, arr.length, FALSE,
                                     ownElementValue(arr, first), newArrayObject, 0)
    /\ res' = newArrayObject
    /\ UNCHANGED arr

\* The running native after a step of its loop.
Turned(i, called, value, out) ==
    Iteration(iter.op, i, iter.len, called, value, out, iter.writes)

Turning == iter.op # "none" /\ ~iter.called /\ iter.i < iter.len

\* A map that drops the holes instead of preserving them.
SkipHoleDropping ==
    /\ Turning
    /\ ownElementValue(arr, iter.i) = Hole
    /\ iter' = [iter EXCEPT !.i = @ + 1]
    /\ UNCHANGED <<arr, ret, res>>

\* A hole is skipped; map preserves it.
SkipHole ==
    /\ Turning
    /\ ownElementValue(arr, iter.i) = Hole
    /\ iter' = Turned(iter.i + 1, FALSE, iter.value,
                      IF iter.op = "map" THEN Appended(iter.out, iter.i, Hole) ELSE iter.out)
    /\ UNCHANGED <<arr, ret, res>>

\* The callback is called; filter keeps the value to append it later, reduce
\* its accumulator.
Call ==
    /\ Turning
    /\ ownElementValue(arr, iter.i) # Hole
    /\ iter' = Turned(iter.i, TRUE,
                      IF iter.op = "filter" THEN ownElementValue(arr, iter.i) ELSE iter.value,
                      iter.out)
    /\ UNCHANGED <<arr, ret, res>>

\* The callback returns v; filter keeps the value it was called with if v is
\* truthy.
CallbackReturn(v) ==
    /\ iter.op # "none" /\ iter.called
    /\ iter' = Turned(iter.i + 1, FALSE, IF iter.op = "reduce" THEN v ELSE Hole,
                      IF iter.op = "map" THEN Appended(iter.out, iter.i, v)
                      ELSE IF iter.op = "filter" /\ v # Undefined
                      THEN Appended(iter.out, iter.out.length, iter.value)
                      ELSE iter.out)
    /\ UNCHANGED <<arr, ret, res>>

\* The callback throws: the native returns the exception and its array is lost.
CallbackThrow ==
    /\ iter.op # "none" /\ iter.called
    /\ iter' = Idle
    /\ ret' = Error("thrown")
    /\ res' = newArrayObject
    /\ UNCHANGED arr

IterateDone ==
    /\ iter.op # "none" /\ ~iter.called /\ iter.i >= iter.len
    /\ iter' = Idle
    /\ res' = iter.out
    /\ ret' = IF iter.op = "reduce" THEN Value(OrUndefined(iter.value)) ELSE NoResult
    /\ UNCHANGED arr

Reading ==
    \/ \E i \in Indices : GetElement(i) \/ HasElement(i)
    \/ Join
    \/ \E v \in Values, from \in FromArgs : IndexOf(v, from) \/ Includes(v, from)
    \/ \E s, e \in FromArgs : Slice(s, e)
    \/ Concat(Contents(arr)) \/ \E v \in Values : Concat(<<v>>)

Writing ==
    \/ \E i \in Indices : DeleteElement(i)
    \/ \E i \in Indices, v \in Values : SetElementFast(i, v) \/ SetElement(i, v)
    \/ \E n \in LengthArgs : SetLength(n)
    \/ \E v \in Values : Push(v) \/ Unshift(<<v>>)
    \/ Pop \/ Shift

\* User code runs between natives and inside a callback, where reading the
\* array changes nothing.
Next ==
    \/ iter.op = "none" /\ (Reading \/ Writing)
    \/ iter.op # "none" /\ iter.called /\ iter.writes < MaxCallbackWrites /\ Writing
    \/ \E op \in Callbacks : Iterate(op)
    \/ ReduceFirst \/ SkipHole \/ Call \/ CallbackThrow \/ IterateDone
    \/ \E v \in CallbackValues : CallbackReturn(v)

Spec == Init /\ [][Next]_vars

-----------------------------------------------------------------------------
Arrays ==
    {arr, res} \cup (IF iter.op = "none" THEN {} ELSE {iter.out})

\* Type invariant: storage holds values and holes, the kind is one of the
\* six and the length fits 32 bits.
TypeOK ==
    /\ \A a \in Arrays :
         /\ a.elements \in Seq(Values \cup {Hole})
         /\ \A i \in DOMAIN a.sparse : a.sparse[i] \in Values \cup {Hole}
         /\ a.kind \in Kinds
         /\ a.length \in 0 .. MaxArrayLength
    /\ iter.op \in Callbacks \cup {"none"}

\* The length is above every element, so a loop to length sees them all.
NoElementBeyondLength ==
    \A a \in Arrays :
        \A i \in 0 .. MaxArrayLength : ownElementValue(a, i) # Hole => i < a.length

\* The elements-kind invariant of bytecode_spec.md 5.12 ("a PackedSmi array
\* can never contain a non-Smi"), on every array a program or a native can
\* hold: a packed vector has no hole, and the class covers every element,
\* those in the sparse map included.  The storage is well typed and holds
\* nothing beyond the length.
KindSound ==
    /\ TypeOK /\ NoElementBeyondLength
    /\ \A a \in Arrays :
         LET stored == {a.elements[p] : p \in 1 .. Len(a.elements)}
                           \cup {a.sparse[i] : i \in DOMAIN a.sparse}
         IN  /\ a.kind % 2 = 0 => Hole \notin stored
             /\ a.kind < 2 => stored \subseteq Smis \cup {Hole}
             /\ a.kind < 4 => stored \subseteq Numbers \cup {Hole}

\* "Transitions are eager and monotonic": no store, delete, truncation or
\* native ever takes an array back to a narrower or a packed kind.
KindMonotone ==
    [][arr'.kind \div 2 >= arr.kind \div 2 /\ arr'.kind % 2 >= arr.kind % 2]_arr

\* What map and filter have built so far, while the callback rewrites the
\* array under them: map one entry per index already passed, filter only
\* present elements.
ResultsGrowInStep ==
    /\ iter.op = "map" => iter.out.length = iter.i
    /\ iter.op = "filter" => /\ iter.out.length <= iter.i
                             /\ \A p \in 1 .. iter.out.length : Contents(iter.out)[p] # Hole

\* slice and concat copy what reading the array index by index would give,
\* across the boundary between the vector and the map.
CopiesExact ==
    /\ ret[1] = "slice" => Contents(res) = SubSeq(Contents(arr), Clamp(ret[2]) + 1, Clamp(ret[3]))
    /\ ret[1] = "concat" => Contents(res) = Contents(arr) \o ret[2]

-----------------------------------------------------------------------------
\* The storage read as an array of present elements.
Elements(a) ==
    [i \in {k \in 0 .. MaxArrayLength : ownElementValue(a, k) # Hole} |-> ownElementValue(a, i)]

A == INSTANCE TsArraySpec WITH
    contents <- Elements(arr),
    length   <- arr.length,
    nested   <- iter.op # "none"

\* An element of the map that shift has carried below MaxDense.  A later
\* dense store above it grows the vector over it.
Displaced == \E i \in DOMAIN arr.sparse : i < MaxDense

\* From every state without a displaced element, every operation does to the
\* elements and the length what the array promises, and returns what it
\* promises: fast lanes, growth, holes and the two storages are invisible.
StepsRefine == A!Init /\ [][Displaced \/ A!Next]_(A!vars)

\* "Sparse elements: indices >= kMaxDenseElements (2^20) live in an ordered
\* std::map": the promise without the exception for displaced elements.
NothingLost == A!Spec
=============================================================================
