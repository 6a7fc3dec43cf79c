----------------------------- MODULE TsArraySpec -----------------------------
(***************************************************************************)
(* What the array operations promise (bytecode_spec.md 5.12 and the        *)
(* Array.prototype natives it lists): an array is a length and the         *)
(* elements present below it; storage and elements kinds are invisible.    *)
(***************************************************************************)
EXTENDS Integers, Sequences

CONSTANTS Values, Undefined, MaxArrayLength

VARIABLES contents,   \* index -> value, on the indices that have an element
          length,
          ret,        \* what the last operation returned
          nested      \* inside a callback, where results are not recorded

vars == <<contents, length, ret>>

Returns(r) == ret' = IF nested THEN <<"value", Undefined>> ELSE r

Present == DOMAIN contents
At(i) == IF i \in Present THEN contents[i] ELSE Undefined
Restricted(S) == [i \in Present \cap S |-> contents[i]]

Init == contents = [i \in {} |-> Undefined] /\ length = 0 /\ ret = <<"value", Undefined>>

Store(i, v) ==
    /\ contents' = [j \in Present \cup {i} |-> IF j = i THEN v ELSE contents[j]]
    /\ length' = IF i < length THEN length ELSE i + 1
    /\ (Returns(<<"value", Undefined>>) \/ Returns(<<"number", length'>>))

SetLength(n) ==
    /\ contents' = Restricted(0 .. n - 1)
    /\ length' = n
    /\ Returns(<<"value", Undefined>>)

Delete(i) == contents' = Restricted(Present \ {i}) /\ Returns(<<"truth", TRUE>>) /\ UNCHANGED length

Pop ==
    /\ length > 0
    /\ contents' = Restricted(0 .. length - 2)
    /\ length' = length - 1
    /\ Returns(<<"value", At(length - 1)>>)

Shift ==
    /\ length > 0
    /\ contents' = [i \in {k - 1 : k \in Present \ {0}} |-> contents[i + 1]]
    /\ length' = length - 1
    /\ Returns(<<"value", At(0)>>)

Unshift(v) ==
    /\ contents' = [i \in {0} \cup {k + 1 : k \in Present} |-> IF i = 0 THEN v ELSE contents[i - 1]]
    /\ length' = length + 1
    /\ Returns(<<"number", length'>>)

\* Every other operation leaves the array alone.
Read == UNCHANGED <<contents, length>>

Next ==
    \/ Pop \/ Shift \/ Read
    \/ \E i \in 0 .. MaxArrayLength - 1 : Delete(i) \/ \E v \in Values : Store(i, v)
    \/ \E n \in 0 .. MaxArrayLength : SetLength(n)
    \/ \E v \in Values : Unshift(v)

Spec == Init /\ [][Next]_vars
=============================================================================
