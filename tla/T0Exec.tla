---- MODULE T0Exec ----
(***************************************************************************)
(* The concrete semantics of the bytecode interpreter (Tier 0) on one      *)
(* machine state c = [frames, heap, out]: compiler/interp/src/Interp.cpp   *)
(* as the reference the compiled tier is compared with.                    *)
(*                                                                         *)
(* A value is <<tag, payload>>; a program is [methods, clinit, entry,      *)
(* args], methods numbered from 1, clinit = 0 when there is none.  Objects *)
(* are numbers: one instance, one array, the class object, System.out, one *)
(* exception object per class and the interned empty string exist from the *)
(* start, new objects get the next numbers.                                *)
(***************************************************************************)
EXTENDS Rbc

CONSTANT MaxFrames    \* InterpConfig::maxFrames

intVal(n) == <<"Int", n>>
refVal(o) == <<"Ref", o>>
nullVal == <<"Null", 0>>
bottom == <<"Bottom", 0>>
isNull(v) == v[1] = "Null"

Instance == 1
Array == 2
ClassObject == 3
SystemOut == 4
NullPointer == 5
Arithmetic == 6
StackOverflow == 7
IllegalMonitor == 8
InternalError == 9
NoSuchMethod == 10
NegativeArraySize == 11
ArrayIndex == 12
EmptyString == 13
Objects == 1 .. 13

zeroOfField(type) == IF type = "Int" THEN intVal(0) ELSE nullVal

\* mon counts the entries of every monitor; stat holds the static fields, inst
\* the fields written so far of every instance that has some, arr the elements
\* of every array.
Heap0 == [mon |-> [o \in Objects |-> 0], stat |-> [f \in {IntField, RefField} |-> bottom],
          inst |-> Instance :> (IntField :> intVal(1)),
          arr |-> Array :> <<intVal(0), intVal(0)>>, init |-> FALSE]

isArray(heap, o) == o \in DOMAIN heap.arr
isInstance(heap, o) == ~isArray(heap, o)

\* Heap::loadField answers Bottom for a field never written.
loadField(heap, o, field) ==
    IF o \in DOMAIN heap.inst /\ field \in DOMAIN heap.inst[o] THEN heap.inst[o][field]
    ELSE bottom

arrayLength(heap, o) == IF isArray(heap, o) THEN Len(heap.arr[o]) ELSE 0

\* The number of the object allocated next.
Fresh(heap) == Cardinality(DOMAIN heap.mon) + 1
Allocated(heap) == [heap EXCEPT !.mon = @ @@ (Fresh(heap) :> 0)]

Running == [kind |-> "run", v |-> bottom]
Returned(v) == [kind |-> "returned", v |-> v]
Threw(exc) == [kind |-> "threw", v |-> refVal(exc)]

BottomRegs(m) == [r \in 0 .. m.numRegs - 1 |-> bottom]

\* Locals 0 .. numLocals - 1 from a sequence of arguments, Bottom-filled.
LocalsFrom(m, args) ==
    [l \in 0 .. m.numLocals - 1 |-> IF l < Len(args) THEN args[l + 1] ELSE bottom]

Frame(P, mi, args) ==
    [m |-> mi, pc |-> 0, regs |-> BottomRegs(P.methods[mi]),
     locals |-> LocalsFrom(P.methods[mi], args), mons |-> <<>>]

----
(* Exceptions and monitors.                                                *)

\* Best effort, one monitorexit per record: an unowned monitor stays free.
Recorded(record, o) == Cardinality({i \in DOMAIN record : record[i] = o})

Release(heap, record) ==
    [heap EXCEPT !.mon = [o \in DOMAIN @ |-> Max({0, @[o] - Recorded(record, o)})]]

\* Exact class or catch-all (-1): the modelled catch types have no subclasses.
Catches(h, pc, exc) == h.start <= pc /\ pc < h.end /\ (h.catch = -1 \/ h.catch = exc)

FirstHandler(m, pc, exc) ==
    LET hs == SelectSeq(m.handlers, LAMBDA h : Catches(h, pc, exc))
    IN  IF hs = <<>> THEN -1 ELSE hs[1].handler

\* Registers die; r0, if there is one, carries the exception.
CatchRegs(m, exc) == [r \in 0 .. m.numRegs - 1 |-> IF r = 0 THEN refVal(exc) ELSE bottom]

throwException(P, c, exc) ==
    LET target(i) == FirstHandler(P.methods[c.frames[i].m], c.frames[i].pc, exc)
        catching == {i \in DOMAIN c.frames : target(i) # -1}
        k == IF catching = {} THEN 0 ELSE Max(catching)
        dropped == SubSeq(c.frames, k + 1, Len(c.frames))
        heap == Release(c.heap, FlattenSeq([i \in DOMAIN dropped |-> dropped[i].mons]))
        f == c.frames[k]
    IN  IF k = 0 THEN [frames |-> <<>>, heap |-> heap, out |-> Threw(exc)]
        ELSE [frames |-> Append(SubSeq(c.frames, 1, k - 1),
                  [f EXCEPT !.pc = target(k), !.regs = CatchRegs(P.methods[f.m], exc)]),
              heap |-> heap, out |-> Running]

monitorenter(heap, o) == [heap EXCEPT !.mon[o] = @ + 1]
monitorexit(heap, o) == [heap EXCEPT !.mon[o] = @ - 1]

\* Drops the most recent record of o; the record is most-recent-first.
Unrecord(record, o) ==
    LET at == {i \in DOMAIN record : record[i] = o}
    IN  IF at = {} THEN record ELSE RemoveAt(record, Min(at))

----
(* One instruction of the top frame.                                       *)

Top(c) == Last(c.frames)
WithTop(c, f) == [c EXCEPT !.frames[Len(c.frames)] = f]
Advance(f) == [f EXCEPT !.pc = @ + 1]
SetReg(f, r, v) == [f EXCEPT !.regs[r] = v]
SetDst(c, r, v) == WithTop(c, Advance(SetReg(Top(c), r, v)))

needsInit(P, heap) == P.clinit # 0 /\ ~heap.init

\* The class is marked first, after which findClinit answers method 0 (here
\* 1), where the frontend puts <clinit>; its frame has no locals.
pushClinit(P, c) ==
    LET marked == [c EXCEPT !.heap.init = TRUE]
    IN  IF Len(c.frames) >= MaxFrames THEN throwException(P, marked, StackOverflow)
        ELSE [marked EXCEPT !.frames = Append(@, [Frame(P, 1, <<>>) EXCEPT !.locals = <<>>])]

Arith(P, c, ins) ==
    LET f == Top(c)
        a == f.regs[ins.a][2]
        b == f.regs[ins.b][2]
    IN  CASE ins.op = "aconst_null" -> SetDst(c, ins.dst, nullVal)
          [] ins.op = "iconst" -> SetDst(c, ins.dst, intVal(ins.imm))
          [] ins.op = "iinc" -> SetDst(c, ins.dst, intVal(Wrap(f.regs[ins.dst][2] + ins.imm)))
          [] ins.op = "iadd" -> SetDst(c, ins.dst, intVal(Wrap(a + b)))
          [] ins.op = "idiv" -> IF b = 0 THEN throwException(P, c, Arithmetic)
                                ELSE SetDst(c, ins.dst, intVal(Quotient(a, b)))

Locally(c, ins) ==
    LET f == Top(c)
    IN  CASE Sig(ins.op) = "RegSlot" -> SetDst(c, ins.dst, f.locals[ins.imm])
          [] Sig(ins.op) = "SlotReg" ->
                 WithTop(c, Advance([f EXCEPT !.locals[ins.imm] = f.regs[ins.a]]))
          [] OTHER -> WithTop(c, Advance(f))    \* polls and guards do nothing

\* Where a control transfer goes.
BranchTo(f, ins) ==
    LET a == f.regs[ins.a]
        b == f.regs[ins.b]
        taken == CASE ins.op = "goto" -> TRUE
                   [] ins.op = "ifeq" -> a[2] = 0
                   [] ins.op = "ifne" -> a[2] # 0
                   [] ins.op = "iflt" -> a[2] < 0
                   [] ins.op = "ifnull" -> isNull(a)
                   [] ins.op = "if_icmpeq" -> a[2] = b[2]
                   [] ins.op = "if_icmpgt" -> a[2] > b[2]
                   [] ins.op = "if_icmpge" -> a[2] >= b[2]
                   [] ins.op = "if_acmpeq" -> a = b
    IN  IF ins.op = "tableswitch"
        THEN IF a[2] \in 0 .. Len(ins.tbl) - 2 THEN ins.tbl[a[2] + 2] ELSE ins.tbl[1]
        ELSE IF ins.op = "lookupswitch"
        THEN IF Contains(ins.imm, a[2]) THEN ins.tbl[1 + SelectInSeq(ins.imm, LAMBDA k : k = a[2])]
             ELSE ins.tbl[1]
        ELSE IF taken THEN ins.imm ELSE f.pc + 1

Branch(c, ins) == WithTop(c, [Top(c) EXCEPT !.pc = BranchTo(Top(c), ins)])

Getfield(P, c, ins) ==
    LET obj == Top(c).regs[ins.a]
        v == loadField(c.heap, obj[2], ins.imm)
    IN  IF isNull(obj) THEN throwException(P, c, NullPointer)
        ELSE IF ins.imm = UnresolvedField THEN throwException(P, c, InternalError)
        ELSE IF v = bottom /\ ~isInstance(c.heap, obj[2]) THEN throwException(P, c, InternalError)
        ELSE SetDst(c, ins.dst, IF v = bottom THEN zeroOfField(FieldType(ins.imm)) ELSE v)

Arraylength(P, c, ins) ==
    LET arr == Top(c).regs[ins.a]
    IN  IF isNull(arr) THEN throwException(P, c, NullPointer)
        ELSE IF ~isArray(c.heap, arr[2]) THEN throwException(P, c, InternalError)
        ELSE SetDst(c, ins.dst, intVal(arrayLength(c.heap, arr[2])))

\* A byte is one bit narrower than an int.
I2b(n) == ((n + 2 ^ (IntBits - 2)) % (2 ^ (IntBits - 1))) - 2 ^ (IntBits - 2)

\* Only the exclusive or with 1, which negates a truth value, and with -1, the
\* complement, are emitted.
Ixor(a, b) == IF b = -1 THEN -1 - a ELSE IF a % 2 = 0 THEN a + 1 ELSE a - 1

Icmp(a, b) == IF a < b THEN -1 ELSE IF a > b THEN 1 ELSE 0

Moves(P, c, ins) ==
    LET regs == Top(c).regs
        n == regs[ins.a][2]
    IN  SetDst(c, ins.dst,
               CASE ins.op = "ldc" -> refVal(EmptyString)
                 [] ins.op \in {"imove", "amove"} -> regs[ins.a]
                 [] ins.op = "i2b" -> intVal(I2b(n))
                 [] ins.op = "ineg" -> intVal(Wrap(-n))
                 [] ins.op = "icmp" -> intVal(Icmp(n, regs[ins.b][2]))
                 [] ins.op = "ixor" -> intVal(Ixor(n, regs[ins.b][2])))

Putfield(P, c, ins) ==
    LET regs == Top(c).regs
        o == regs[ins.a][2]
        fields == IF o \in DOMAIN c.heap.inst THEN c.heap.inst[o] ELSE <<>>
        stored == (o :> ((ins.imm :> regs[ins.b]) @@ fields)) @@ c.heap.inst
    IN  IF isNull(regs[ins.a]) THEN throwException(P, c, NullPointer)
        ELSE IF ins.imm = UnresolvedField \/ isArray(c.heap, o)
        THEN throwException(P, c, InternalError)
        ELSE WithTop([c EXCEPT !.heap.inst = stored], Advance(Top(c)))

\* arrayLoad and arrayStore: null, bounds, then the element; dst is read by a
\* store.
Elements(P, c, ins) ==
    LET f == Top(c)
        arr == f.regs[ins.a]
        i == f.regs[ins.b][2]
    IN  IF isNull(arr) THEN throwException(P, c, NullPointer)
        ELSE IF i \notin 0 .. arrayLength(c.heap, arr[2]) - 1
        THEN throwException(P, c, ArrayIndex)
        ELSE IF ins.op = "iaload" THEN SetDst(c, ins.dst, c.heap.arr[arr[2]][i + 1])
        ELSE WithTop([c EXCEPT !.heap.arr[arr[2]][i + 1] = f.regs[ins.dst]], Advance(f))

Newarray(P, c, ins) ==
    LET len == Top(c).regs[ins.a][2]
        heap == Allocated(c.heap)
        elems == [i \in 1 .. len |-> intVal(0)]
    IN  IF len < 0 THEN throwException(P, c, NegativeArraySize)
        ELSE SetDst([c EXCEPT !.heap = [heap EXCEPT !.arr = @ @@ (Fresh(c.heap) :> elems)]],
                    ins.dst, refVal(Fresh(c.heap)))

New(P, c, ins) ==
    IF needsInit(P, c.heap) THEN pushClinit(P, c)
    ELSE SetDst([c EXCEPT !.heap = Allocated(@)], ins.dst, refVal(Fresh(c.heap)))

\* The dimensions are in registers a .. a + b - 1; a register past the end
\* counts as 0.
Multianewarray(P, c, ins) ==
    LET regs == Top(c).regs
    IN  IF ins.b = 0 THEN throwException(P, c, InternalError)
        ELSE IF \E r \in (ins.a .. ins.a + ins.b - 1) \cap DOMAIN regs : regs[r][2] < 0
        THEN throwException(P, c, NegativeArraySize)
        ELSE SetDst(c, ins.dst, refVal(Array))

\* Builtin statics first, then resolution, then class initialization.
Getstatic(P, c, ins) ==
    LET v == c.heap.stat[ins.imm]
    IN  IF ins.imm = BuiltinField THEN SetDst(c, ins.dst, refVal(SystemOut))
        ELSE IF ins.imm = UnresolvedField THEN throwException(P, c, InternalError)
        ELSE IF needsInit(P, c.heap) THEN pushClinit(P, c)
        ELSE SetDst(c, ins.dst, IF v = bottom THEN zeroOfField(FieldType(ins.imm)) ELSE v)

Putstatic(P, c, ins) ==
    IF ins.imm \in {BuiltinField, UnresolvedField} THEN throwException(P, c, InternalError)
    ELSE IF needsInit(P, c.heap) THEN pushClinit(P, c)
    ELSE WithTop([c EXCEPT !.heap.stat[ins.imm] = Top(c).regs[ins.dst]], Advance(Top(c)))

Monitorenter(P, c, ins) ==
    LET f == Top(c)
        v == f.regs[ins.a]
    IN  IF isNull(v) \/ v[2] \notin DOMAIN c.heap.mon THEN throwException(P, c, NullPointer)
        ELSE WithTop([c EXCEPT !.heap = monitorenter(@, v[2])],
                     Advance([f EXCEPT !.mons = <<v[2]>> \o @]))

Monitorexit(P, c, ins) ==
    LET f == Top(c)
        v == f.regs[ins.a]
    IN  IF isNull(v) \/ v[2] \notin DOMAIN c.heap.mon THEN throwException(P, c, NullPointer)
        ELSE IF c.heap.mon[v[2]] = 0 THEN throwException(P, c, IllegalMonitor)
        ELSE WithTop([c EXCEPT !.heap = monitorexit(@, v[2])],
                     Advance([f EXCEPT !.mons = Unrecord(@, v[2])]))

\* The registers a .. a + b - 1 as a sequence.
ArgsOf(regs, ins) == [i \in 1 .. ins.b |-> regs[ins.a + i - 1]]

pushCall(P, c, ins) ==
    IF P.methods[ins.imm].abstract THEN throwException(P, c, NoSuchMethod)
    ELSE IF Len(c.frames) >= MaxFrames THEN throwException(P, c, StackOverflow)
    ELSE [c EXCEPT !.frames = Append(@, Frame(P, ins.imm, ArgsOf(Top(c).regs, ins)))]

\* Resolution, class initialization, then pushCall.
Invokestatic(P, c, ins) ==
    IF ins.imm \notin DOMAIN P.methods THEN throwException(P, c, NoSuchMethod)
    ELSE IF needsInit(P, c.heap) THEN pushClinit(P, c)
    ELSE pushCall(P, c, ins)

\* invokevirtual and invokespecial: the receiver's null check comes first, then
\* (virtual only) the builtin probe; what println writes is not part of c.
InvokeOn(P, c, ins) ==
    LET recv == Top(c).regs[ins.a]
    IN  IF isNull(recv) THEN throwException(P, c, NullPointer)
        ELSE IF ins.op = "invokevirtual" /\ ins.imm = Println /\ recv[2] = SystemOut
        THEN WithTop(c, Advance(Top(c)))
        ELSE IF ins.imm \notin DOMAIN P.methods THEN throwException(P, c, NoSuchMethod)
        ELSE pushCall(P, c, ins)

\* The caller sits at its invoke; after <clinit> it executes it again.
Return(P, c, ins) ==
    LET f == Top(c)
        v == IF ins.op = "return" THEN bottom ELSE f.regs[ins.a]
        rest == Front(c.frames)
        caller == Last(rest)
        gets == ins.op # "return" /\ parseReturn(P.methods[f.m].ret) # "Bottom"
        call == At(P.methods[caller.m], caller.pc)
        given == IF gets THEN SetReg(caller, call.dst, v) ELSE caller
        heap == Release(c.heap, f.mons)
    IN  IF rest = <<>> THEN [frames |-> <<>>, heap |-> heap, out |-> Returned(v)]
        ELSE [frames |-> Append(Front(rest), IF f.m = P.clinit THEN given ELSE Advance(given)),
              heap |-> heap, out |-> Running]

Athrow(P, c, ins) ==
    LET v == Top(c).regs[ins.a]
    IN  throwException(P, c, IF isNull(v) THEN NullPointer ELSE v[2])

T0Step(P, c) ==
    LET ins == At(P.methods[Top(c).m], Top(c).pc)
    IN  CASE ins.op \in {"aconst_null", "iconst", "iinc", "iadd", "idiv"} -> Arith(P, c, ins)
          [] isBranchSig(ins.op) \/ Sig(ins.op) = "RegCpBranch" -> Branch(c, ins)
          [] ins.op \in {"ldc", "imove", "amove", "i2b", "ineg", "icmp", "ixor"} -> Moves(P, c, ins)
          [] ins.op = "putfield" -> Putfield(P, c, ins)
          [] ins.op \in {"iaload", "iastore"} -> Elements(P, c, ins)
          [] ins.op = "newarray" -> Newarray(P, c, ins)
          [] ins.op = "new" -> New(P, c, ins)
          [] ins.op \in {"invokevirtual", "invokespecial"} -> InvokeOn(P, c, ins)
          [] ins.op = "getfield" -> Getfield(P, c, ins)
          [] ins.op = "arraylength" -> Arraylength(P, c, ins)
          [] ins.op = "getstatic" -> Getstatic(P, c, ins)
          [] ins.op = "putstatic" -> Putstatic(P, c, ins)
          [] ins.op = "multianewarray" -> Multianewarray(P, c, ins)
          [] ins.op = "monitorenter" -> Monitorenter(P, c, ins)
          [] ins.op = "monitorexit" -> Monitorexit(P, c, ins)
          [] ins.op = "invokestatic" -> Invokestatic(P, c, ins)
          [] isReturnOp(ins.op) -> Return(P, c, ins)
          [] ins.op = "athrow" -> Athrow(P, c, ins)
          [] OTHER -> Locally(c, ins)

----
(* Entering the interpreter.                                               *)

\* run(): arity check, then the monitor of a synchronized static entry.
T0Run(P) ==
    LET m == P.methods[P.entry]
        f == Frame(P, P.entry, P.args)
    IN  IF P.entry \notin DOMAIN P.methods
        THEN [frames |-> <<>>, heap |-> Heap0, out |-> Threw(NoSuchMethod)]
        ELSE IF Len(P.args) < Len(m.params)
        THEN [frames |-> <<>>, heap |-> Heap0, out |-> Threw(InternalError)]
        ELSE IF m.sync
        THEN [frames |-> <<[f EXCEPT !.mons = <<ClassObject>>]>>,
              heap |-> monitorenter(Heap0, ClassObject), out |-> Running]
        ELSE [frames |-> <<f>>, heap |-> Heap0, out |-> Running]

\* resume(): one reconstructed frame; a pending exception (0 = none) starts
\* inside the exception algorithm.
T0Resume(P, heap, f, pending) ==
    LET c == [frames |-> <<f>>, heap |-> heap, out |-> Running]
    IN  IF pending = 0 THEN c ELSE throwException(P, c, pending)
====
