------------------------------- MODULE Interp -------------------------------
(***************************************************************************)
(* The T0 interpreter (compiler/interp/src/Interp.cpp): the frame stack,   *)
(* calls and returns, exception dispatch, monitors, class initialization,  *)
(* inline caches and the dispatch profile, under a client that calls run() *)
(* and resume() one after the other on the same Interpreter.               *)
(*                                                                         *)
(* One action retires one instruction of the top frame, whole.  Values are *)
(* tags and references (module Runtime), so what depends on the payload of *)
(* a primitive (a branch on an int, a zero divisor, an index or a length)  *)
(* is a free choice.  The program is one the verifier accepts: run() and   *)
(* resume() reject any other before they touch the state.                  *)
(***************************************************************************)
EXTENDS Runtime

CONSTANTS
    MaxFrames,           \* InterpConfig::maxFrames
    MaxProfileEntries,   \* kMaxDispatchProfileEntries
    MaxArrayLength,      \* bound on the length of an allocated array
    MaxRuns,             \* bound on calls of run() and resume()
    ResumeFrames         \* the frames a tier hands to resume()

VARIABLES
    rt,                  \* Interpreter::rt_
    frames,              \* Interpreter::frames_, the top frame last
    siteICs,             \* (MethodId, site) -> [x, y], the valid entries
    dispatchProfiles,    \* (MethodId, site) -> histogram, the recorded ones
    status,              \* idle, running, or the RunStatus of the last call
    result,              \* RunResult::result, or the uncaught exception
    runs                 \* calls of run() and resume() so far

vars == <<rt, frames, siteICs, dispatchProfiles, status, result, runs>>
caches == <<siteICs, dispatchProfiles>>

----------------------------------------------------------------------------
(* The program. *)

(* Opcode families.  A producer is an opcode that writes a primitive of the *)
(* type ins.type to dst: the constants, the arithmetic, the conversions and *)
(* comparisons.                                                             *)
VirtualOps == {"invokevirtual", "invokeinterface",
               "invokevirtual_quick", "invokeinterface_quick"}
QuickVirtualOps == {"invokevirtual_quick", "invokeinterface_quick"}
InvokeOps == VirtualOps \cup {"invokespecial", "invokespecial_quick",
                              "invokestatic", "invokestatic_quick"}
TriggerOps == {"new", "getstatic", "putstatic", "ldc", "invokestatic",
               "invokestatic_quick"}
NoFallThrough == {"goto", "switch", "return", "xreturn", "athrow",
                  "deopt_trap"}

CodeOf(m) == Methods[m].code

(* What the bytecode verifier guarantees and the actions rely on. *)
TargetsOf(i) == IF i.op \in {"goto", "if_int", "if_null", "if_acmp"} THEN {i.imm}
                ELSE IF i.op = "switch" THEN i.targets ELSE {}

WellFormed(m) ==
    LET code == CodeOf(m)
        reg == 0 .. Methods[m].numRegs - 1
    IN  /\ 0 \in DOMAIN code /\ DOMAIN code \subseteq Nat
        /\ \A pc \in DOMAIN code :
             LET i == code[pc] IN
             /\ i.op \notin NoFallThrough => pc + 1 \in DOMAIN code
             /\ TargetsOf(i) \subseteq DOMAIN code
             /\ i.op \in {"load", "store"} => i.imm \in 0 .. Methods[m].numLocals - 1
             /\ i.op \in InvokeOps => \A k \in 0 .. i.b - 1 : i.a + k \in reg
        /\ \A h \in DOMAIN Methods[m].handlers :
             Methods[m].handlers[h].handler \in DOMAIN code

ASSUME ProgramAssumption ==
    /\ DOMAIN Methods \subseteq Nat
    /\ \A m \in DOMAIN Methods : ~Methods[m].abstract => WellFormed(m)
    /\ \A m, n \in DOMAIN Methods : Methods[m].name = Methods[n].name => m = n

(* The fields of Frame.h. *)
IsFrame(f) ==
    f = [method |-> f.method, pc |-> f.pc, locals |-> f.locals, regs |-> f.regs,
         monitors |-> f.monitors, callerPc |-> f.callerPc]

ASSUME ResumeAssumption == \A f \in ResumeFrames : IsFrame(f)

ASSUME BoundAssumption ==
    /\ MaxFrames \in Nat \ {0}
    /\ {MaxCount, MaxProfileEntries, MaxArrayLength, MaxRuns} \subseteq Nat

----------------------------------------------------------------------------
(* Frames. *)

NewFrame(m, locals, callerPc) ==
    [method |-> m, pc |-> 0, locals |-> locals,
     regs |-> [i \in 0 .. Methods[m].numRegs - 1 |-> Bottom],
     monitors |-> <<>>, callerPc |-> callerPc]

(* args in order, padded with Bottom to the callee's numLocals *)
Locals(m, args) ==
    LET n == IF Len(args) < Methods[m].numLocals THEN Methods[m].numLocals
                                                 ELSE Len(args)
    IN  [i \in 0 .. n - 1 |-> IF i < Len(args) THEN args[i + 1] ELSE Bottom]

top == frames[Len(frames)]
ins == CodeOf(top.method)[top.pc]
cp == Methods[top.method].cp[ins.imm]
reg(r) == top.regs[r]

At(ops) == status = "running" /\ ins.op \in ops

(* An instruction that ends in its own frame, in frame f and Runtime r. *)
Step(f, r) ==
    /\ frames' = [frames EXCEPT ![Len(frames)] = f]
    /\ rt' = r
    /\ UNCHANGED <<status, result, runs>>

(* ... falling through, or falling through with v in dst *)
Advance(r) == Step([top EXCEPT !.pc = @ + 1], r)
Write(v, r) == Step([top EXCEPT !.regs[ins.dst] = v, !.pc = @ + 1], r)

----------------------------------------------------------------------------
(* Exceptions. *)

(* The monitor records of the frames above k, as <<frame, position>> pairs, *)
(* and how many of them are for object o.                                   *)
Records(fs, k) == UNION {{i} \X DOMAIN fs[i].monitors : i \in k + 1 .. Len(fs)}
RecordsOf(fs, k, o) == {p \in Records(fs, k) : fs[p[1]].monitors[p[2]] = o}

(* Mutant: a popped frame keeps its monitors. *)
ReleaseNothing(r, fs, k) == r

(* releaseMonitorsLIFO on every frame of fs above k. *)
releaseMonitors(r, fs, k) ==
    ReleaseAll(r, [o \in DOMAIN r.objs |-> Cardinality(RecordsOf(fs, k, o))])

(* Handlers of frame f that cover its pc and catch class cls. *)
AnyClass == <<>>
Catching(f, cls) ==
    {h \in DOMAIN Methods[f.method].handlers :
        LET e == Methods[f.method].handlers[h] IN
        /\ e.start <= f.pc /\ f.pc < e.end
        /\ e.catch = AnyClass \/ isAssignableFrom(e.catch, cls)}

(* Handler entry: every register dies, r0 carries the exception. *)
EnterHandler(f, h, exc) ==
    [f EXCEPT !.pc = Methods[f.method].handlers[h].handler,
              !.regs = [i \in DOMAIN f.regs |->
                          IF i = 0 THEN RefVal(exc) ELSE Bottom]]

(* Innermost frame first, table order within a frame; hs[i] is the set of   *)
(* handlers of frame i that catch exc.                                      *)
Caught(r, exc, hs) ==
    \E k \in DOMAIN frames : \E h \in hs[k] :
        /\ \A j \in hs[k] : h <= j
        /\ \A i \in k + 1 .. Len(frames) : hs[i] = {}
        /\ frames' = [SubSeq(frames, 1, k) EXCEPT ![k] = EnterHandler(@, h, exc)]
        /\ rt' = releaseMonitors(r, frames, k)
        /\ UNCHANGED <<status, result, runs>>

Uncaught(r, exc, hs) ==
    /\ \A i \in DOMAIN frames : hs[i] = {}
    /\ frames' = <<>>
    /\ rt' = releaseMonitors(r, frames, 0)
    /\ status' = "Threw" /\ result' = RefVal(exc)
    /\ UNCHANGED runs

throwException(r, exc) ==
    \E hs \in {[i \in DOMAIN frames |-> Catching(frames[i], classOf(r, exc))]} :
        Caught(r, exc, hs) \/ Uncaught(r, exc, hs)

raise(r, name) ==
    \E e \in {makeException(r, name)} : throwException(e.rt, e.obj)

----------------------------------------------------------------------------
(* Calls. *)

push(r, f) ==
    /\ frames' = Append(frames, f)
    /\ rt' = bumpInvocations(r, f.method)
    /\ UNCHANGED <<status, result, runs>>

(* Mutant: the limit is checked one frame late. *)
PushOrOverflowLate(r, f) ==
    \/ Len(frames) > MaxFrames /\ raise(r, "StackOverflowError")
    \/ Len(frames) <= MaxFrames /\ push(r, f)

pushOrOverflow(r, f) ==
    \/ Len(frames) >= MaxFrames /\ raise(r, "StackOverflowError")
    \/ Len(frames) < MaxFrames /\ push(r, f)

(* The class is marked before <clinit> is looked up. *)
pushClinit(r, cls) ==
    LET marked == markInitialized(r)
    IN  pushOrOverflow(marked, NewFrame(findClinit(marked, cls), <<>>, top.pc))

pushCall(target) ==
    LET args == [k \in 1 .. ins.b |-> reg(ins.a + k - 1)]
    IN  \/ Methods[target].abstract /\ raise(rt, "NoSuchMethodError")
        \/ /\ ~Methods[target].abstract
           /\ pushOrOverflow(rt, NewFrame(target, Locals(target, args), top.pc))

(* An instruction that uses class cls, in Runtime r, runs <clinit> first. *)
FirstUse(r, cls) == needsInit(r, cls) /\ pushClinit(r, cls)
Ready(r, cls) == ~needsInit(r, cls)

----------------------------------------------------------------------------
(* Inline caches and the dispatch profile. *)

fillSiteIC(site, x, y) == siteICs' = (site :> [x |-> x, y |-> y]) @@ siteICs

NoClass == <<>>    \* kDispatchNoRecvClass
NoTarget == -1     \* kDispatchNoTarget

ProfileAt(site) ==
    IF site \in DOMAIN dispatchProfiles
    THEN dispatchProfiles[site]
    ELSE [kind |-> "Virtual", megamorphic |-> FALSE, count |-> 0, entries |-> <<>>]

(* The entry a dispatch falls in: the first one for a static target, else   *)
(* the receiver class's, else the next free one.                            *)
EntryFor(p, recv) ==
    LET seen == {i \in DOMAIN p.entries : p.entries[i].recv = recv} IN
    IF recv = NoClass THEN 1
    ELSE IF seen # {} THEN CHOOSE i \in seen : TRUE ELSE Len(p.entries) + 1

(* Mutant: the histogram has no limit. *)
ObservedUnbounded(p, recv, target) ==
    LET n == EntryFor(p, recv) IN
    IF n \in DOMAIN p.entries
    THEN [p.entries EXCEPT ![n].count = Saturating(@)]
    ELSE Append(p.entries, [recv |-> recv, target |-> target, count |-> 1])

Observed(p, recv, target) ==
    LET n == EntryFor(p, recv) IN
    IF target = NoTarget \/ (recv # NoClass /\ (p.megamorphic \/ n > MaxProfileEntries))
    THEN p.entries
    ELSE IF n \in DOMAIN p.entries
    THEN [p.entries EXCEPT ![n] = [recv |-> recv, target |-> target,
                                   count |-> Saturating(@.count)]]
    ELSE Append(p.entries, [recv |-> recv, target |-> target, count |-> 1])

Recorded(p, kind, recv, target) ==
    [kind |-> kind,
     megamorphic |-> p.megamorphic \/ (recv # NoClass /\ EntryFor(p, recv) > MaxProfileEntries),
     count |-> Saturating(p.count),
     entries |-> Observed(p, recv, target)]

(* Every invoke records after pushCall unless the call unwound the stack. *)
recordDispatch(site, kind, recv, target) ==
    \/ frames' = <<>> /\ UNCHANGED dispatchProfiles
    \/ /\ frames' # <<>>
       /\ \E p \in {ProfileAt(site)} :
            dispatchProfiles' = (site :> Recorded(p, kind, recv, target)) @@ dispatchProfiles

----------------------------------------------------------------------------
(* Constants, locals, registers, arithmetic, branches. *)

(* nop, safepoint_poll and the guards only advance. *)
Nop == At({"nop", "safepoint_poll", "guard"}) /\ Advance(rt) /\ UNCHANGED caches

Produce == At({"produce"}) /\ Write(zeroOf(ins.type), rt) /\ UNCHANGED caches

(* idiv, irem, ldiv, lrem *)
Divide ==
    /\ At({"divide"})
    /\ Write(Prim(ins.type), rt) \/ raise(rt, "ArithmeticException")
    /\ UNCHANGED caches

Ldc ==
    /\ At({"ldc"})
    /\ \/ /\ cp.kind = "String"
          /\ LET s == internString(rt, cp.name) IN Write(RefVal(s.obj), s.rt)
       \/ /\ cp.kind = "Class"
          /\ LET c == classObject(rt, cp.cls)
             IN  \/ FirstUse(rt, cp.cls)
                 \/ Ready(rt, cp.cls) /\ Write(RefVal(c.obj), c.rt)
       \/ /\ cp.kind \in {"MethodType", "MethodHandle"}
          /\ raise(rt, "InternalError")
    /\ UNCHANGED caches

(* Outside DOMAIN top.locals the access is undefined (see LocalsSized). *)
Load == At({"load"}) /\ Write(top.locals[ins.imm], rt) /\ UNCHANGED caches

Store ==
    /\ At({"store"})
    /\ Step([top EXCEPT !.locals[ins.imm] = reg(ins.a), !.pc = @ + 1], rt)
    /\ UNCHANGED caches

Move == At({"move"}) /\ Write(reg(ins.a), rt) /\ UNCHANGED caches

Jump(pc) ==
    Step([top EXCEPT !.pc = pc],
         IF pc < top.pc THEN bumpBackedge(rt, top.method) ELSE rt)

sameObject(v, w) == (isNull(v) /\ isNull(w)) \/ (v.type = "Ref" /\ v = w)

(* The outcomes of a branch: an int comparison may go either way; ins.sense *)
(* tells ifnull from ifnonnull and if_acmpeq from if_acmpne.                *)
Taken ==
    CASE ins.op = "goto" -> {TRUE}
      [] ins.op = "if_int" -> BOOLEAN
      [] ins.op = "if_null" -> {isNull(reg(ins.a)) = ins.sense}
      [] ins.op = "if_acmp" -> {sameObject(reg(ins.a), reg(ins.b)) = ins.sense}

Branch ==
    /\ At({"goto", "if_int", "if_null", "if_acmp"})
    /\ \/ TRUE \in Taken /\ Jump(ins.imm)
       \/ FALSE \in Taken /\ Advance(rt)
    /\ UNCHANGED caches

Switch == At({"switch"}) /\ (\E pc \in ins.targets : Jump(pc)) /\ UNCHANGED caches

----------------------------------------------------------------------------
(* Fields and statics. *)

(* A field site takes its slot from its inline cache, or resolves the field *)
(* and fills the cache.                                                     *)
FieldSite == <<top.method, top.pc>>
FieldRt == IF FieldSite \in DOMAIN siteICs THEN rt ELSE resolveField(rt, cp)
FieldSlot == IF FieldSite \in DOMAIN siteICs THEN siteICs[FieldSite].x
                                             ELSE SlotOf(FieldRt, cp)
cacheField ==
    \/ FieldSite \in DOMAIN siteICs /\ UNCHANGED siteICs
    \/ FieldSite \notin DOMAIN siteICs /\ fillSiteIC(FieldSite, FieldSlot, cp.cls)

(* An unwritten field reads as the zero of its declared type. *)
GetSlot(slot, r) ==
    LET o == reg(ins.a).obj
        v == loadField(r, o, slot)
    IN  \/ v # Bottom /\ Write(v, r)
        \/ v = Bottom /\ ~isInstance(r, o) /\ raise(r, "InternalError")
        \/ v = Bottom /\ isInstance(r, o) /\ Write(zeroOf(cp.type), resolveField(r, cp))

PutSlot(slot, r) ==
    LET o == reg(ins.a).obj
    IN  \/ ~isInstance(r, o) /\ raise(r, "InternalError")
        \/ isInstance(r, o) /\ Advance(storeField(r, o, slot, reg(ins.b)))

Getfield ==
    /\ At({"getfield"})
    /\ \/ isNull(reg(ins.a)) /\ raise(rt, "NullPointerException") /\ UNCHANGED siteICs
       \/ ~isNull(reg(ins.a)) /\ cacheField /\ GetSlot(FieldSlot, FieldRt)
    /\ UNCHANGED dispatchProfiles

Putfield ==
    /\ At({"putfield"})
    /\ \/ isNull(reg(ins.a)) /\ raise(rt, "NullPointerException") /\ UNCHANGED siteICs
       \/ ~isNull(reg(ins.a)) /\ cacheField /\ PutSlot(FieldSlot, FieldRt)
    /\ UNCHANGED dispatchProfiles

(* imm is the slot (offset / 16); an unwritten slot has no type to zero. *)
GetfieldQuick ==
    /\ At({"getfield_quick"})
    /\ LET v == loadField(rt, reg(ins.a).obj, ins.imm)
       IN  \/ isNull(reg(ins.a)) /\ raise(rt, "NullPointerException")
           \/ ~isNull(reg(ins.a)) /\ v = Bottom /\ raise(rt, "InternalError")
           \/ ~isNull(reg(ins.a)) /\ v # Bottom /\ Write(v, rt)
    /\ UNCHANGED caches

PutfieldQuick ==
    /\ At({"putfield_quick"})
    /\ \/ isNull(reg(ins.a)) /\ raise(rt, "NullPointerException")
       \/ ~isNull(reg(ins.a)) /\ PutSlot(ins.imm, rt)
    /\ UNCHANGED caches

Getstatic ==
    /\ At({"getstatic"})
    /\ LET r == resolveField(rt, cp)
           v == loadStatic(r, cp)
       IN  \/ \E o \in builtinStatic(cp) : Write(RefVal(o), rt)
           \/ /\ builtinStatic(cp) = {}
              /\ \/ FirstUse(r, cp.cls)
                 \/ /\ Ready(r, cp.cls)
                    /\ Write(IF v = Bottom THEN zeroOf(cp.type) ELSE v, r)
    /\ UNCHANGED caches

(* dst is read: it holds the value to store. *)
Putstatic ==
    /\ At({"putstatic"})
    /\ LET r == resolveField(rt, cp)
       IN  \/ builtinStatic(cp) # {} /\ raise(rt, "InternalError")
           \/ /\ builtinStatic(cp) = {}
              /\ \/ FirstUse(r, cp.cls)
                 \/ Ready(r, cp.cls) /\ Advance(storeStatic(r, cp, reg(ins.dst)))
    /\ UNCHANGED caches

----------------------------------------------------------------------------
(* Arrays. *)

Length == 0 .. MaxArrayLength

NewArray ==
    /\ At({"newarray", "anewarray"})
    /\ \/ raise(rt, "NegativeArraySizeException")
       \/ \E n \in Length :
            LET a == IF ins.op = "newarray"
                     THEN allocArray(rt, <<"[", ins.type>>, ins.type, n)
                     ELSE newRefArray(rt, cp.cls, n)
            IN  Write(RefVal(a.obj), a.rt)
    /\ UNCHANGED caches

(* With one dimension given, the inner arrays have length 0. *)
Multianewarray ==
    /\ At({"multianewarray"})
    /\ \/ ins.b = 0 /\ raise(rt, "InternalError")
       \/ ins.b > 0 /\ raise(rt, "NegativeArraySizeException")
       \/ \E n \in Length, m \in IF ins.b > 1 THEN Length ELSE {0} :
            LET a == newMultiArray(rt, cp.cls, cp.type, n, m)
            IN  ins.b > 0 /\ Write(RefVal(a.obj), a.rt)
    /\ UNCHANGED caches

Arraylength ==
    /\ At({"arraylength"})
    /\ \/ isNull(reg(ins.a)) /\ raise(rt, "NullPointerException")
       \/ /\ ~isNull(reg(ins.a)) /\ ~isArray(rt, reg(ins.a).obj)
          /\ raise(rt, "InternalError")
       \/ isArray(rt, reg(ins.a).obj) /\ Write(Prim("Int"), rt)
    /\ UNCHANGED caches

(* Every element access traps on null and out of bounds. *)
ElementTrap ==
    \/ isNull(reg(ins.a)) /\ raise(rt, "NullPointerException")
    \/ ~isNull(reg(ins.a)) /\ raise(rt, "ArrayIndexOutOfBoundsException")

Indices == 0 .. arrayLength(rt, reg(ins.a).obj) - 1

ArrayLoad ==
    /\ At({"xaload"})
    /\ \/ ElementTrap
       \/ \E i \in Indices :
            LET v == loadElem(rt, reg(ins.a).obj, i)
            IN  \/ v # Bottom /\ Write(v, rt)
                \/ v = Bottom /\ raise(rt, "InternalError")
    /\ UNCHANGED caches

(* dst is read: it holds the element to store. *)
PutElem(i, v) == Advance(storeElem(rt, reg(ins.a).obj, i, v))

(* bastore, castore and sastore narrow the value, whatever its tag, to Int; *)
(* ins.sense tells them from the stores that do not.                        *)
ArrayStore ==
    /\ At({"xastore"})
    /\ \/ ElementTrap
       \/ \E i \in Indices :
            PutElem(i, IF ins.sense THEN reg(ins.dst) ELSE Prim("Int"))
    /\ UNCHANGED caches

(* Mutant: no store is rejected. *)
StorableAny(o, cls) == TRUE

(* May a value of class cls be stored in array o of references? *)
Storable(o, cls) ==
    LET elem == Tail(classOf(rt, o))
    IN  IF isArrayClass(elem) THEN cls = elem ELSE isAssignableFrom(elem, cls)

Aastore ==
    /\ At({"aastore"})
    /\ LET a == reg(ins.a).obj
           v == reg(ins.dst)
       IN  \/ ElementTrap
           \/ \E i \in Indices :
                \/ isNull(v) /\ PutElem(i, v)
                \/ ~isNull(v) /\ rt.objs[a].elem # "Ref" /\ raise(rt, "InternalError")
                \/ /\ ~isNull(v) /\ rt.objs[a].elem = "Ref"
                   /\ \/ Storable(a, classOf(rt, v.obj)) /\ PutElem(i, v)
                      \/ /\ ~Storable(a, classOf(rt, v.obj))
                         /\ raise(rt, "ArrayStoreException")
    /\ UNCHANGED caches
----------------------------------------------------------------------------
(* Objects and monitors. *)

New ==
    /\ At({"new"})
    /\ LET a == allocInstance(rt, cp.cls)
       IN  \/ FirstUse(rt, cp.cls)
           \/ Ready(rt, cp.cls) /\ Write(RefVal(a.obj), a.rt)
    /\ UNCHANGED caches

Checkcast ==
    /\ At({"checkcast"})
    /\ LET v == reg(ins.a)
           ok == isNull(v) \/ isAssignableFrom(cp.cls, classOf(rt, v.obj))
       IN  \/ ok /\ Write(v, rt)
           \/ ~ok /\ raise(rt, "ClassCastException")
    /\ UNCHANGED caches

Instanceof == At({"instanceof"}) /\ Write(Prim("Int"), rt) /\ UNCHANGED caches

(* The record goes to the front of the frame's list; a reference to no      *)
(* object is null to the heap.                                              *)
Monitorenter ==
    /\ At({"monitorenter"})
    /\ LET v == reg(ins.a)
           null == isNull(v) \/ ~Live(rt, v.obj)
       IN  \/ null /\ raise(rt, "NullPointerException")
           \/ /\ ~null
              /\ Step([top EXCEPT !.monitors = <<v.obj>> \o @, !.pc = @ + 1],
                      monitorenter(rt, v.obj))
    /\ UNCHANGED caches

(* Only the exiting frame's own list is searched for the record. *)
Without(s, o) ==
    LET at == {i \in DOMAIN s : s[i] = o}
        first == CHOOSE i \in at : \A j \in at : i <= j
    IN  IF at = {} THEN s
        ELSE SubSeq(s, 1, first - 1) \o SubSeq(s, first + 1, Len(s))

Monitorexit ==
    /\ At({"monitorexit"})
    /\ LET v == reg(ins.a)
           null == isNull(v) \/ ~Live(rt, v.obj)
       IN  \/ null /\ raise(rt, "NullPointerException")
           \/ ~null /\ ~Owned(rt, v.obj) /\ raise(rt, "IllegalMonitorStateException")
           \/ /\ ~null /\ Owned(rt, v.obj)
              /\ Step([top EXCEPT !.monitors = Without(@, v.obj), !.pc = @ + 1],
                      monitorexit(rt, v.obj))
    /\ UNCHANGED caches

----------------------------------------------------------------------------
(* Calls, returns, athrow. *)

(* The builtin println and print take at most one value argument. *)
execBuiltin(site, kind) ==
    \/ /\ ins.b \in 1 .. 2
       /\ Advance(rt)
       /\ recordDispatch(site, kind, NoClass, NoTarget)
    \/ /\ ins.b \notin 1 .. 2
       /\ raise(rt, "InternalError")
       /\ UNCHANGED dispatchProfiles

(* Cache miss: builtin probe, then resolution, then fill and call. *)
VirtualMiss(site, kind, cls, ref) ==
    \/ /\ lookupBuiltinVirtual(cls, ref)
       /\ execBuiltin(site, kind)
       /\ UNCHANGED siteICs
    \/ /\ ~lookupBuiltinVirtual(cls, ref) /\ resolveMethod(ref) = {}
       /\ raise(rt, "NoSuchMethodError")
       /\ UNCHANGED caches
    \/ /\ ~lookupBuiltinVirtual(cls, ref)
       /\ \E m \in resolveMethod(ref) :
            /\ fillSiteIC(site, m, cls)
            /\ pushCall(m)
            /\ recordDispatch(site, kind, cls, m)

(* The quickened forms use imm both as the cache's site and, on a miss, as  *)
(* the pool index.                                                          *)
SiteOf(m, pc) ==
    LET i == CodeOf(m)[pc] IN <<m, IF i.op \in QuickVirtualOps THEN i.imm ELSE pc>>

ColdQuick ==
    /\ ins.op \in QuickVirtualOps
    /\ ins.imm \in DOMAIN Methods[top.method].cp => cp.kind # "MethodRef"

Invokevirtual ==
    /\ At(VirtualOps)
    /\ LET recv == reg(ins.a)
           cls == classOf(rt, recv.obj)
           site == SiteOf(top.method, top.pc)
           kind == IF ins.op \in {"invokevirtual", "invokevirtual_quick"}
                   THEN "Virtual" ELSE "Interface"
           badSite == site[2] \notin DOMAIN CodeOf(top.method)
           hit == site \in DOMAIN siteICs
       IN  \/ isNull(recv) /\ raise(rt, "NullPointerException") /\ UNCHANGED caches
           \/ /\ ~isNull(recv) /\ (badSite \/ (~hit /\ ColdQuick))
              /\ raise(rt, "InternalError") /\ UNCHANGED caches
           \/ /\ ~isNull(recv) /\ hit
              /\ pushCall(siteICs[site].x)
              /\ recordDispatch(site, kind, cls, siteICs[site].x)
              /\ UNCHANGED siteICs
           \/ /\ ~isNull(recv) /\ ~hit /\ ~badSite /\ ~ColdQuick
              /\ VirtualMiss(site, kind, cls, cp)

(* The target of a special or static call: imm names it once quickened. *)
StaticTargets ==
    IF ins.op \in {"invokespecial_quick", "invokestatic_quick"}
    THEN DOMAIN Methods \cap {ins.imm}
    ELSE resolveMethod(cp)

NoTargetError ==
    IF ins.op \in {"invokespecial_quick", "invokestatic_quick"}
    THEN "InternalError" ELSE "NoSuchMethodError"

Invokespecial ==
    /\ At({"invokespecial", "invokespecial_quick"})
    /\ LET null == isNull(reg(ins.a))
       IN  \/ null /\ raise(rt, "NullPointerException") /\ UNCHANGED dispatchProfiles
           \/ /\ ~null /\ StaticTargets = {}
              /\ raise(rt, NoTargetError) /\ UNCHANGED dispatchProfiles
           \/ \E m \in StaticTargets :
                /\ ~null
                /\ pushCall(m)
                /\ recordDispatch(<<top.method, top.pc>>, "Special", NoClass, m)
    /\ UNCHANGED siteICs

(* The target is resolved before the first-use trigger. *)
Invokestatic ==
    /\ At({"invokestatic", "invokestatic_quick"})
    /\ \/ StaticTargets = {} /\ raise(rt, NoTargetError) /\ UNCHANGED dispatchProfiles
       \/ \E m \in StaticTargets :
            \/ FirstUse(rt, ClassName) /\ UNCHANGED dispatchProfiles
            \/ /\ Ready(rt, ClassName)
               /\ pushCall(m)
               /\ recordDispatch(<<top.method, top.pc>>, "Static", NoClass, m)
    /\ UNCHANGED siteICs

Unsupported ==
    /\ At({"invokedynamic", "deopt_trap"})
    /\ raise(rt, IF ins.op = "invokedynamic" THEN "BootstrapMethodError"
                                             ELSE "InternalError")
    /\ UNCHANGED caches

Athrow ==
    /\ At({"athrow"})
    /\ \/ isNull(reg(ins.a)) /\ raise(rt, "NullPointerException")
       \/ ~isNull(reg(ins.a)) /\ throwException(rt, reg(ins.a).obj)
    /\ UNCHANGED caches

(* Mutant: the caller is not moved past the call. *)
ResumedInPlace(caller, m, v) == caller

(* The caller's frame after the callee m returned v: a <clinit> leaves the  *)
(* pc at the trigger, any other callee moves it past the call.              *)
Resumed(caller, m, v) ==
    LET call == CodeOf(caller.method)[caller.pc] IN
    [caller EXCEPT
        !.regs = IF /\ ins.op = "xreturn" /\ Methods[m].returns # "Bottom"
                    /\ call.dst \in DOMAIN @
                 THEN [@ EXCEPT ![call.dst] = v] ELSE @,
        !.pc = IF m \in Clinit THEN @ ELSE @ + 1]

Return ==
    /\ At({"return", "xreturn"})
    /\ LET n == Len(frames)
           v == IF ins.op = "return" THEN Bottom ELSE reg(ins.a)
       IN  /\ rt' = releaseMonitors(rt, frames, n - 1)
           /\ \/ /\ n = 1
                 /\ frames' = <<>> /\ status' = "Returned" /\ result' = v
              \/ /\ n > 1
                 /\ frames' = [SubSeq(frames, 1, n - 1) EXCEPT
                                 ![n - 1] = Resumed(@, top.method, v)]
                 /\ UNCHANGED <<status, result>>
    /\ UNCHANGED <<siteICs, dispatchProfiles, runs>>
----------------------------------------------------------------------------
(* The client: run() and resume(). *)

Idle == status # "running" /\ runs < MaxRuns

(* What a client passes for a parameter: any primitive, null or an instance *)
(* of the program class.                                                    *)
ArgsFor(m) ==
    LET params == Methods[m].params
        refs == {NullVal} \cup {RefVal(o) : o \in {o \in DOMAIN rt.objs :
                                                    rt.objs[o].cls = ClassName}}
        of(t) == IF t = "Ref" THEN refs ELSE {Prim(t)}
    IN  {args \in [DOMAIN params -> UNION {of(params[i]) : i \in DOMAIN params}] :
            \A i \in DOMAIN params : args[i] \in of(params[i])}

(* The call ends at once, in Runtime r, with a new exception. *)
Refuse(r, name) ==
    LET e == makeException(r, name) IN
    /\ status' = "Threw" /\ result' = RefVal(e.obj) /\ rt' = e.rt
    /\ frames' = <<>> /\ runs' = runs + 1

(* A method that is not in the program, too few arguments or a resume frame *)
(* that does not fit the program, or an entry method without code.          *)
Refused ==
    /\ Idle
    /\ \/ Refuse(rt, "NoSuchMethodError")
       \/ Refuse(rt, "InternalError")
       \/ \E m \in {m \in DOMAIN Methods : Methods[m].abstract} :
            Refuse(bumpInvocations(rt, m), "InternalError")
    /\ UNCHANGED caches

Start(r, f) ==
    /\ status' = "running" /\ frames' = <<f>> /\ rt' = r
    /\ runs' = runs + 1
    /\ UNCHANGED <<siteICs, dispatchProfiles, result>>

(* A synchronized entry method holds its receiver's, or its class object's, *)
(* monitor before its first instruction.                                    *)
Locked(r, f, lock) ==
    Start(monitorenter(r, lock), [f EXCEPT !.monitors = <<lock>>])

Run ==
    /\ Idle
    /\ \E m \in {m \in DOMAIN Methods : ~Methods[m].abstract} :
       \E args \in ArgsFor(m) :
         LET f == NewFrame(m, Locals(m, args), 0)
             r == bumpInvocations(rt, m)
             c == classObject(r, ClassName)
         IN  \/ ~Methods[m].synchronized /\ Start(r, f)
             \/ Methods[m].synchronized /\ Methods[m].static /\ Locked(c.rt, f, c.obj)
             \/ /\ Methods[m].synchronized /\ ~Methods[m].static
                /\ \/ isNull(args[1]) /\ Refuse(rt, "NullPointerException") /\ UNCHANGED caches
                   \/ ~isNull(args[1]) /\ Locked(r, f, args[1].obj)

(* Mutant: a short frame stays short. *)
PaddedNot(f) == f

(* Locals and registers another tier left out are Bottom. *)
Padded(f) ==
    [f EXCEPT
        !.locals = @ @@ [i \in 0 .. Methods[f.method].numLocals - 1 |-> Bottom],
        !.regs = @ @@ [i \in 0 .. Methods[f.method].numRegs - 1 |-> Bottom]]

(* The frame of another tier, with or without an exception pending in it,   *)
(* which is thrown before the first instruction.                            *)
Resume ==
    /\ Idle
    /\ \E f \in {Padded(g) : g \in ResumeFrames} :
         \/ Start(rt, f)
         \/ \E exc \in {o \in DOMAIN rt.objs :
                          isAssignableFrom(<<"Throwable">>, rt.objs[o].cls)} :
              /\ \/ /\ Catching(f, classOf(rt, exc)) = {}
                    /\ status' = "Threw" /\ result' = RefVal(exc)
                    /\ frames' = <<>> /\ rt' = releaseMonitors(rt, <<f>>, 0)
                 \/ \E h \in Catching(f, classOf(rt, exc)) :
                      /\ \A j \in Catching(f, classOf(rt, exc)) : h <= j
                      /\ status' = "running" /\ UNCHANGED <<result, rt>>
                      /\ frames' = <<EnterHandler(f, h, exc)>>
              /\ runs' = runs + 1
              /\ UNCHANGED caches

----------------------------------------------------------------------------
(* The specification. *)

Init ==
    /\ rt = InitialRuntime
    /\ frames = <<>> /\ siteICs = <<>> /\ dispatchProfiles = <<>>
    /\ status = "idle" /\ result = Bottom /\ runs = 0

Execute ==
    \/ Nop \/ Produce \/ Divide \/ Ldc \/ Load \/ Store \/ Move \/ Branch \/ Switch
    \/ Getfield \/ Putfield \/ GetfieldQuick \/ PutfieldQuick \/ Getstatic \/ Putstatic
    \/ NewArray \/ Multianewarray \/ Arraylength \/ ArrayLoad \/ ArrayStore \/ Aastore
    \/ New \/ Checkcast \/ Instanceof \/ Monitorenter \/ Monitorexit
    \/ Invokevirtual \/ Invokespecial \/ Invokestatic \/ Unsupported \/ Athrow \/ Return

Next == Execute \/ Run \/ Refused \/ Resume

Spec == Init /\ [][Next]_vars

(* dispatchLoop runs until it returns. *)
FairSpec == Spec /\ WF_vars(Execute)
----------------------------------------------------------------------------
(* Properties. *)

Value == {Prim(t) : t \in RType \ {"Ref"}} \cup {RefVal(o) : o \in DOMAIN rt.objs}

Values(f) == \A k \in DOMAIN f : f[k] \in Value

FrameOK(f) ==
    /\ f.method \in DOMAIN Methods /\ ~Methods[f.method].abstract
    /\ f.pc \in DOMAIN CodeOf(f.method) /\ f.callerPc \in Nat
    /\ DOMAIN f.regs = 0 .. Methods[f.method].numRegs - 1
    /\ Values(f.regs) /\ Values(f.locals)
    /\ f.monitors \in Seq(DOMAIN rt.objs)

(* Every frame executes an instruction of a method with code, and every     *)
(* reference in a register, local, field, element or static is an object    *)
(* that exists, null being tagged Null (Value.h).                           *)
TypeOK ==
    /\ \A o \in DOMAIN rt.objs : rt.objs[o].mon \in Nat /\ Values(rt.objs[o].slots)
    /\ Values(rt.statics)
    /\ \A k \in DOMAIN frames : FrameOK(frames[k])
    /\ (status = "running") = (frames # <<>>)
    /\ result \in Value

(* While a callee runs, its caller stays at the invoke or at the first-use  *)
(* trigger, so that exception ranges are checked there and a return resumes *)
(* there; and the stack never exceeds maxFrames (dispatchLoop, pushCall).   *)
StackDiscipline ==
    /\ Len(frames) <= MaxFrames
    /\ \A k \in 2 .. Len(frames) :
         LET caller == frames[k - 1] IN
         /\ frames[k].callerPc = caller.pc
         /\ CodeOf(caller.method)[caller.pc].op \in InvokeOps \cup TriggerOps

(* A held monitor has a record in a live frame for each entry, so that a    *)
(* return or an unwind releases it: whatever way a run ends, with balanced  *)
(* code or not, it leaves no monitor held (releaseMonitorsLIFO).            *)
MonitorsAccounted ==
    \A o \in DOMAIN rt.objs : rt.objs[o].mon <= Cardinality(RecordsOf(frames, 0, o))

(* At most one <clinit> frame was pushed by a first use, and the class is   *)
(* marked while it runs: recursive first use terminates (pushClinit).  No   *)
(* instance of the program class exists and no static of it is written      *)
(* before its initialization was started (initClassIfNeeded).               *)
InitializedOnceBeforeUse ==
    /\ \A j, k \in 2 .. Len(frames) :
         frames[j].method \in Clinit /\ frames[k].method \in Clinit
         => j = k /\ rt.initialized
    /\ \/ \E o \in DOMAIN rt.objs : rt.objs[o].cls = ClassName
       \/ \E k \in DOMAIN rt.statics : k[1] = ClassName
       => rt.initialized \/ Clinit = {}

(* A cached field site holds the slot, and a cached call site the method,   *)
(* that the instruction itself would resolve to: a cache hit does what a    *)
(* miss would (siteICs).                                                    *)
CachesCoherent ==
    \A m \in DOMAIN Methods : \A pc \in DOMAIN CodeOf(m) :
        LET i == CodeOf(m)[pc]
            ref == Methods[m].cp[i.imm]
            x == siteICs[SiteOf(m, pc)].x
        IN  SiteOf(m, pc) \in DOMAIN siteICs =>
              /\ i.op \in {"getfield", "putfield"} =>
                   /\ <<ref.cls, ref.name>> \in DOMAIN rt.fields
                   /\ x = SlotOf(rt, ref)
              /\ i.op \in VirtualOps => resolveMethod(ref) = {x}

(* The receiver histogram of a site has at most the configured number of    *)
(* entries, one per class; it is full once the site is megamorphic; and no  *)
(* entry exceeds the site's total (recordDispatch).                         *)
ProfilesConsistent ==
    \A s \in DOMAIN dispatchProfiles :
        LET p == dispatchProfiles[s] IN
        /\ Len(p.entries) <= MaxProfileEntries
        /\ p.megamorphic => Len(p.entries) = MaxProfileEntries
        /\ \A i, j \in DOMAIN p.entries :
             /\ p.entries[i].recv = p.entries[j].recv => i = j
             /\ p.entries[i].count <= p.count

(* A reference element of a reference array is null or of a class that the  *)
(* array's element class admits, so that a load needs no check (aastore).   *)
ElementsFit ==
    \A o \in DOMAIN rt.objs : rt.objs[o].array /\ rt.objs[o].elem = "Ref" =>
        \A i \in DOMAIN rt.objs[o].slots :
            LET v == rt.objs[o].slots[i]
            IN  \/ isNull(v)
                \/ v.type = "Ref" /\ isAssignableFrom(Tail(rt.objs[o].cls), classOf(rt, v.obj))

(* Every frame has a local slot for every slot number its method uses       *)
(* (Frame.h, pushCall, pushClinit).                                         *)
LocalsSized ==
    \A k \in DOMAIN frames :
        0 .. Methods[frames[k].method].numLocals - 1 \subseteq DOMAIN frames[k].locals

(* The frame above a new, getstatic, putstatic or ldc is the <clinit> frame *)
(* that the first use of the class pushed (pushClinit).                     *)
TriggersRunClinit ==
    \A k \in 2 .. Len(frames) :
        CodeOf(frames[k - 1].method)[frames[k - 1].pc].op \in TriggerOps \ InvokeOps
        => frames[k].method \in Clinit

(* Marking the class initialized pushes its <clinit> (pushClinit). *)
MarkedMeansStarted ==
    [][~rt.initialized /\ rt'.initialized =>
         \E k \in DOMAIN frames' : frames'[k].method \in Clinit]_vars

(* A site's dispatch count grows only in a step that pushes the callee or   *)
(* runs the builtin: a call that traps is not counted (recordDispatch).     *)
TrappedNotCounted ==
    [][\A s \in DOMAIN dispatchProfiles' :
         dispatchProfiles'[s].count > ProfileAt(s).count =>
            \/ Len(frames') = Len(frames) + 1
            \/ frames' = [frames EXCEPT ![Len(frames)].pc = @ + 1]]_vars

(* A synchronized method holds a monitor from its first instruction (run,   *)
(* pushCall).                                                               *)
SynchronizedHeld ==
    \A k \in DOMAIN frames :
        Methods[frames[k].method].synchronized /\ frames[k].pc = 0
        => frames[k].monitors # <<>>

(* Code without loops ends, by return or by an uncaught exception, however  *)
(* deep it recurses and whatever it initializes on the way (dispatchLoop).  *)
Terminates == status = "running" ~> status # "running"
=============================================================================
