---- MODULE T1Code ----
(***************************************************************************)
(* The template tier's code: the stencil bodies of                         *)
(* compiler/codegen/src/StencilBodies.cpp, the archive check of            *)
(* Archive.cpp, the instantiation of a plan into native code               *)
(* (Instantiate.cpp) and what one body does to an activation, the runtime  *)
(* helpers of Engine.cpp it calls included.                                *)
(*                                                                         *)
(* Machine code is abstracted to the list of instances with their native   *)
(* offsets and patched operands; ip is a native offset, so falling through *)
(* an instance and jumping to a patched target are different things.  An   *)
(* activation is [m, ip, regs, locals, mons, wait]: wait is the method     *)
(* whose result it is waiting for, 0 for none.                             *)
(***************************************************************************)
EXTENDS StencilPlan, T0Exec

CONSTANTS
    MaxMonitors,    \* kT1MaxMonitors
    MaxCodeBytes    \* kMaxCodeBytes

----
(* The archive: what each body reads from the plan, in emission order.     *)

PlanHoles(name) ==
    CASE name \in {"iconst", "iinc"} -> <<"InsImm">>
      [] name \in {"iload", "aload", "istore", "astore", "iload_ireturn"} -> <<"FrameSlot">>
      [] name \in Ops /\ isBranchSig(name) -> <<"BranchTarget">>
      [] name \in {"getfield", "getstatic", "putstatic"} -> <<"RuntimeField">>
      [] name = "invokestatic" -> <<"RuntimeMethod">>
      [] name = "guard_non_null" -> <<"DeoptIdSource">>
      [] name \in {"iload_iload_iadd", "iload_istore"} -> <<"FrameSlot", "FrameSlot">>
      [] name = "iload_iload_iadd_istore" -> <<"FrameSlot", "FrameSlot", "FrameSlot">>
      [] name = "iload_iinc_istore" -> <<"FrameSlot", "InsImm", "FrameSlot">>
      [] name \in {"iload_ifeq", "aload_arraylength_if"} -> <<"FrameSlot", "BranchTarget">>
      [] name \in {"iload_iconst_if_icmpeq", "iload_iconst_if_icmpgt"} ->
             <<"FrameSlot", "InsImm", "BranchTarget">>
      [] name \in {"aload_getfield", "aload_getfield_ireturn"} -> <<"FrameSlot", "RuntimeField">>
      [] name = "iinc_goto" -> <<"InsImm", "BranchTarget">>
      [] OTHER -> <<>>

EmptyBody(name) == name \in {"tableswitch", "multianewarray"}

\* Body lengths: only that they are positive matters.
BodySize(name) == Len(Stencil[name].pattern) + 1
EntrySize == 2
CaseSize == 2
ThunkSize == 2
ExitSize == 1

\* The greedy cursor that pairs the holes of a body with a list of sources:
\* Cursor(..)[k] is the position hole k takes, Len(sources) + 1 when it runs out.
Cursor(holes, sources) ==
    LET at[k \in 0 .. Len(holes)] ==
            IF k = 0 THEN 0
            ELSE Min({i \in at[k - 1] + 1 .. Len(sources) : sources[i] = holes[k]}
                         \cup {Len(sources) + 1})
    IN  [k \in DOMAIN holes |-> at[k]]

\* The plan holes of a body are an in-order subsequence of the manifest's, and
\* every available stencil but the switch has a body.
validateArchive ==
    \A name \in DOMAIN Stencil :
        /\ \A k \in DOMAIN PlanHoles(name) :
              Cursor(PlanHoles(name), Stencil[name].holes)[k] <= Len(Stencil[name].holes)
        /\ Stencil[name].available /\ EmptyBody(name) => name = "tableswitch"

----
(* Instantiation.                                                          *)

\* Distinct handler entry points in first-seen order.
HandlerPcs(plan) ==
    FoldLeft(LAMBDA pcs, e : IF Contains(pcs, e.handler) THEN pcs ELSE Append(pcs, e.handler),
             <<>>, plan.edges)

InstSize(m, inst) ==
    IF EmptyBody(inst.stencil)
    THEN (Len(At(m, inst.start).tbl) - 1) * CaseSize + BodySize("goto")
    ELSE BodySize(inst.stencil)

\* layout[i].real: instances are laid out in order after the entry stubs.
RealOffsets(m, plan) ==
    LET area == (1 + Len(HandlerPcs(plan))) * EntrySize
    IN  [i \in DOMAIN plan.instances |->
            area + FoldFunction(+, 0, [j \in 1 .. i - 1 |-> InstSize(m, plan.instances[j])])]

kNoRealOffset == -1
realOfPc(plan, real, pc) ==
    LET i == InstanceAt(plan.instances, pc) IN IF i = 0 THEN kNoRealOffset ELSE real[i]

\* What a plan hole is patched with, or the refusal it causes.
Patch(ok, v, status) == [v |-> v, status |-> IF ok THEN "Ok" ELSE status]

PatchHole(P, inst, plan, real, pv) ==
    LET op == At(P.methods[plan.m], inst.start).op
        target == realOfPc(plan, real, pv.value)
    IN  CASE pv.source = "BranchTarget" -> Patch(target # kNoRealOffset, target, "BadBranchTarget")
          [] pv.source = "DeoptIdSource" ->
                 Patch(\E k \in DOMAIN plan.deopts : plan.deopts[k].id = pv.value, pv.value,
                       "NoDeoptCoverage")
          [] pv.source = "RuntimeField" ->
                 Patch(/\ pv.value # UnresolvedField
                       /\ ~(op = "putstatic" /\ pv.value = BuiltinField), pv.value, "BadHole")
          [] pv.source = "RuntimeMethod" ->
                 Patch(pv.value \in DOMAIN P.methods, pv.value, "BadHole")
          [] OTHER -> Patch(TRUE, pv.value, "Ok")

PatchBody(P, inst, plan, real) ==
    LET at == Cursor(PlanHoles(inst.stencil),
                     [k \in DOMAIN inst.patches |-> inst.patches[k].source])
    IN  [k \in DOMAIN at |-> IF at[k] > Len(inst.patches) THEN Patch(FALSE, 0, "BadHole")
                             ELSE PatchHole(P, inst, plan, real, inst.patches[at[k]])]

\* The case chain and the default of a switch, as native targets.
SwitchTargets(m, inst, plan, real) ==
    LET tbl == At(m, inst.start).tbl
    IN  [k \in DOMAIN tbl |-> LET t == realOfPc(plan, real, tbl[k])
                              IN  Patch(t # kNoRealOffset, t, "BadBranchTarget")]

\* Bodies that branch to the thunk of their covering deopt point on a trap.
Traps(name) == "CanTrap" \in Stencil[name].flags

\* A deopt point with the native offset of its trap site.
RealPoints(plan, real) ==
    [k \in DOMAIN plan.deopts |->
        [id |-> plan.deopts[k].id, pc |-> plan.deopts[k].pc, reason |-> plan.deopts[k].reason,
         native |-> realOfPc(plan, real, plan.deopts[k].pc)]]

NoCode == [m |-> 0, insts |-> <<>>, entries |-> <<>>, points |-> <<>>, edges |-> <<>>]
RefusedCode(status) == [status |-> status, code |-> NoCode]

\* The instances, copied and patched; a value keeps its patch status.
Instances(P, plan, real) ==
    [i \in DOMAIN plan.instances |->
        LET inst == plan.instances[i]
            m == P.methods[plan.m]
        IN  [stencil |-> inst.stencil, pc |-> inst.start, end |-> inst.end,
             skip |-> Stencil[inst.stencil].skip, off |-> real[i], size |-> InstSize(m, inst),
             traps |-> Traps(inst.stencil),
             vals |-> IF EmptyBody(inst.stencil) THEN SwitchTargets(m, inst, plan, real)
                      ELSE PatchBody(P, inst, plan, real)]]

\* Entry stubs: the method's, then one per distinct handler.
Entries(plan, real, pcs) ==
    [k \in DOMAIN pcs |-> [pc |-> pcs[k], target |-> realOfPc(plan, real, pcs[k])]]

CodeBytes(insts, points) == Last(insts).off + Last(insts).size + Len(points) * ThunkSize + ExitSize

BadPatches(insts) ==
    UNION {{insts[i].vals[k].status : k \in DOMAIN insts[i].vals} : i \in DOMAIN insts} \ {"Ok"}

Assemble(plan, insts, entries, points, bad) ==
    IF \E i \in DOMAIN insts : EmptyBody(insts[i].stencil) /\ insts[i].stencil # "tableswitch"
    THEN RefusedCode("NoArchiveRecord")
    ELSE IF CodeBytes(insts, points) > MaxCodeBytes THEN RefusedCode("BudgetExceeded")
    ELSE IF \E k \in DOMAIN points : points[k].native = kNoRealOffset
    THEN RefusedCode("NoDeoptCoverage")
    ELSE IF \E k \in DOMAIN entries : entries[k].target = kNoRealOffset
    THEN RefusedCode("BadBranchTarget")
    ELSE IF bad # {} THEN RefusedCode(CHOOSE s \in bad : TRUE)
    ELSE IF \E i \in DOMAIN insts :
                insts[i].traps /\ \A k \in DOMAIN points : points[k].pc # insts[i].pc
    THEN RefusedCode("NoDeoptCoverage")
    ELSE [status |-> "Ok",
          code |-> [m |-> plan.m, entries |-> entries, points |-> points, edges |-> plan.edges,
                    insts |-> [i \in DOMAIN insts |->
                        [insts[i] EXCEPT !.vals = [k \in DOMAIN @ |-> @[k].v]]]]]

Patched(plan, insts, entries, points) ==
    Assemble(plan, insts, entries, points, BadPatches(insts))
LaidOut(P, plan, real) ==
    Patched(plan, Instances(P, plan, real), Entries(plan, real, <<0>> \o HandlerPcs(plan)),
            RealPoints(plan, real))

\* Layout, then patching, of the plan of method mi.
instantiate(P, mi, built) ==
    LET plan == [m |-> mi] @@ built IN LaidOut(P, plan, RealOffsets(P.methods[mi], plan))

----
(* Running native code.                                                    *)

\* The pc map: the instance whose native range holds the offset, else pc 0.
rbcPcAt(code, native) ==
    LET in == {i \in DOMAIN code.insts : code.insts[i].off <= native
                                          /\ native < code.insts[i].off + code.insts[i].size}
    IN  IF in = {} THEN code.insts[1].pc ELSE code.insts[CHOOSE i \in in : TRUE].pc

InstIndex(code, ip) == CHOOSE i \in DOMAIN code.insts : code.insts[i].off = ip

\* coveringPoint: the deopt id of the first point of the instance.
CoveringId(code, inst) ==
    code.points[Min({k \in DOMAIN code.points : code.points[k].pc = inst.pc})].id

Activation(P, code, args) ==
    [m |-> code.m, ip |-> code.entries[1].target, regs |-> BottomRegs(P.methods[code.m]),
     locals |-> LocalsFrom(P.methods[code.m], args), mons |-> <<>>, wait |-> "no"]

\* What a body ends in: kind "go" (next ip in the activation), "ret" (value
\* v), "trap" (a helper left the pending exception n), "thunk" (deopt id n,
\* nothing pending), "init" (run <clinit> first), "call" (of method n) or
\* "fault" (the processor's divide error).
Ends(kind, act, heap, v, n) == [kind |-> kind, act |-> act, heap |-> heap, v |-> v, n |-> n]
Goes(act, heap) == Ends("go", act, heap, bottom, 0)
Trapped(act, heap, exc) == Ends("trap", act, heap, bottom, exc)

\* The value or the exception of a helper.
Gives(v) == [v |-> v, exc |-> 0]
Raises(exc) == [v |-> bottom, exc |-> exc]

b2cg_get_field(heap, obj, field) ==
    LET v == loadField(heap, obj[2], field)
    IN  IF isNull(obj) THEN Raises(NullPointer)
        ELSE IF v # bottom THEN Gives(v)
        ELSE IF isInstance(heap, obj[2]) THEN Gives(zeroOfField(FieldType(field)))
        ELSE Raises(InternalError)

b2cg_array_length(heap, arr) ==
    IF isNull(arr) THEN Raises(NullPointer)
    ELSE IF ~isArray(heap, arr[2]) THEN Raises(InternalError)
    ELSE Gives(intVal(arrayLength(heap, arr[2])))

\* An unset static reads as the int zero, whatever the field's type.
b2cg_get_static(heap, field) ==
    IF field = BuiltinField THEN refVal(SystemOut)
    ELSE IF heap.stat[field] = bottom THEN intVal(0) ELSE heap.stat[field]

\* The monitor is entered before the record is found to be full.
b2cg_monitor_enter(act, heap, v) ==
    LET held == monitorenter(heap, v[2])
    IN  IF isNull(v) \/ v[2] \notin DOMAIN heap.mon THEN Trapped(act, heap, NullPointer)
        ELSE IF Len(act.mons) >= MaxMonitors THEN Trapped(act, held, InternalError)
        ELSE Goes([act EXCEPT !.mons = <<v[2]>> \o @], held)

b2cg_monitor_exit(act, heap, v) ==
    IF isNull(v) THEN Trapped(act, heap, NullPointer)
    ELSE IF v[2] \notin DOMAIN heap.mon \/ heap.mon[v[2]] = 0 THEN Trapped(act, heap, IllegalMonitor)
    ELSE Goes([act EXCEPT !.mons = Unrecord(@, v[2])], monitorexit(heap, v[2]))

b2cg_athrow(act, heap, v) == Trapped(act, heap, IF isNull(v) THEN NullPointer ELSE v[2])

----
(* The bodies; w[k] is the k-th instruction of the window, v the patched   *)
(* operands, next the native offset after the body.                        *)

WriteReg(act, r, v, ip) == [act EXCEPT !.regs[r] = v, !.ip = ip]
WriteLocal(act, l, v, ip) == [act EXCEPT !.locals[l] = v, !.ip = ip]
\* A helper's result into register r, or its trap.
Into(act, heap, r, h, ip) ==
    IF h.exc # 0 THEN Trapped(act, heap, h.exc) ELSE Goes(WriteReg(act, r, h.v, ip), heap)
Jump(act, heap, taken, target, next) ==
    Goes([act EXCEPT !.ip = IF taken THEN target ELSE next], heap)
Exits(act, heap, v) == Ends("ret", act, heap, v, 0)

\* Straight-line bodies: moves and integer arithmetic.
MoveBody(name, act, heap, w, v, next) ==
    LET reg(r) == act.regs[r][2]
        loc(k) == act.locals[v[k]][2]
        int(r, n) == Goes(WriteReg(act, r, intVal(Wrap(n)), next), heap)
        local(k, n) == Goes(WriteLocal(act, v[k], intVal(Wrap(n)), next), heap)
    IN  CASE name = "safepoint_poll" -> Goes([act EXCEPT !.ip = next], heap)
          [] name = "aconst_null" -> Goes(WriteReg(act, w[1].dst, nullVal, next), heap)
          [] name = "iconst" -> int(w[1].dst, v[1])
          [] name \in {"iload", "aload"} ->
                 Goes(WriteReg(act, w[1].dst, act.locals[v[1]], next), heap)
          [] name \in {"istore", "astore"} ->
                 Goes(WriteLocal(act, v[1], act.regs[w[1].a], next), heap)
          [] name = "iadd" -> int(w[1].dst, reg(w[1].a) + reg(w[1].b))
          [] name = "iinc" -> int(w[1].dst, reg(w[1].dst) + v[1])
          [] name = "iload_iload_iadd" -> int(w[3].dst, loc(1) + loc(2))
          [] name = "iload_iload_iadd_istore" -> local(3, loc(1) + loc(2))
          [] name = "iload_iinc_istore" -> local(3, loc(1) + v[2])
          [] name = "iload_istore" ->
                 Goes(WriteLocal(act, v[2], act.locals[v[1]], next), heap)

\* Division: a zero divisor leaves through the thunk, MIN / -1 faults.
DivBody(code, inst, act, heap, w, next) ==
    LET a == act.regs[w[1].a][2]
        b == act.regs[w[1].b][2]
    IN  IF b = 0 THEN Ends("thunk", act, heap, bottom, CoveringId(code, inst))
        ELSE IF a = IntMin /\ b = -1 THEN Ends("fault", act, heap, bottom, 0)
        ELSE Goes(WriteReg(act, w[1].dst, intVal(Quotient(a, b)), next), heap)

isBranch(name) ==
    name \in {"goto", "ifeq", "ifnull", "if_icmpeq", "if_icmpgt", "tableswitch", "iload_ifeq",
              "iload_iconst_if_icmpeq", "iload_iconst_if_icmpgt", "iinc_goto"}

BranchBody(name, act, heap, w, v, next) ==
    LET a == act.regs[w[1].a]
        b == act.regs[w[1].b][2]
        loc == act.locals[v[1]][2]
        inc == WriteReg(act, w[1].dst, intVal(Wrap(act.regs[w[1].dst][2] + v[1])), next)
    IN  CASE name = "goto" -> Jump(act, heap, TRUE, v[1], next)
          [] name = "ifeq" -> Jump(act, heap, a[2] = 0, v[1], next)
          [] name = "ifnull" -> Jump(act, heap, isNull(a), v[1], next)
          [] name = "if_icmpeq" -> Jump(act, heap, a[2] = b, v[1], next)
          [] name = "if_icmpgt" -> Jump(act, heap, a[2] > b, v[1], next)
          [] name = "tableswitch" ->
                 Jump(act, heap, a[2] \in 0 .. Len(v) - 2, v[a[2] + 2], v[1])
          [] name = "iload_ifeq" -> Jump(act, heap, loc = 0, v[2], next)
          [] name = "iload_iconst_if_icmpeq" -> Jump(act, heap, loc = v[2], v[3], next)
          [] name = "iload_iconst_if_icmpgt" -> Jump(act, heap, loc > v[2], v[3], next)
          [] name = "iinc_goto" -> Jump(inc, heap, TRUE, v[2], next)

\* The fused test writes the length, then compares what the registers hold.
LengthTestBody(act, heap, w, v, next) ==
    LET r == Into(act, heap, w[2].dst, b2cg_array_length(heap, act.locals[v[1]]), next)
        regs == r.act.regs
    IN  IF r.kind = "trap" THEN r
        ELSE Jump(r.act, heap, regs[w[3].a][2] > regs[w[3].b][2], v[2], next)

\* The entry point and its helper for statics and calls: initialization first.
StaticBody(P, name, act, heap, w, v, next) ==
    IF name = "getstatic" /\ v[1] = BuiltinField
    THEN Goes(WriteReg(act, w[1].dst, b2cg_get_static(heap, v[1]), next), heap)
    ELSE IF needsInit(P, heap) THEN Ends("init", act, heap, bottom, 0)
    ELSE IF name = "getstatic"
    THEN Goes(WriteReg(act, w[1].dst, b2cg_get_static(heap, v[1]), next), heap)
    ELSE Goes([act EXCEPT !.ip = next], [heap EXCEPT !.stat[v[1]] = act.regs[w[1].dst]])

(* Mutant: no depth budget. *)
CallAnyDepth(P, act, heap, target, depth, maxDepth) ==
    IF needsInit(P, heap) THEN Ends("init", act, heap, bottom, 0)
    ELSE IF P.methods[target].abstract THEN Trapped(act, heap, NoSuchMethod)
    ELSE Ends("call", act, heap, bottom, target)

\* b2cg_call: depth budget, initialization, abstract callee.
b2cg_call(P, act, heap, target, depth, maxDepth) ==
    IF depth >= maxDepth THEN Trapped(act, heap, StackOverflow)
    ELSE IF needsInit(P, heap) THEN Ends("init", act, heap, bottom, 0)
    ELSE IF P.methods[target].abstract THEN Trapped(act, heap, NoSuchMethod)
    ELSE Ends("call", act, heap, bottom, target)

\* One body, from the instance the native offset names.
Body(P, code, act, heap, depth, maxDepth) ==
    LET inst == code.insts[InstIndex(code, act.ip)]
        name == inst.stencil
        w == SubSeq(P.methods[code.m].code, inst.pc + 1, inst.end)
        v == inst.vals
        next == inst.off + inst.size
        after(r) == IF r.kind = "go" THEN [r EXCEPT !.act.ip = next] ELSE r
    IN  CASE name = "idiv" -> DivBody(code, inst, act, heap, w, next)
          [] isBranch(name) -> BranchBody(name, act, heap, w, v, next)
          [] name = "aload_arraylength_if" -> LengthTestBody(act, heap, w, v, next)
          [] name = "getfield" ->
                 Into(act, heap, w[1].dst, b2cg_get_field(heap, act.regs[w[1].a], v[1]), next)
          [] name = "aload_getfield" ->
                 Into(act, heap, w[2].dst, b2cg_get_field(heap, act.locals[v[1]], v[2]), next)
          [] name = "aload_getfield_ireturn" ->
                 LET h == b2cg_get_field(heap, act.locals[v[1]], v[2])
                 IN  IF h.exc # 0 THEN Trapped(act, heap, h.exc) ELSE Exits(act, heap, h.v)
          [] name = "arraylength" ->
                 Into(act, heap, w[1].dst, b2cg_array_length(heap, act.regs[w[1].a]), next)
          [] name \in {"getstatic", "putstatic"} -> StaticBody(P, name, act, heap, w, v, next)
          [] name = "monitorenter" -> after(b2cg_monitor_enter(act, heap, act.regs[w[1].a]))
          [] name = "monitorexit" -> after(b2cg_monitor_exit(act, heap, act.regs[w[1].a]))
          [] name = "athrow" -> b2cg_athrow(act, heap, act.regs[w[1].a])
          [] name = "invokestatic" -> b2cg_call(P, act, heap, v[1], depth, maxDepth)
          [] name = "return" -> Exits(act, heap, bottom)
          [] name = "ireturn" -> Exits(act, heap, act.regs[w[1].a])
          [] name = "iload_ireturn" -> Exits(act, heap, act.locals[v[1]])
          [] name = "guard_non_null" ->
                 IF isNull(act.regs[w[1].a]) THEN Ends("thunk", act, heap, bottom, v[1])
                 ELSE Goes([act EXCEPT !.ip = next], heap)
          [] OTHER -> MoveBody(name, act, heap, w, v, next)
====
