---- MODULE StencilPlan ----
(***************************************************************************)
(* The baseline (Tier-1) planner: compiler/baseline/src/StencilSet.cpp and *)
(* PlanBuilder.cpp.  From one verified method it builds a stencil plan: an *)
(* in-order tiling of the code by op stencils and superinstructions, with  *)
(* patch values, deopt points, stack maps and exception edges.             *)
(***************************************************************************)
EXTENDS Rbc

CONSTANTS
    Budget,       \* PlanBudget: instances, bytes, patches, deopts, fusions
    PlanIdBase,   \* kPlanAllocatedDeoptIdBase
    FuseOption,   \* CompileOptions::superinstructions
    PollOption    \* CompileOptions::require_backedge_polls

ASSUME BudgetAssumption ==
    /\ Budget \in [instances : Nat, bytes : Nat, patches : Nat, deopts : Nat,
                   fusions : Nat]
    /\ PlanIdBase \in Nat /\ FuseOption \in BOOLEAN /\ PollOption \in BOOLEAN

----
(* The stencil set: StencilSet.cpp.                                        *)

\* Every trap-capable stencil also carries HasDeopt.
flagsForOp(eff) == eff \cup (IF "CanTrap" \in eff THEN {"HasDeopt"} ELSE {})

nominalSizeForOp(sig) ==
    CASE sig = "Call" -> 4 [] sig = "Guard" -> 3 [] OTHER -> 2

Available(op) == op # "multianewarray"

addHolesForOp(op, sig) ==
    CASE sig = "RegImm" -> <<"InsImm">>
      [] sig \in {"RegSlot", "SlotReg"} -> <<"FrameSlot">>
      [] op \in {"getfield", "getstatic", "putstatic"} -> <<"CpIndex", "RuntimeField">>
      [] op = "multianewarray" -> <<"CpIndex", "RuntimeClass">>
      [] sig = "RegCpBranch" -> <<"CpIndex">>
      [] sig \in {"Branch", "RegBranch", "RegRegBranch"} -> <<"BranchTarget">>
      [] sig = "Call" -> <<"RuntimeMethod", "RuntimeICStub", "DeoptIdSource">>
      [] sig = "Guard" -> <<"DeoptIdSource">>
      [] OTHER -> <<>>

NoLink == 0   \* kNoStepLink; steps are numbered from 1

Step(op, useAsA, useAsB, thenDstOf) ==
    [op |-> op, a |-> useAsA, b |-> useAsB, dst |-> thenDstOf]

makeOpStencil(op, info) ==
    [name |-> op, pattern |-> <<Step(op, NoLink, NoLink, NoLink)>>, skip |-> {},
     flags |-> flagsForOp(info.eff), available |-> Available(op),
     holes |-> addHolesForOp(op, info.sig), size |-> nominalSizeForOp(info.sig)]

OpStencil(op) == makeOpStencil(op, OpInfo[op])

kFusionSavingBytes == 1

\* The parts' flags are united, their holes concatenated, their sizes summed.
Fuse(name, steps, skipMask, part) ==
    [name |-> name, pattern |-> steps, skip |-> skipMask,
     flags |-> UNION {part[k].flags : k \in DOMAIN part}, available |-> TRUE,
     holes |-> FlattenSeq([k \in DOMAIN part |-> part[k].holes]),
     size |-> FoldFunction(+, 0, [k \in DOMAIN part |-> part[k].size]) - kFusionSavingBytes]

makeSuperStencil(name, steps, skipMask) ==
    Fuse(name, steps, skipMask, [k \in DOMAIN steps |-> OpStencil(steps[k].op)])

Free(op) == Step(op, NoLink, NoLink, NoLink)

\* kSuperSpecs; iadd stands for isub and imul, ifeq for the six tests
\* against zero and if_icmpeq, if_icmpgt for the six comparisons.
SuperStencils ==
    <<makeSuperStencil("iload_iload_iadd",
          <<Free("iload"), Free("iload"), Step("iadd", 1, 2, NoLink)>>, {1, 2}),
      makeSuperStencil("aload_getfield",
          <<Free("aload"), Step("getfield", 1, NoLink, NoLink)>>, {1}),
      makeSuperStencil("aload_arraylength_if",
          <<Free("aload"), Step("arraylength", 1, NoLink, NoLink),
            Step("if_icmpgt", 2, NoLink, NoLink)>>, {1}),
      makeSuperStencil("iinc_goto", <<Free("iinc"), Free("goto")>>, {}),
      makeSuperStencil("aload_getfield_ireturn",
          <<Free("aload"), Step("getfield", 1, NoLink, NoLink),
            Step("ireturn", 2, NoLink, NoLink)>>, {1, 2}),
      makeSuperStencil("iload_iload_iadd_istore",
          <<Free("iload"), Free("iload"), Step("iadd", 1, 2, NoLink),
            Step("istore", 3, NoLink, NoLink)>>, {1, 2, 3}),
      makeSuperStencil("iload_iinc_istore",
          <<Free("iload"), Step("iinc", NoLink, NoLink, 1),
            Step("istore", 2, NoLink, NoLink)>>, {1, 2}),
      makeSuperStencil("iload_istore",
          <<Free("iload"), Step("istore", 1, NoLink, NoLink)>>, {1}),
      makeSuperStencil("iload_ireturn",
          <<Free("iload"), Step("ireturn", 1, NoLink, NoLink)>>, {1}),
      makeSuperStencil("iload_ifeq",
          <<Free("iload"), Step("ifeq", 1, NoLink, NoLink)>>, {1}),
      makeSuperStencil("iload_iconst_if_icmpeq",
          <<Free("iload"), Free("iconst"), Step("if_icmpeq", 1, 2, NoLink)>>, {1, 2}),
      makeSuperStencil("iload_iconst_if_icmpgt",
          <<Free("iload"), Free("iconst"), Step("if_icmpgt", 1, 2, NoLink)>>, {1, 2})>>

kMaxPattern == 4

\* The entries whose pattern starts with op, longest first; op stencils and
\* the superinstructions in construction order break ties.
candidates ==
    [op \in Ops |->
        LET own == SelectSeq(SuperStencils, LAMBDA d : d.pattern[1].op = op)
                       \o <<OpStencil(op)>>
            ofLen(n) == SelectSeq(own, LAMBDA d : Len(d.pattern) = n)
        IN  FlattenSeq([i \in 1 .. kMaxPattern |-> ofLen(kMaxPattern + 1 - i)])]

ByName(supers) ==
    [name \in Ops \cup {supers[i].name : i \in DOMAIN supers} |->
        IF name \in Ops THEN OpStencil(name)
        ELSE supers[CHOOSE i \in DOMAIN supers : supers[i].name = name]]

Stencil == ByName(SuperStencils)

----
(* Register reads, definitions, successors and liveness: PlanBuilder.cpp.  *)

\* appendRegReads
Reads(ins) ==
    CASE Sig(ins.op) \in {"Reg", "RegBranch", "RegCpBranch", "SlotReg", "RegReg",
                          "RegRegCp", "Guard"} -> {ins.a}
      [] Sig(ins.op) \in {"RegRegReg", "RegRegBranch"} -> {ins.a, ins.b}
      [] ins.op \in {"iinc", "putstatic"} -> {ins.dst}
      [] Sig(ins.op) \in {"Call", "RegRegRegCp"} -> ins.a .. (ins.a + ins.b - 1)
      [] OTHER -> {}

\* A call's result is deliberately not a definition.
definesDst(ins) ==
    /\ Sig(ins.op) \in {"RegSlot", "RegReg", "RegRegReg", "RegImm", "RegCp",
                        "RegRegCp", "RegRegRegCp"}
    /\ ins.op # "putstatic"

\* The normal-control successors computeLiveness collects.
Succs(m, pc) ==
    LET ins == At(m, pc)
        falls == \/ Sig(ins.op) \notin {"Branch", "RegCpBranch", "Reg"}
                 \/ ins.op \in {"monitorenter", "monitorexit"}
    IN  (Targets(ins) \cup (IF falls THEN {pc + 1} ELSE {})) \cap Pcs(m)

LiveBefore(m, live, pc) ==
    LET after == UNION {live[s] : s \in Succs(m, pc)}
        ins == At(m, pc)
    IN  (IF definesDst(ins) THEN after \ {ins.dst} ELSE after) \cup Reads(ins)

\* One backward pass over the method, updating in place.
LivePass(m, live) ==
    FoldLeft(LAMBDA l, pc : [l EXCEPT ![pc] = LiveBefore(m, l, pc)],
             live, [i \in 1 .. Len(m.code) |-> Len(m.code) - i])

(* Mutant: a single backward pass. *)
LivenessOnePass(m) == LivePass(m, [pc \in 0 .. Len(m.code) |-> {}])

\* The passes repeat until one changes nothing.
computeLiveness(m) ==
    LET none == [pc \in 0 .. Len(m.code) |-> {}]
        fix[live \in [0 .. Len(m.code) -> SUBSET (0 .. m.numRegs - 1)]] ==
            LET next == LivePass(m, live) IN IF next = live THEN live ELSE fix[next]
    IN  fix[none]

\* Control destinations and handler boundaries: no fusion may straddle them.
computeFusionBlocked(m) ==
    UNION {Targets(m.code[i]) : i \in DOMAIN m.code}
        \cup UNION {{m.handlers[h].start, m.handlers[h].end, m.handlers[h].handler}
                    : h \in DOMAIN m.handlers}

----
(* Superinstruction matching: the legality rules L1 to L6 of matchSuper.   *)

\* L2 and L3: the producer's dst is the linked register, and no step between
\* producer and consumer names it as dst.
LinkHolds(w, link, k, reg) ==
    /\ link < k
    /\ w[link].dst = reg
    /\ \A mid \in link + 1 .. k - 1 : w[mid].dst # reg

\* L4: the register operands read by a step of the window.
WindowReads(ins) ==
    CASE Sig(ins.op) \in {"Reg", "RegBranch", "RegCpBranch", "SlotReg", "RegReg",
                          "RegRegCp", "Guard"} -> {ins.a}
      [] Sig(ins.op) \in {"RegRegReg", "RegRegBranch"} -> {ins.a, ins.b}
      [] ins.op = "iinc" -> {ins.dst}
      [] OTHER -> {}

UnlinkedReadsFresh(d, w, k) ==
    LET s == d.pattern[k] IN
    \A r \in WindowReads(w[k]) :
        \/ s.a # NoLink /\ r = w[k].a
        \/ s.b # NoLink /\ r = w[k].b
        \/ s.dst # NoLink /\ r = w[k].dst
        \/ \A j \in d.skip : j < k => w[j].dst # r

(* Mutant: nobody asks what is live after the window. *)
SkippedAny(d, w, liveEnd) == TRUE

\* L5: the registers the fused body leaves unwritten are dead at pc + len.
SkippedDead(d, w, liveEnd) == \A k \in d.skip : w[k].dst \notin liveEnd

\* L6
NoBoundaryInside(pc, len, blocked) == \A t \in pc + 1 .. pc + len - 1 : t \notin blocked

matchSuper(d, m, pc, blocked, live) ==
    LET len == Len(d.pattern)
        w == SubSeq(m.code, pc + 1, pc + len)
    IN  /\ len <= Len(m.code) - pc
        /\ \A k \in 1 .. len :
              LET s == d.pattern[k] IN
              /\ w[k].op = s.op
              /\ s.a # NoLink => LinkHolds(w, s.a, k, w[k].a)
              /\ s.b # NoLink => LinkHolds(w, s.b, k, w[k].b)
              /\ s.dst # NoLink => LinkHolds(w, s.dst, k, w[k].dst)
              /\ s.a = NoLink \/ s.b = NoLink => UnlinkedReadsFresh(d, w, k)
        /\ SkippedDead(d, w, live[pc + len])
        /\ NoBoundaryInside(pc, len, blocked)

----
(* Patch values.                                                           *)

stepSuppliesSource(src, op) ==
    CASE src = "InsImm" -> Sig(op) = "RegImm"
      [] src = "FrameSlot" -> Sig(op) \in {"RegSlot", "SlotReg"}
      [] src = "CpIndex" -> Sig(op) \in {"RegCp", "RegRegCp", "RegRegRegCp", "RegCpBranch"}
      [] src = "BranchTarget" -> isBranchSig(op)
      [] src = "RuntimeField" -> op \in {"getfield", "getstatic", "putstatic"}
      [] src = "RuntimeClass" -> op = "multianewarray"
      [] src \in {"RuntimeMethod", "RuntimeICStub"} -> Sig(op) = "Call"
      [] OTHER -> FALSE

\* Hole k of source s is supplied by the step that is, among the steps able
\* to supply s, as many places along as k is among the holes of source s:
\* the per-source cursors of fillPatchValues advance over the steps.
SupplyingStep(d, k) ==
    LET src == d.holes[k]
        rank == Cardinality({j \in 1 .. k : d.holes[j] = src})
        able == {i \in DOMAIN d.pattern : stepSuppliesSource(src, d.pattern[i].op)}
    IN  CHOOSE i \in able : Cardinality({j \in able : j <= i}) = rank

fillPatchValues(d, m, pc, deoptId) ==
    [k \in DOMAIN d.holes |->
        [source |-> d.holes[k],
         value |-> CASE d.holes[k] = "DeoptIdSource" -> deoptId
                     [] d.holes[k] = "RuntimeICStub" -> pc + SupplyingStep(d, k) - 1
                     [] OTHER -> At(m, pc + SupplyingStep(d, k) - 1).imm]]

----
(* The scan: emitInstance and compilePlan.                                 *)

getsDeopt(d) == d.flags \cap {"HasDeopt", "CanTrap"} # {}
DeclaresDeoptId(ins) == Sig(ins.op) = "Guard"

ScanStart ==
    [pc |-> 0, instances |-> <<>>, outOffset |-> 0, fusionCount |-> 0, patchTotal |-> 0,
     deoptCount |-> 0, nextPlanDeoptId |-> PlanIdBase, seen |-> {}, reason |-> "Ok"]

\* The kill switch, in the code's fixed order.
OverBudget(st, d) ==
    \/ Len(st.instances) + 1 > Budget.instances
    \/ st.outOffset + d.size > Budget.bytes
    \/ st.patchTotal + Len(d.holes) > Budget.patches
    \/ getsDeopt(d) /\ st.deoptCount + 1 > Budget.deopts
    \/ Len(d.pattern) > 1 /\ st.fusionCount + 1 > Budget.fusions

Covers(m, from, to) ==
    SelectSeq([h \in DOMAIN m.handlers |-> h],
              LAMBDA h : m.handlers[h].start <= from /\ to <= m.handlers[h].end)

\* The id an instance gets: declared by a guard, else the next plan id.
DeoptIdFor(st, d, ins) ==
    IF ~getsDeopt(d) THEN 0
    ELSE IF DeclaresDeoptId(ins) THEN ins.imm ELSE st.nextPlanDeoptId

emitInstance(st, d, m) ==
    LET pc == st.pc
        len == Len(d.pattern)
        ins == At(m, pc)
        declared == getsDeopt(d) /\ DeclaresDeoptId(ins)
        id == DeoptIdFor(st, d, ins)
    IN  IF OverBudget(st, d) THEN [st EXCEPT !.reason = "BudgetExceeded"]
        ELSE IF declared /\ id >= PlanIdBase THEN [st EXCEPT !.reason = "BadOperandRange"]
        ELSE IF declared /\ id \in st.seen THEN [st EXCEPT !.reason = "InternalInvariant"]
        ELSE [st EXCEPT
                !.pc = pc + len,
                !.instances = Append(@,
                    [stencil |-> d.name, start |-> pc, end |-> pc + len,
                     offset |-> st.outOffset, size |-> d.size,
                     covers |-> Covers(m, pc, pc + len),
                     patches |-> fillPatchValues(d, m, pc, id),
                     hasDeopt |-> getsDeopt(d), deoptId |-> id]),
                !.outOffset = @ + d.size,
                !.fusionCount = IF len > 1 THEN @ + 1 ELSE @,
                !.patchTotal = @ + Len(d.holes),
                !.deoptCount = IF getsDeopt(d) THEN @ + 1 ELSE @,
                !.nextPlanDeoptId = IF getsDeopt(d) /\ ~declared THEN @ + 1 ELSE @,
                !.seen = IF declared THEN @ \cup {id} ELSE @]

\* The first selectable candidate; an op stencil always matches its own op.
Selectable(d, m, pc, blocked, live) ==
    /\ d.available
    /\ Len(d.pattern) > 1 => FuseOption /\ matchSuper(d, m, pc, blocked, live)

ScanStep(st, m, blocked, live) ==
    LET fits == SelectSeq(candidates[At(m, st.pc).op],
                          LAMBDA d : Selectable(d, m, st.pc, blocked, live))
    IN  IF fits = <<>> THEN [st EXCEPT !.reason = "NoStencilForOp"]
        ELSE emitInstance(st, Head(fits), m)

Scan(m) ==
    LET blocked == computeFusionBlocked(m)
        live == computeLiveness(m)
        at[k \in Nat] == IF k = 0 THEN ScanStart
                         ELSE LET st == at[k - 1] IN
                              IF st.reason # "Ok" \/ st.pc = Len(m.code) THEN st
                              ELSE ScanStep(st, m, blocked, live)
    IN  at[Len(m.code)]

----
(* The tables of the plan and the two checks that follow them.             *)

DeoptReason(m, inst) ==
    IF DeclaresDeoptId(At(m, inst.start)) THEN "Guard"
    ELSE IF "CanCall" \in Stencil[inst.stencil].flags THEN "CallException" ELSE "Trap"

\* Deopt points in increasing id order.
DeoptPoints(m, instances) ==
    SetToSortSeq({[id |-> instances[i].deoptId, offset |-> instances[i].offset,
                   pc |-> instances[i].start, reason |-> DeoptReason(m, instances[i])]
                  : i \in {j \in DOMAIN instances : instances[j].hasDeopt}},
                 LAMBDA p, q : p.id < q.id)

StackMaps(instances) ==
    LET points == SelectSeq(instances, LAMBDA i :
                      Stencil[i.stencil].flags \cap {"IsSafepoint", "CanCall"} # {})
    IN  [k \in DOMAIN points |->
            [offset |-> points[k].offset, pc |-> points[k].start,
             kind |-> IF "CanCall" \in Stencil[points[k].stencil].flags THEN "Call" ELSE "Poll",
             deopt |-> points[k].deoptId]]

\* findInstanceAt: the index of the instance starting at pc, 0 if there is none.
InstanceAt(instances, pc) ==
    IF \E i \in DOMAIN instances : instances[i].start = pc
    THEN CHOOSE i \in DOMAIN instances : instances[i].start = pc ELSE 0

ExceptionEdges(m, instances) ==
    [h \in DOMAIN m.handlers |->
        [start |-> m.handlers[h].start, end |-> m.handlers[h].end,
         handler |-> m.handlers[h].handler, catch |-> m.handlers[h].catch,
         native |-> LET i == InstanceAt(instances, m.handlers[h].handler)
                    IN  IF i = 0 THEN -1 ELSE instances[i].offset]]

\* A backward edge needs a poll at its destination or just before the branch.
IsPoll(m, pc) == pc \in Pcs(m) /\ At(m, pc).op = "safepoint_poll"

checkBackedgePolls(m) ==
    \A pc \in Pcs(m) : \A t \in Targets(At(m, pc)) :
        t < pc => IsPoll(m, t) \/ IsPoll(m, pc - 1)

\* The plan invariants 1 to 6 of Plan.h, as verifyPlan audits them.
verifyPlan(plan, m) ==
    LET n == Len(plan.instances)
        inst(i) == plan.instances[i]
        desc(i) == Stencil[inst(i).stencil]
        starts(i) == IF i = 1 THEN 0 ELSE inst(i - 1).end
        offs(i) == IF i = 1 THEN 0 ELSE inst(i - 1).offset + inst(i - 1).size
    IN  /\ \A i \in 1 .. n :
              /\ inst(i).start = starts(i) /\ inst(i).end <= Len(m.code)
              /\ inst(i).end - inst(i).start = Len(desc(i).pattern)
              /\ \A k \in DOMAIN desc(i).pattern :
                    LET s == desc(i).pattern[k]
                        w(j) == At(m, inst(i).start + j - 1)
                    IN  /\ w(k).op = s.op
                        /\ s.a # NoLink => s.a < k /\ w(s.a).dst = w(k).a
                        /\ s.b # NoLink => s.b < k /\ w(s.b).dst = w(k).b
              /\ inst(i).offset = offs(i) /\ inst(i).size = desc(i).size
              /\ i > 1 => inst(i).offset > inst(i - 1).offset
              /\ "CanTrap" \in desc(i).flags =>
                    inst(i).covers = SelectSeq([e \in DOMAIN plan.edges |-> e],
                        LAMBDA e : plan.edges[e].start <= inst(i).start
                                   /\ inst(i).end <= plan.edges[e].end)
              /\ [k \in DOMAIN inst(i).patches |-> inst(i).patches[k].source] = desc(i).holes
        /\ starts(n + 1) = Len(m.code) /\ plan.size = offs(n + 1)
        /\ \A p, q \in DOMAIN plan.deopts : p # q => plan.deopts[p].id # plan.deopts[q].id
        /\ \A p \in DOMAIN plan.deopts :
              plan.deopts[p].id < PlanIdBase =>
                  LET ins == At(m, plan.deopts[p].pc)
                  IN  DeclaresDeoptId(ins) /\ ins.imm = plan.deopts[p].id
        /\ \A e \in DOMAIN plan.edges :
              LET i == InstanceAt(plan.instances, plan.edges[e].handler)
              IN  i # 0 /\ plan.edges[e].native = inst(i).offset

NoPlan == [instances |-> <<>>, deopts |-> <<>>, maps |-> <<>>, edges |-> <<>>, size |-> 0]
Refused(reason) == [reason |-> reason, plan |-> NoPlan]

Tables(m, st, edges) ==
    [instances |-> st.instances, deopts |-> DeoptPoints(m, st.instances),
     maps |-> StackMaps(st.instances), edges |-> edges, size |-> st.outOffset]

Audited(m, plan) ==
    IF \E e \in DOMAIN plan.edges : plan.edges[e].native = -1 THEN Refused("InternalInvariant")
    ELSE IF PollOption /\ ~checkBackedgePolls(m) THEN Refused("MissingBackedgePoll")
    ELSE IF ~verifyPlan(plan, m) THEN Refused("InternalInvariant")
    ELSE [reason |-> "Ok", plan |-> plan]

Planned(m, st) ==
    IF st.reason # "Ok" THEN Refused(st.reason)
    ELSE Audited(m, Tables(m, st, ExceptionEdges(m, st.instances)))

compilePlan(m) == Planned(m, Scan(m))
====
