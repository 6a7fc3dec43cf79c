---- MODULE Tier1 ----
(***************************************************************************)
(* The two-tier engine, compiler/codegen/src/Engine.cpp, run against the   *)
(* interpreter: one program is first interpreted (the reference), then run *)
(* from a fresh heap on the template tier, which enters the interpreter    *)
(* again for methods it cannot compile and for every deoptimization.       *)
(*                                                                         *)
(* Compilation is a function of the program, so every method's code is     *)
(* computed when the program is loaded and the engine's cache needs no     *)
(* state of its own.                                                       *)
(***************************************************************************)
EXTENDS RbcVerifier, T1Code

CONSTANTS
    Programs,   \* a sequence of programs
    MaxDepth    \* kT1MaxCallDepthDefault

VARIABLES
    image,   \* the program of this behaviour, verified and compiled
    stage,   \* "verify", "ref" (interpreting), "t1" (the engine) or "done"
    t0,      \* the interpreter's machine state, frames = <<>> when idle
    acts,    \* native activations, innermost last
    heap,    \* the engine's heap between interpreter entries
    res,     \* the result on its way to the innermost activation
    ref,     \* outcome and heap of the reference run
    dev      \* the named deviations this behaviour went through

vars == <<image, stage, t0, acts, heap, res, ref, dev>>

----
(* Loading a program.                                                      *)

\* engineExecuteMethod's compilation: plan, then instantiate.
Instantiated(Q, k, built) ==
    IF built.reason # "Ok" THEN RefusedCode(built.reason) ELSE instantiate(Q, k, built.plan)
Compile(Q, k) == Instantiated(Q, k, compilePlan(Q.methods[k]))

\* The registers live before every pc, by definition: some path from pc reads
\* r before any instruction of the path defines it.
LiveSets(m) ==
    LET kills(pc, r) == definesDst(At(m, pc)) /\ At(m, pc).dst = r
        reach[S \in SUBSET Pcs(m), r \in 0 .. m.numRegs - 1] ==
            LET more == S \cup UNION {Succs(m, q) : q \in {p \in S : ~kills(p, r)}}
            IN  IF more = S THEN S ELSE reach[more, r]
    IN  [pc \in Pcs(m) |-> {r \in 0 .. m.numRegs - 1 :
            \E q \in reach[{pc}, r] : r \in Reads(At(m, q))}]

\* Per method: the verdict and types of the verifier, the code and the
\* registers live along paths.
Image(Q, m, ok, code) ==
    [ok |-> ok, types |-> IF ok /\ ~m.abstract THEN inStates(Q.methods, m) ELSE <<>>,
     status |-> code.status, code |-> code.code,
     live |-> IF code.status = "Ok" THEN LiveSets(m) ELSE <<>>]

MethodImage(Q, k) ==
    LET m == Q.methods[k]
        ok == verify(Q.methods, m)
    IN  Image(Q, m, ok, IF ok /\ ~m.abstract THEN Compile(Q, k) ELSE RefusedCode("NotCompiled"))

Load(Q) == [P |-> Q, of |-> [k \in DOMAIN Q.methods |-> MethodImage(Q, k)]]

Images == [i \in DOMAIN Programs |-> Load(Programs[i])]

P == image.P
CodeOf(k) == image.of[k].code
HasCode(k) == validateArchive /\ image.of[k].status = "Ok"

Idle == [frames |-> <<>>, heap |-> Heap0, out |-> Running]

----
(* The interpreter's steps.                                                *)

\* The run gates on the verification of every method.
VerifyFails ==
    /\ stage = "verify"
    /\ \E k \in DOMAIN P.methods : ~image.of[k].ok
    /\ stage' = "done"
    /\ UNCHANGED <<image, t0, acts, heap, res, ref, dev>>

StartReference ==
    /\ stage = "verify"
    /\ \A k \in DOMAIN P.methods : image.of[k].ok
    /\ stage' = "ref" /\ t0' = T0Run(P)
    /\ dev' = IF Len(P.args) < Len(P.methods[P.entry].params) THEN {"arity"} ELSE {}
    /\ UNCHANGED <<image, acts, heap, res, ref>>

\* The instruction the interpreter executes next passes a value the verifier
\* has not looked at: a call argument, a stored static, a boolean result.
EscapesTypes(c) ==
    LET f == Top(c)
        ins == At(P.methods[f.m], f.pc)
    IN  \/ /\ ins.op = "invokestatic" /\ ins.imm \in DOMAIN P.methods
           /\ LET callee == P.methods[ins.imm]
              IN  \/ callee.ret = "Z"
                  \/ \E i \in DOMAIN callee.params :
                        \/ i > ins.b
                        \/ ~isAssignable(f.regs[ins.a + i - 1][1], parseReturn(callee.params[i]))
        \/ /\ ins.op = "putstatic"
           /\ ~isAssignable(f.regs[ins.dst][1], FieldType(ins.imm))

\* The interpreter is at its frame limit and about to push a frame.
AtFrameLimit(c) ==
    LET op == At(P.methods[Top(c).m], Top(c).pc).op
    IN  /\ Len(c.frames) >= MaxFrames
        /\ \/ op = "invokestatic"
           \/ op \in {"getstatic", "putstatic"} /\ needsInit(P, c.heap)

\* One interpreter step, of the reference or inside the engine.
Interpret ==
    /\ t0.frames # <<>>
    /\ t0' = T0Step(P, t0)
    /\ dev' = dev \cup (IF EscapesTypes(t0) THEN {"untyped"} ELSE {})
                  \cup (IF AtFrameLimit(t0) THEN {"stack"} ELSE {})
    /\ UNCHANGED <<image, stage, acts, heap, res, ref>>

\* engineExecuteMethod: compiled when possible, else a fresh interpreter
\* frame; base is the activation stack of the caller.
ExecuteFrom(base, k, args, h) ==
    /\ heap' = h
    /\ IF HasCode(k)
       THEN acts' = Append(base, Activation(P, CodeOf(k), args)) /\ t0' = Idle
       ELSE acts' = base /\ t0' = T0Resume(P, h, Frame(P, k, args), 0)

\* The reference is complete: the engine starts over on a fresh heap.
StartEngine ==
    /\ stage = "ref" /\ t0.out # Running
    /\ stage' = "t1"
    /\ ref' = [out |-> t0.out, heap |-> t0.heap]
    /\ ExecuteFrom(<<>>, P.entry, P.args, Heap0)
    /\ UNCHANGED <<image, res, dev>>

----
(* Native code: executeCompiled.                                           *)

Act == Last(acts)
InNative ==
    /\ stage = "t1" /\ t0 = Idle /\ res = Running
    /\ acts # <<>> /\ Act.wait = "no"
Steps == Body(P, CodeOf(Act.m), Act, heap, Len(acts), MaxDepth)

\* A fused test is taken to where one of its skipped registers is live.
LosesLive(r) ==
    LET code == CodeOf(Act.m)
        inst == code.insts[InstIndex(code, Act.ip)]
        m == P.methods[Act.m]
    IN  /\ r.act.ip # inst.off + inst.size
        /\ \E k \in inst.skip : At(m, inst.pc + k - 1).dst
               \in image.of[Act.m].live[rbcPcAt(code, r.act.ip)]

\* An unset reference static read as an int zero.
ReadsUnsetRef ==
    LET code == CodeOf(Act.m)
        inst == code.insts[InstIndex(code, Act.ip)]
    IN  inst.stencil = "getstatic" /\ inst.vals[1] = RefField /\ heap.stat[RefField] = bottom

Continue ==
    InNative /\ \E r \in {Steps} :
    /\ r.kind = "go"
    /\ acts' = [acts EXCEPT ![Len(acts)] = r.act]
    /\ heap' = r.heap
    /\ dev' = dev \cup (IF LosesLive(r) THEN {"takenEdge"} ELSE {})
                  \cup (IF ReadsUnsetRef THEN {"unsetRef"} ELSE {})
    /\ UNCHANGED <<image, stage, t0, res, ref>>

\* A normal exit: the result is on its way to the caller.
ReturnNative ==
    InNative /\ \E r \in {Steps} :
    /\ r.kind = "ret"
    /\ acts' = Front(acts)
    /\ res' = Returned(r.v)
    /\ heap' = r.heap
    /\ dev' = dev \cup (IF r.act.mons # <<>> THEN {"heldReturn"} ELSE {})
    /\ UNCHANGED <<image, stage, t0, ref>>

(* Mutant: the record of monitors stays behind. *)
DeoptFrameBare(act, pc) ==
    [m |-> act.m, pc |-> pc, regs |-> act.regs, locals |-> act.locals, mons |-> <<>>]

\* The interpreter frame of a deoptimized activation.
DeoptFrame(act, pc) ==
    [m |-> act.m, pc |-> pc, regs |-> act.regs, locals |-> act.locals, mons |-> act.mons]

\* The point whose thunk a trap inside the instance at ip goes through.
PointById(code, id) == code.points[Min({k \in DOMAIN code.points : code.points[k].id = id})]
CoveringPoint(code, act) ==
    PointById(code, CoveringId(code, code.insts[InstIndex(code, act.ip)]))

(* Mutant: native code that holds no monitor is re-entered where it left. *)
EntryAtTrap(code, act, pc) ==
    IF act.mons = <<>> THEN act.ip
    ELSE code.entries[CHOOSE k \in 2 .. Len(code.entries) : code.entries[k].pc = pc].target

\* The native target of the stub of a handler pc.
HandlerEntry(code, act, pc) ==
    code.entries[CHOOSE k \in 2 .. Len(code.entries) : code.entries[k].pc = pc].target

\* A pending exception: the first matching edge re-enters native code at the
\* handler's stub; otherwise the interpreter unwinds the frame.
Dispatch(act, h, exc) ==
    LET code == CodeOf(act.m)
        point == CoveringPoint(code, act)
        pc == rbcPcAt(code, point.native)
        hits == SelectSeq(code.edges, LAMBDA e : Catches(e, pc, exc))
    IN  IF hits # <<>>
        THEN /\ acts' = [acts EXCEPT ![Len(acts)] =
                   [act EXCEPT !.ip = HandlerEntry(code, act, hits[1].handler), !.wait = "no",
                               !.regs = CatchRegs(P.methods[act.m], exc)]]
             /\ heap' = h /\ t0' = Idle
        ELSE /\ acts' = Front(acts)
             /\ heap' = h
             /\ t0' = T0Resume(P, h, DeoptFrame(act, pc), exc)

TrapNative ==
    InNative /\ \E r \in {Steps} :
    /\ r.kind = "trap"
    /\ Dispatch(r.act, r.heap, r.n)
    /\ dev' = dev \cup (IF r.heap # heap THEN {"monOverflow"} ELSE {})
                  \cup (IF r.n = StackOverflow THEN {"stack"} ELSE {})
    /\ UNCHANGED <<image, stage, res, ref>>

\* A thunk with nothing pending: a failed guard resumes at its pc; a trap
\* point at a division resumes with an ArithmeticException pending.
DeoptNative ==
    InNative /\ \E r \in {Steps} :
    LET code == CodeOf(Act.m)
        point == PointById(code, r.n)
        pc == rbcPcAt(code, point.native)
        divides == point.reason = "Trap" /\ At(P.methods[Act.m], pc).op = "idiv"
    IN  /\ r.kind = "thunk"
        /\ acts' = Front(acts)
        /\ t0' = T0Resume(P, heap, DeoptFrame(Act, pc), IF divides THEN Arithmetic ELSE 0)
        /\ UNCHANGED <<image, stage, heap, res, ref, dev>>

\* The processor's divide error ends the process.
FaultNative ==
    /\ InNative /\ Steps.kind = "fault"
    /\ acts' = <<>> /\ res' = [kind |-> "fault", v |-> bottom]
    /\ dev' = dev \cup {"divOverflow"}
    /\ UNCHANGED <<image, stage, t0, heap, ref>>

\* initClassIfNeeded: marked before it runs, no depth check.
InitNative ==
    /\ InNative /\ Steps.kind = "init"
    /\ ExecuteFrom([acts EXCEPT ![Len(acts)].wait = "init"], P.clinit, <<>>,
                   [heap EXCEPT !.init = TRUE])
    /\ UNCHANGED <<image, stage, res, ref, dev>>

CallNative ==
    InNative /\ \E r \in {Steps} :
    LET code == CodeOf(Act.m)
        ins == At(P.methods[Act.m], code.insts[InstIndex(code, Act.ip)].pc)
    IN  /\ r.kind = "call"
        /\ ExecuteFrom([acts EXCEPT ![Len(acts)].wait = "call"], r.n,
                       ArgsOf(Act.regs, ins), heap)
        /\ UNCHANGED <<image, stage, res, ref, dev>>

----
(* Results.                                                                *)

\* An interpreter entry of the engine is over: mapRun.
FinishInterpreter ==
    /\ stage = "t1" /\ t0.out # Running
    /\ res' = t0.out /\ heap' = t0.heap /\ t0' = Idle
    /\ UNCHANGED <<image, stage, acts, ref, dev>>

\* Back in the helper: the result is stored when the callee is not void;
\* after <clinit> the helper goes on with the instruction that triggered it.
DeliverReturn ==
    LET code == CodeOf(Act.m)
        inst == code.insts[InstIndex(code, Act.ip)]
        ins == At(P.methods[Act.m], inst.pc)
        stored == parseReturn(P.methods[inst.vals[1]].ret) # "Bottom"
        woken == [Act EXCEPT !.wait = "no"]
    IN  /\ stage = "t1" /\ res.kind = "returned" /\ acts # <<>>
        /\ acts' = [acts EXCEPT ![Len(acts)] =
               IF Act.wait = "init" THEN woken
               ELSE [woken EXCEPT !.ip = inst.off + inst.size,
                                  !.regs[ins.dst] = IF stored THEN res.v ELSE @]]
        /\ res' = Running
        /\ UNCHANGED <<image, stage, t0, heap, ref, dev>>

DeliverThrow ==
    /\ stage = "t1" /\ res.kind = "threw" /\ acts # <<>>
    /\ Dispatch(Act, heap, res.v[2])
    /\ res' = Running
    /\ UNCHANGED <<image, stage, ref, dev>>

Finish ==
    /\ stage = "t1" /\ res # Running /\ acts = <<>>
    /\ stage' = "done"
    /\ UNCHANGED <<image, t0, acts, heap, res, ref, dev>>

Terminated == stage = "done" /\ UNCHANGED vars

Init ==
    /\ \E i \in DOMAIN Programs : image = Images[i]
    /\ stage = "verify" /\ t0 = Idle /\ acts = <<>> /\ heap = Heap0 /\ res = Running
    /\ ref = [out |-> Running, heap |-> Heap0] /\ dev = {}

Native ==
    \/ Continue \/ ReturnNative \/ TrapNative \/ DeoptNative \/ FaultNative
    \/ InitNative \/ CallNative

Next ==
    \/ VerifyFails \/ StartReference \/ Interpret \/ StartEngine
    \/ Native
    \/ FinishInterpreter \/ DeliverReturn \/ DeliverThrow \/ Finish
    \/ Terminated

\* Both tiers are sequential programs: they keep running until they are done.
\* This is WF_vars(Next), a step being enabled exactly in unfinished states
\* (the runs check for deadlock).
Progress == []<>(stage = "done") \/ []<><<TRUE>>_vars

Spec == Init /\ [][Next]_vars /\ Progress

----
(* Properties.                                                             *)

CurHeap == IF t0 = Idle THEN heap ELSE t0.heap

\* Every activation stands at the start of an instance of its code, and only
\* the innermost one may be running.
TypeOK ==
    /\ stage \in {"verify", "ref", "t1", "done"}
    /\ \A i \in DOMAIN acts :
          /\ \E k \in DOMAIN CodeOf(acts[i].m).insts : CodeOf(acts[i].m).insts[k].off = acts[i].ip
          /\ acts[i].wait \in {"no", "init", "call"}
          /\ i < Len(acts) => acts[i].wait # "no"
    /\ dev \subseteq {"arity", "untyped", "stack", "takenEdge", "unsetRef", "heldReturn",
                      "monOverflow", "divOverflow"}

Agrees == res = ref.out /\ heap = ref.heap

\* The differential law of the tiers: outside the named deviations a program
\* ends in the template tier, through every deoptimization, handler re-entry
\* and interpreter fallback, with the interpreter's result, monitors, statics
\* and initialization state.
TiersAgree == stage = "done" /\ dev = {} => Agrees

\* Verified code keeps the verifier's types: while the interpreter runs, a
\* register or local typed at the current pc of any frame holds a value of that
\* type, calls, exceptions and class initializers in between included, until
\* a value the verifier does not check has been passed.
VerifiedTypesHold ==
    stage = "ref" /\ dev \cap {"untyped", "arity"} = {} =>
        \A i \in DOMAIN t0.frames :
            LET f == t0.frames[i]
                S == image.of[f.m].types[f.pc]
                fits(v, t) == t = "Bottom" \/ isAssignable(v[1], t)
            IN  /\ S.seen
                /\ \A r \in DOMAIN f.regs : fits(f.regs[r], S.regs[r])
                /\ \A l \in DOMAIN f.locals : fits(f.locals[l], S.locals[l])

\* No monitor is held that no frame or activation will release: entries never
\* exceed the records of the native activations and the interpreter's frames
\* together, across deoptimization, which moves a record between them.
NoOrphanMonitor ==
    dev \cap {"heldReturn", "monOverflow"} = {} =>
        \A o \in DOMAIN CurHeap.mon :
            CurHeap.mon[o] <=
                Recorded(FlattenSeq([i \in DOMAIN acts |-> acts[i].mons]), o)
                + Recorded(FlattenSeq([i \in DOMAIN t0.frames |-> t0.frames[i].mons]), o)

\* The depth budget bounds the native stack, up to the class initializer that
\* initClassIfNeeded runs without asking it; every activation but the innermost
\* waits for a call or an initializer.
DepthBounded ==
    /\ TypeOK
    /\ Len(acts) <= MaxDepth + 1
    /\ Len(acts) > MaxDepth => \E i \in DOMAIN acts : acts[i].m = P.clinit

SharedGuardId(m) ==
    \E p, q \in Pcs(m) : /\ p # q /\ DeclaresDeoptId(At(m, p)) /\ DeclaresDeoptId(At(m, q))
                         /\ At(m, p).imm = At(m, q).imm

\* A verified method is refused only for what the contracts name: an opcode
\* without stencil, a budget, a missing poll, a guard id out of range or
\* declared twice, an unresolved or builtin name; never because planner,
\* archive and instantiation disagree.  The planner's iterated liveness, which
\* decides what a fusion may skip, is liveness along paths.
PlansSound ==
    stage = "verify" => \A k \in DOMAIN P.methods :
        /\ image.of[k].ok /\ ~P.methods[k].abstract =>
              \/ image.of[k].status \in {"Ok", "NoStencilForOp", "BudgetExceeded",
                                         "MissingBackedgePoll", "BadOperandRange", "BadHole"}
              \/ image.of[k].status = "InternalInvariant" /\ SharedGuardId(P.methods[k])
        /\ HasCode(k) =>
              LET live == computeLiveness(P.methods[k])
              IN  \A pc \in Pcs(P.methods[k]) : live[pc] = image.of[k].live[pc]

\* A program that ends in the interpreter ends in the template tier.
EngineTerminates == [](stage = "t1" => <>(stage = "done" \/ dev # {}))

\* Fusion alone changes no result: skipped registers are dead after a window.
FusionPreservesResults == stage = "done" /\ dev \subseteq {"takenEdge"} => Agrees
====
