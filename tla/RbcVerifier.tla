---- MODULE RbcVerifier ----
(***************************************************************************)
(* The bytecode verifier, compiler/rbc/src/Verifier.cpp: structural checks *)
(* on every instruction and handler, then a forward dataflow analysis that *)
(* types every register and local at every reachable pc.                   *)
(*                                                                         *)
(* The code iterates a worklist over basic blocks; the model iterates over *)
(* single instructions until nothing changes.  Both descend a finite chain *)
(* from "not visited" and stop at the same fixpoint.  The constant pool is *)
(* abstracted to well-formed entries: imm names a field, or a method of    *)
(* the program by its number; diagnostics to the verdict.                  *)
(***************************************************************************)
EXTENDS Rbc

----
(* Phase 1: operand ranges, branch targets, handlers.                      *)

\* The fields of an instruction that are registers.
regUse(sig) ==
    CASE sig \in {"Reg", "SlotReg", "RegBranch", "RegCpBranch", "Guard"} -> {"a"}
      [] sig \in {"RegImm", "RegCp", "RegSlot"} -> {"dst"}
      [] sig \in {"RegReg", "RegRegImm", "RegRegCp", "Call"} -> {"dst", "a"}
      [] sig \in {"RegRegReg", "RegRegRegCp"} -> {"dst", "a", "b"}
      [] sig = "RegRegBranch" -> {"a", "b"}
      [] OTHER -> {}

canFallThrough(op) ==
    ~isReturnOp(op) /\ op \notin {"goto", "tableswitch", "lookupswitch", "athrow"}

InsOk(m, ins) ==
    /\ \A field \in regUse(Sig(ins.op)) : ins[field] < m.numRegs
    /\ Sig(ins.op) = "Call" /\ ins.b # 0 => ins.a + ins.b <= m.numRegs
    /\ Sig(ins.op) \in {"RegSlot", "SlotReg"} => ins.imm < m.numLocals
    /\ ins.op = "lookupswitch" => \A i \in 2 .. Len(ins.imm) : ins.imm[i - 1] < ins.imm[i]
    /\ Targets(ins) \subseteq Pcs(m)

HandlerOk(m, h) == h.start < h.end /\ h.end <= Len(m.code) /\ h.handler \in Pcs(m)

\* parseParams knows no bare boolean, byte, char or short.
ParamsOk(m) ==
    /\ \A i \in DOMAIN m.params : m.params[i] \in {"I", "A"}
    /\ Len(m.params) <= m.numLocals

\* Phases 0 to 1b and the gates before the dataflow, of a method with a body.
Structural(m) ==
    /\ \A pc \in Pcs(m) : InsOk(m, At(m, pc))
    /\ \A i \in DOMAIN m.handlers : HandlerOk(m, m.handlers[i])
    /\ ~canFallThrough(Last(m.code).op)
    /\ ParamsOk(m)

----
(* Phase 2: types.  A state is [seen, regs, locals].                       *)

Regs(m) == 0 .. m.numRegs - 1
Locals(m) == 0 .. m.numLocals - 1

Unseen(m) == [seen |-> FALSE, regs |-> [r \in Regs(m) |-> "Bottom"],
              locals |-> [l \in Locals(m) |-> "Bottom"]]

Entry(m) ==
    [seen |-> TRUE, regs |-> Tabulated([r \in Regs(m) |-> "Bottom"]),
     locals |-> Tabulated([l \in Locals(m) |-> IF l < Len(m.params) THEN parseReturn(m.params[l + 1])
                                               ELSE "Bottom"])]

\* The return part as the verifier's own scanner reads it: "Z" folds to Int.
scanReturn(ret) == IF ret = "Z" THEN "Int" ELSE parseReturn(ret)

\* The state after one instruction, diagnostics aside.
stepIns(methods, ins, S) ==
    LET info == OpInfo[ins.op]
        setDst(t) == [S EXCEPT !.regs[ins.dst] = t]
    IN  CASE info.sig = "SlotReg" -> [S EXCEPT !.locals[ins.imm] = S.regs[ins.a]]
          [] ins.op \in {"getfield", "getstatic"} -> setDst(FieldType(ins.imm))
          [] info.sig = "Call" /\ CalleeRet(methods, ins) # "V" ->
                 setDst(scanReturn(CalleeRet(methods, ins)))
          [] info.result # "Bottom" -> setDst(info.result)
          [] OTHER -> S

(* Mutant: registers survive into the handler. *)
SeedKeeping(m, S) == [S EXCEPT !.regs = [@ EXCEPT ![0] = "Ref"]]

\* What an exception raised at a pc hands its handler: the locals before pc,
\* the exception in r0, no other register.
seedHandler(m, S) ==
    [S EXCEPT !.regs = Tabulated([r \in Regs(m) |-> IF r = 0 THEN "Ref" ELSE "Bottom"])]

\* Element-wise join of the states arriving at one pc.
joinInto(m, states) ==
    IF states = {} THEN Unseen(m)
    ELSE IF Cardinality(states) = 1 THEN CHOOSE s \in states : TRUE
    ELSE [seen |-> TRUE,
          regs |-> Tabulated([r \in Regs(m) |-> join({s.regs[r] : s \in states})]),
          locals |-> Tabulated([l \in Locals(m) |-> join({s.locals[l] : s \in states})])]

\* The normal edges out of pc.
FlowSuccs(m, pc) ==
    Targets(At(m, pc)) \cup (IF canFallThrough(At(m, pc).op) THEN {pc + 1} ELSE {})

\* For every pc: the pcs with an edge to it, and the pcs a handler there guards.
Preds(m) ==
    Tabulated([pc \in Pcs(m) |->
        [flow |-> {q \in Pcs(m) : pc \in FlowSuccs(m, q)},
         raised |-> UNION {m.handlers[i].start .. m.handlers[i].end - 1 :
                              i \in {k \in DOMAIN m.handlers : m.handlers[k].handler = pc}}]])

Incoming(methods, m, preds, in, pc) ==
    (IF pc = 0 THEN {Entry(m)} ELSE {})
      \cup {stepIns(methods, At(m, p), in[p]) : p \in {q \in preds[pc].flow : in[q].seen}}
      \cup {seedHandler(m, in[p]) : p \in {q \in preds[pc].raised : in[q].seen}}

\* The pcs lo .. hi - 1 visited in order.  The halves are bound as elements of
\* a set, so that TLC evaluates one after the other on a shallow stack.
RECURSIVE Sweep(_, _, _, _, _, _)
Sweep(methods, m, preds, in, lo, hi) ==
    IF hi = lo + 1 THEN [in EXCEPT ![lo] = joinInto(m, Incoming(methods, m, preds, in, lo))]
    ELSE LET mid == (lo + hi) \div 2
         IN  CHOOSE s \in {Sweep(methods, m, preds, half, mid, hi) :
                               half \in {Sweep(methods, m, preds, in, lo, mid)}} : TRUE

\* inStates: the state before every pc, at the fixpoint.
inStates(methods, m) ==
    LET States == [seen : BOOLEAN, regs : [Regs(m) -> RTypes], locals : [Locals(m) -> RTypes]]
        preds == Preds(m)
        fix[in \in [Pcs(m) -> States]] ==
            CHOOSE r \in {IF next = in THEN in ELSE fix[next] :
                              next \in {Sweep(methods, m, preds, in, 0, Len(m.code))}} : TRUE
    IN  fix[Tabulated([pc \in Pcs(m) |-> Unseen(m)])]

\* The diagnostics of the final sweep at a reachable pc.  Call operands are
\* skipped: a is an argument base and b a count.
OperandsOk(m, ins, S) ==
    LET info == OpInfo[ins.op]
        use == regUse(info.sig)
    IN  /\ info.sig # "Call" =>
              /\ "a" \in use /\ info.a # "Bottom" => isAssignable(S.regs[ins.a], info.a)
              /\ "b" \in use /\ info.b # "Bottom" => isAssignable(S.regs[ins.b], info.b)
        /\ ins.op = "iinc" => S.regs[ins.dst] = "Int"
        /\ info.sig = "RegSlot" => isAssignable(S.locals[ins.imm], info.result)
        /\ ins.op = "return" => m.ret = "V"
        /\ ins.op = "ireturn" => scanReturn(m.ret) = "Int"
        /\ ins.op = "areturn" => scanReturn(m.ret) = "Ref"

\* The types of the locals the sweep carries up to pc: what the last visited
\* pc before it left.
Carried(methods, m, in, pc) ==
    LET last == CHOOSE p \in 0 .. pc - 1 : in[p].seen /\ \A q \in p + 1 .. pc - 1 : ~in[q].seen
    IN  stepIns(methods, At(m, last), in[last]).locals

\* pc is a change point of a local: a store at pc - 1 re-typed it, or the
\* in-state of a visited leader differs from what the sweep carried there.
ChangesAt(methods, m, in, pc) ==
    \E was \in {Carried(methods, m, in, pc)} : \E l \in Locals(m) :
        \/ in[pc - 1].seen /\ was[l] # in[pc - 1].locals[l]
        \/ pc \in Pcs(m) /\ in[pc].seen /\ in[pc].locals[l] # was[l]

\* No local is re-typed strictly inside a protected range.
StableInRange(methods, m, in, h) ==
    \A pc \in h.start + 1 .. h.end - 1 : ~ChangesAt(methods, m, in, pc)

\* An abstract method has no code, every other one has some.
verify(methods, m) ==
    /\ m.abstract = (m.code = <<>>)
    /\ m.abstract \/ /\ Structural(m)
                     /\ LET in == inStates(methods, m) IN
                        /\ \A pc \in Pcs(m) : in[pc].seen => OperandsOk(m, At(m, pc), in[pc])
                        /\ \A i \in DOMAIN m.handlers :
                              StableInRange(methods, m, in, m.handlers[i])
====
