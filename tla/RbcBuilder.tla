---- MODULE RbcBuilder ----
(***************************************************************************)
(* The assembler behind the frontend, compiler/rbc/src/RbcBuilder.cpp: it  *)
(* hands out registers and labels, appends instructions, and finish()      *)
(* patches the branches and refuses what it can see is malformed.          *)
(*                                                                         *)
(* A builder is a record with at least the fields of NewBuilder.  Until    *)
(* finish the imm of a branch is a label, as are the switch targets after  *)
(* the first; the constant pool is replaced by its entries.  A call that   *)
(* returns a value always gets a fresh register, so that check is left out.*)
(***************************************************************************)
EXTENDS Rbc

CONSTANT MaxRegs    \* kMaxRegs: 65536 in the code

kUnbound == -1
kDoubleBound == -2

NewBuilder(numLocals) ==
    [code |-> <<>>, bound |-> <<>>, handlers |-> <<>>, numRegs |-> 0,
     numLocals |-> numLocals, pendingError |-> FALSE]

----
(* Emission.                                                               *)

Ins(op, dst, a, b, imm) == [op |-> op, dst |-> dst, a |-> a, b |-> b, imm |-> imm, tbl |-> <<>>]

here(g) == Len(g.code)

rawEmit(g, ins) == [g EXCEPT !.code = Append(@, ins)]

emit(g, op) == rawEmit(g, Ins(op, 0, 0, 0, 0))
emitReg(g, op, a) == rawEmit(g, Ins(op, 0, a, 0, 0))
emitSlotReg(g, op, a, slot) == rawEmit(g, Ins(op, 0, a, 0, slot))
emitBranch(g, op, L) == rawEmit(g, Ins(op, 0, 0, 0, L))
emitRegBranch(g, op, a, L) == rawEmit(g, Ins(op, 0, a, 0, L))
emitRegRegBranch(g, op, a, b, L) == rawEmit(g, Ins(op, 0, a, b, L))

\* lookupswitch: the pairs sorted by match, the default the next instruction.
\* Misuse has no error channel here and fails finish.
emitSwitch(g, a, matches, targets) ==
    LET order == SortSeq([i \in DOMAIN matches |-> i],
                         LAMBDA i, j : matches[i] < matches[j])
        keys == [i \in DOMAIN order |-> matches[order[i]]]
        table == <<here(g) + 1>> \o [i \in DOMAIN order |-> targets[order[i]]]
    IN  [rawEmit(g, [Ins("lookupswitch", 0, a, 0, keys) EXCEPT !.tbl = table])
            EXCEPT !.pendingError = @ \/ ~IsInjective(matches)]

----
(* Labels and handlers.                                                    *)

\* n new labels: Len(g.bound) + 1, ... , Len(g.bound) + n.
newLabels(g, n) == [g EXCEPT !.bound = @ \o [i \in 1 .. n |-> kUnbound]]

bind(g, L) ==
    [g EXCEPT !.bound[L] = IF @ = kUnbound THEN here(g) ELSE kDoubleBound]

addHandler(g, start, end, handler, catch) ==
    [g EXCEPT !.handlers =
        Append(@, [start |-> start, end |-> end, handler |-> handler, catch |-> catch])]

----
(* finish.                                                                 *)

\* The labels the patches of one instruction name.
LabelsOf(ins) ==
    IF isBranchSig(ins.op) THEN {ins.imm}
    ELSE IF Sig(ins.op) = "RegCpBranch" THEN ToSet(Tail(ins.tbl)) ELSE {}

Patched(g, ins) ==
    IF isBranchSig(ins.op) THEN [ins EXCEPT !.imm = g.bound[@]]
    ELSE IF Sig(ins.op) = "RegCpBranch"
    THEN [ins EXCEPT !.tbl = <<Head(@)>> \o [i \in 1 .. Len(@) - 1 |-> g.bound[@[i + 1]]]]
    ELSE ins

\* The register operands finish bounds; a putfield's dst is unused, a call's
\* b is a count.
RegFields(ins) ==
    CASE Sig(ins.op) = "Call" \/ Sig(ins.op) \in {"None", "Branch"} -> {}
      [] ins.op = "putfield" -> {"a", "b"}
      [] Sig(ins.op) \in {"Reg", "RegBranch", "RegCpBranch", "Guard", "SlotReg"} -> {"a"}
      [] Sig(ins.op) \in {"RegImm", "RegCp", "RegSlot"} -> {"dst"}
      [] Sig(ins.op) = "RegRegBranch" -> {"a", "b"}
      [] Sig(ins.op) \in {"RegReg", "RegRegImm", "RegRegCp"} -> {"dst", "a"}
      [] OTHER -> {"dst", "a", "b"}

WellFormed(g) ==
    /\ ~g.pendingError
    /\ \A L \in DOMAIN g.bound : g.bound[L] # kDoubleBound
    /\ \A i \in DOMAIN g.code :
          LET ins == g.code[i]
          IN  /\ \A L \in LabelsOf(ins) : g.bound[L] \in 0 .. here(g) - 1
              /\ Sig(ins.op) = "RegCpBranch" => i < Len(g.code)
              /\ \A field \in RegFields(ins) : ins[field] < g.numRegs
              /\ Sig(ins.op) = "Call" /\ ins.b > 0 => ins.a + ins.b <= g.numRegs
              /\ Sig(ins.op) \in {"RegSlot", "SlotReg"} => ins.imm < g.numLocals
    /\ g.numRegs <= MaxRegs
    /\ \A i \in DOMAIN g.handlers :
          LET h == g.handlers[i]
          IN  h.start < h.end /\ h.end <= here(g) /\ h.handler < here(g)

\* The published body, meaningful when WellFormed.
finish(g) ==
    [code |-> Tabulated([i \in DOMAIN g.code |-> Patched(g, g.code[i])]), handlers |-> g.handlers,
     numRegs |-> g.numRegs, numLocals |-> g.numLocals]
====
