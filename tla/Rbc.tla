---- MODULE Rbc ----
(***************************************************************************)
(* Register bytecode: the opcode table of compiler/rbc/src/Opcode.cpp, one *)
(* member per family the verifier, the tiers and the planner tell apart,   *)
(* and the type lattice of include/b2/rbc/Type.h.                          *)
(*                                                                         *)
(* An instruction is [op, dst, a, b, imm, tbl]; tbl is the switch payload  *)
(* of the constant pool, <<default, target of key 0, of key 1, ...>>; for  *)
(* a lookupswitch imm is the sequence of its keys.  A method is [code,     *)
(* handlers, numRegs, numLocals, params, ret, sync, abstract], the params  *)
(* of an instance method starting with its receiver; pcs count from 0: the *)
(* instruction at pc is code[pc + 1].                                      *)
(***************************************************************************)
EXTENDS Integers, FiniteSets, SequencesExt

CONSTANT IntBits    \* width of an int: 32 in the code

IntMin == -(2 ^ (IntBits - 1))
Wrap(n) == ((n - IntMin) % (2 ^ IntBits)) + IntMin

\* C++ division truncates; MIN / -1 is pinned to MIN.
Quotient(a, b) ==
    LET abs(n) == IF n < 0 THEN -n ELSE n
        q == abs(a) \div abs(b)
    IN  Wrap(IF (a < 0) = (b < 0) THEN q ELSE -q)

RTypes == {"Bottom", "Int", "Null", "Ref"}

Info(sig, result, operandA, operandB, eff) ==
    [sig |-> sig, result |-> result, a |-> operandA, b |-> operandB, eff |-> eff]

\* The ops the compiled tier's modules cover.
TierOpInfo ==
    [safepoint_poll |-> Info("None", "Bottom", "Bottom", "Bottom", {"IsSafepoint"}),
     aconst_null    |-> Info("RegImm", "Null", "Bottom", "Bottom", {}),
     iconst         |-> Info("RegImm", "Int", "Bottom", "Bottom", {}),
     iload          |-> Info("RegSlot", "Int", "Bottom", "Bottom", {}),
     aload          |-> Info("RegSlot", "Ref", "Bottom", "Bottom", {}),
     istore         |-> Info("SlotReg", "Bottom", "Int", "Bottom", {}),
     astore         |-> Info("SlotReg", "Bottom", "Ref", "Bottom", {}),
     iadd           |-> Info("RegRegReg", "Int", "Int", "Int", {}),
     idiv           |-> Info("RegRegReg", "Int", "Int", "Int", {"CanTrap"}),
     iinc           |-> Info("RegImm", "Int", "Bottom", "Bottom", {}),
     goto           |-> Info("Branch", "Bottom", "Bottom", "Bottom", {"CanBranch"}),
     ifeq           |-> Info("RegBranch", "Bottom", "Int", "Bottom", {"CanBranch"}),
     ifnull         |-> Info("RegBranch", "Bottom", "Ref", "Bottom", {"CanBranch"}),
     if_icmpeq      |-> Info("RegRegBranch", "Bottom", "Int", "Int", {"CanBranch"}),
     if_icmpgt      |-> Info("RegRegBranch", "Bottom", "Int", "Int", {"CanBranch"}),
     tableswitch    |-> Info("RegCpBranch", "Bottom", "Int", "Bottom", {"CanBranch"}),
     getfield       |-> Info("RegRegCp", "Bottom", "Ref", "Bottom", {"CanTrap"}),
     getstatic      |-> Info("RegCp", "Bottom", "Bottom", "Bottom", {"CanTrap"}),
     putstatic      |-> Info("RegCp", "Bottom", "Bottom", "Bottom", {"CanTrap"}),
     arraylength    |-> Info("RegReg", "Int", "Ref", "Bottom", {"CanTrap"}),
     multianewarray |-> Info("RegRegRegCp", "Ref", "Int", "Bottom",
                            {"CanTrap", "IsSafepoint"}),
     monitorenter   |-> Info("Reg", "Bottom", "Ref", "Bottom", {"CanTrap", "IsSafepoint"}),
     monitorexit    |-> Info("Reg", "Bottom", "Ref", "Bottom", {"CanTrap", "IsSafepoint"}),
     invokestatic   |-> Info("Call", "Bottom", "Bottom", "Bottom",
                            {"CanCall", "CanTrap", "IsSafepoint"}),
     return         |-> Info("None", "Bottom", "Bottom", "Bottom", {}),
     ireturn        |-> Info("Reg", "Bottom", "Int", "Bottom", {}),
     athrow         |-> Info("Reg", "Bottom", "Ref", "Bottom", {"CanTrap"}),
     guard_non_null |-> Info("Guard", "Bottom", "Ref", "Bottom", {"CanTrap", "CanBranch"})]

\* The further ops the frontend emits.
FrontendOpInfo ==
    [nop            |-> Info("None", "Bottom", "Bottom", "Bottom", {}),
     ldc            |-> Info("RegCp", "Ref", "Bottom", "Bottom", {"CanTrap"}),
     imove          |-> Info("RegReg", "Int", "Int", "Bottom", {}),
     amove          |-> Info("RegReg", "Ref", "Ref", "Bottom", {}),
     i2b            |-> Info("RegReg", "Int", "Int", "Bottom", {}),
     ineg           |-> Info("RegReg", "Int", "Int", "Bottom", {}),
     icmp           |-> Info("RegRegReg", "Int", "Int", "Int", {}),
     ixor           |-> Info("RegRegReg", "Int", "Int", "Int", {}),
     ifne           |-> Info("RegBranch", "Bottom", "Int", "Bottom", {"CanBranch"}),
     iflt           |-> Info("RegBranch", "Bottom", "Int", "Bottom", {"CanBranch"}),
     if_icmpge      |-> Info("RegRegBranch", "Bottom", "Int", "Int", {"CanBranch"}),
     if_acmpeq      |-> Info("RegRegBranch", "Bottom", "Ref", "Ref", {"CanBranch"}),
     lookupswitch   |-> Info("RegCpBranch", "Bottom", "Int", "Bottom", {"CanBranch"}),
     putfield       |-> Info("RegRegRegCp", "Bottom", "Ref", "Bottom", {"CanTrap"}),
     newarray       |-> Info("RegRegImm", "Ref", "Int", "Bottom", {"CanTrap", "IsSafepoint"}),
     iaload         |-> Info("RegRegReg", "Int", "Ref", "Int", {"CanTrap"}),
     iastore        |-> Info("RegRegReg", "Bottom", "Ref", "Int", {"CanTrap"}),
     new            |-> Info("RegCp", "Ref", "Bottom", "Bottom", {"CanTrap", "IsSafepoint"}),
     invokevirtual  |-> Info("Call", "Bottom", "Bottom", "Bottom",
                            {"CanCall", "CanTrap", "IsSafepoint"}),
     invokespecial  |-> Info("Call", "Bottom", "Bottom", "Bottom",
                            {"CanCall", "CanTrap", "IsSafepoint"}),
     areturn        |-> Info("Reg", "Bottom", "Ref", "Bottom", {})]

OpInfo == FrontendOpInfo @@ TierOpInfo

Ops == DOMAIN TierOpInfo
Sig(op) == OpInfo[op].sig

\* Least upper bound of a non-empty set of types: only Null and Ref merge.
join(types) ==
    IF Cardinality(types) = 1 THEN CHOOSE t \in types : TRUE
    ELSE IF types = {"Null", "Ref"} THEN "Ref" ELSE "Bottom"

isAssignable(from, to) == from = to \/ (from = "Null" /\ to = "Ref")

----
(* Methods.                                                                *)

At(m, pc) == m.code[pc + 1]
Pcs(m) == 0 .. Len(m.code) - 1

isBranchSig(op) == Sig(op) \in {"Branch", "RegBranch", "RegRegBranch"}
isReturnOp(op) == op \in {"return", "ireturn", "areturn"}

\* The destinations of one instruction, the fall-through not included.
Targets(ins) ==
    CASE isBranchSig(ins.op) -> {ins.imm}
      [] Sig(ins.op) = "RegCpBranch" -> ToSet(ins.tbl)
      [] OTHER -> {}

\* The return part of a descriptor, "V", "I", "A" or "Z" (boolean, byte, char
\* and short).  The tiers' parser knows no bare "Z" and answers Bottom, which
\* its callers read as void.
parseReturn(ret) == CASE ret = "I" -> "Int" [] ret = "A" -> "Ref" [] OTHER -> "Bottom"

\* The return part of the MethodRef a call names; an unresolvable one is void.
CalleeRet(methods, ins) == IF ins.imm \in DOMAIN methods THEN methods[ins.imm].ret ELSE "V"

\* The type of the field a constant-pool index names.
IntField == 1
RefField == 2
BuiltinField == 3      \* java/lang/System.out
UnresolvedField == 4
Println == 1000        \* the MethodRef java/io/PrintStream.println(I)V
FieldType(imm) == IF imm = IntField THEN "Int" ELSE "Ref"

\* f itself; TLC evaluates the function here and not where it is applied.
Tabulated(f) == f @@ <<>>
====
