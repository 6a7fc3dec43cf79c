------------------------------- MODULE NodeInfo -------------------------------
(***************************************************************************)
(* The registry of IR node kinds (compiler/ir/core/NodeInfo.cpp): for each *)
(* kind its class, the roles of its fixed inputs, the role of the inputs   *)
(* that may follow ("None" when none may), whether a FrameState input      *)
(* trails, and its primary effect class.                                   *)
(***************************************************************************)
EXTENDS Naturals, Sequences, TLC

Row(cls, roles, variadicRole, hasFrameState, effect) ==
    [cls |-> cls, roles |-> roles, variadicRole |-> variadicRole,
     hasFrameState |-> hasFrameState, effect |-> effect]

\* The same row for every kind of S.
Rows(S, row) == [k \in S |-> row]

ControlInfo ==
       "Start" :> Row("Control", <<>>, "None", FALSE, "Pure")
    @@ Rows({"End", "Region", "LoopBegin"}, Row("Control", <<>>, "Ctrl", FALSE, "Pure"))
    @@ Rows({"If", "Switch"}, Row("Control", <<"Ctrl", "Data">>, "None", FALSE, "Pure"))
    @@ Rows({"IfTrue", "IfFalse", "SwitchCase", "SwitchDefault"},
            Row("Control", <<"Parent">>, "None", FALSE, "Pure"))
    @@ "LoopEnd" :> Row("Control", <<"Ctrl">>, "None", FALSE, "Pure")
    @@ Rows({"LoopExit", "Deopt"}, Row("Control", <<"Ctrl">>, "None", TRUE, "Pure"))
    @@ "Return" :> Row("Control", <<"Ctrl">>, "Data", FALSE, "Pure")
    @@ "Unwind" :> Row("Control", <<"Ctrl", "Data">>, "None", FALSE, "ExceptionThrow")

MemoryInfo ==
       "LoadField" :> Row("Memory", <<"Ctrl", "Mem", "Data">>, "None", FALSE, "ReadShared")
    @@ "StoreField" :> Row("Memory", <<"Ctrl", "Mem", "Data", "Data">>, "None", FALSE, "WriteShared")
    @@ "LoadStatic" :> Row("Memory", <<"Ctrl", "Mem">>, "None", FALSE, "ReadShared")
    @@ "StoreStatic" :> Row("Memory", <<"Ctrl", "Mem", "Data">>, "None", FALSE, "WriteShared")
    @@ Rows({"LoadElem", "VectorLoad"},
            Row("Memory", <<"Ctrl", "Mem", "Data", "Data">>, "None", FALSE, "ReadShared"))
    @@ Rows({"StoreElem", "VectorStore"},
            Row("Memory", <<"Ctrl", "Mem", "Data", "Data", "Data">>, "None", FALSE, "WriteShared"))
    @@ "ArrayLength" :> Row("Value", <<"Data">>, "None", FALSE, "ReadShared")
    @@ "MemBar" :> Row("Memory", <<"Ctrl", "Mem">>, "None", FALSE, "VolatileWrite")
    @@ "MonitorEnter" :> Row("Memory", <<"Ctrl", "Mem", "Data">>, "None", FALSE, "MonitorEnter")
    @@ "MonitorExit" :> Row("Memory", <<"Ctrl", "Mem", "Data">>, "None", FALSE, "MonitorExit")
    @@ "New" :> Row("Memory", <<"Ctrl">>, "None", FALSE, "Allocation")
    @@ Rows({"NewArray", "NewRefArray"}, Row("Memory", <<"Ctrl", "Data">>, "None", FALSE, "Allocation"))
    @@ "NewMultiArray" :> Row("Memory", <<"Ctrl">>, "Data", FALSE, "Allocation")
    @@ "Materialize" :> Row("Memory", <<"Ctrl", "Mem", "Data">>, "None", FALSE, "Allocation")
    @@ "ClassInit" :> Row("Memory", <<"Ctrl", "Mem">>, "None", FALSE, "CallOpaque")

CallAndGuardInfo ==
       Rows({"CallStatic", "CallVirtual", "CallInterface", "CallDynamic"},
            Row("Call", <<"Ctrl", "Mem">>, "Data", TRUE, "CallOpaque"))
    @@ "CallExcept" :> Row("Call", <<"Parent">>, "None", FALSE, "Pure")
    @@ "LoadException" :> Row("Call", <<"Ctrl">>, "None", FALSE, "Pure")
    @@ "CheckCast" :> Row("TypeOp", <<"Ctrl", "Data">>, "None", FALSE, "ExceptionThrow")
    @@ "InstanceOf" :> Row("TypeOp", <<"Data">>, "None", FALSE, "ReadShared")
    @@ Rows({"Guard", "RepTransitionGuard"},
            Row("Guard", <<"Ctrl", "Data">>, "None", TRUE, "Pure"))

\* Pure values by arity: constants, unary and binary arithmetic and
\* comparisons, conversions, vectors, virtual objects, merges.
NullaryKinds == {"ConstantI", "ConstantL", "ConstantF", "ConstantD", "ConstantNull",
                 "ConstantSym", "Parameter", "Undef"}
UnaryKinds == {"NegI", "NegL", "NegF", "NegD", "I2L", "I2F", "I2D", "L2I", "L2F", "L2D",
               "F2I", "F2L", "F2D", "D2I", "D2L", "D2F", "I2B", "I2C", "I2S",
               "SignExtend", "ZeroExtend", "Truncate", "BitCast", "CompressedRefEncode",
               "CompressedRefDecode", "BoxPrimitive", "UnboxPrimitive", "VectorBroadcast",
               "VectorReduce", "TagValue", "UntagValue", "Not", "IsNull"}
BinaryKinds == {"AddI", "SubI", "MulI", "DivI", "RemI", "ShlI", "ShrI", "UShrI", "AndI",
                "OrI", "XorI", "AddL", "SubL", "MulL", "DivL", "RemL", "ShlL", "ShrL",
                "UShrL", "AndL", "OrL", "XorL", "AddF", "SubF", "MulF", "DivF", "RemF",
                "AddD", "SubD", "MulD", "DivD", "RemD", "CmpI", "CmpL", "CmpFl", "CmpFg",
                "CmpDl", "CmpDg", "VectorExtract", "VectorOp", "RefEq", "EqI", "NeI",
                "LtI", "LeI", "GtI", "GeI"}

ValueInfo ==
       Rows(NullaryKinds, Row("Value", <<>>, "None", FALSE, "Pure"))
    @@ Rows(UnaryKinds, Row("Value", <<"Data">>, "None", FALSE, "Pure"))
    @@ Rows(BinaryKinds, Row("Value", <<"Data", "Data">>, "None", FALSE, "Pure"))
    @@ Rows({"VectorInsert", "VectorMaskOp"},
            Row("Value", <<"Data", "Data", "Data">>, "None", FALSE, "Pure"))
    @@ Rows({"VectorPack", "VirtualObjectState"}, Row("Value", <<>>, "Data", FALSE, "Pure"))
    @@ "Phi" :> Row("Value", <<"Ctrl">>, "Data", FALSE, "Pure")
    @@ "FrameState" :> Row("State", <<>>, "Data", FALSE, "Pure")

Registry == ControlInfo @@ MemoryInfo @@ CallAndGuardInfo @@ ValueInfo

Kinds == DOMAIN Registry

info(kind) == Registry[kind]

\* The role of input `slot` (from 1) of a node with numInputs inputs, as the
\* graph's readers compute it: the trailing FrameState first, then the fixed
\* roles, then the variadic role.
RoleOfSlot(kind, numInputs, slot) ==
    LET i == info(kind)
    IN  IF numInputs = 0 THEN "None"
        ELSE IF i.hasFrameState /\ slot = numInputs THEN "FrameState"
        ELSE IF slot <= Len(i.roles) THEN i.roles[slot]
        ELSE i.variadicRole
=============================================================================
