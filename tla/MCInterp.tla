------------------------------ MODULE MCInterp ------------------------------
(* Small programs of one class, P, for the T0 interpreter. *)
EXTENDS Interp

Zero(s) == [i \in 0 .. Len(s) - 1 |-> s[i + 1]]

P == <<"P">>

(* Instructions. *)
I(op, dst, a, b, imm) ==
    [op |-> op, dst |-> dst, a |-> a, b |-> b, imm |-> imm,
     type |-> "Int", sense |-> TRUE, targets |-> {}]
Null(dst) == [I("produce", dst, 0, 0, 0) EXCEPT !.type = "Ref"]

(* Pool constants. *)
C(kind, cls, name, type) == [kind |-> kind, cls |-> cls, name |-> name, type |-> type]
Field(name, type) == C("FieldRef", P, name, type)
Ref(name) == C("MethodRef", P, name, "Ref")

(* Handlers and methods. *)
H(start, end, handler, catch) ==
    [start |-> start, end |-> end, handler |-> handler, catch |-> catch]
M(name, params, nl, nr, code, pool, handlers) ==
    [name |-> name, params |-> params, static |-> TRUE, synchronized |-> FALSE,
     abstract |-> FALSE, numLocals |-> nl, numRegs |-> nr, returns |-> "Bottom",
     code |-> Zero(code), cp |-> Zero(pool), handlers |-> handlers]
OnInstance(m) == [m EXCEPT !.static = FALSE]
Sync(m) == [m EXCEPT !.synchronized = TRUE]
ReturnsInt(m) == [m EXCEPT !.returns = "Int"]

(* <clinit> writes a static, uses its own class and may divide by zero. *)
ClinitM ==
    M("<clinit>", <<>>, 0, 2,
      <<I("produce", 0, 0, 0, 0), I("putstatic", 0, 0, 0, 0),
        I("divide", 1, 0, 0, 0), I("new", 1, 0, 0, 1),
        I("return", 0, 0, 0, 0)>>,
      <<Field("s", "Int"), C("Class", P, "P", "Ref")>>, <<>>)

InitM == OnInstance(M("<init>", <<"Ref">>, 1, 0, <<I("return", 0, 0, 0, 0)>>, <<>>, <<>>))

(* Unbounded recursion that catches only the overflow. *)
DownM ==
    OnInstance(M("down", <<"Ref">>, 1, 2,
      <<I("load", 0, 0, 0, 0), I("invokevirtual", 1, 0, 1, 0),
        I("return", 0, 0, 0, 0)>>,
      <<Ref("down")>>,
      <<H(0, 2, 2, <<"StackOverflowError">>)>>))

(* Two objects locked, one twice, with a trap inside; the handler unlocks   *)
(* one of them and rethrows.                                                *)
LockM ==
    M("lock", <<>>, 1, 3,
      <<I("new", 1, 0, 0, 0), I("store", 0, 1, 0, 0), I("monitorenter", 0, 1, 0, 0),
        I("monitorenter", 0, 1, 0, 0), I("invokestatic", 2, 1, 1, 1),
        I("monitorexit", 0, 1, 0, 0), I("monitorexit", 0, 1, 0, 0),
        I("return", 0, 0, 0, 0),
        I("load", 1, 0, 0, 0), I("monitorexit", 0, 1, 0, 0), I("athrow", 0, 0, 0, 0)>>,
      <<C("Class", P, "P", "Ref"), Ref("unlock")>>,
      <<H(4, 8, 8, AnyClass)>>)

(* A callee that exits its caller's monitor, or divides by zero. *)
UnlockM ==
    ReturnsInt(M("unlock", <<"Ref">>, 1, 2,
      <<I("load", 0, 0, 0, 0), I("if_int", 0, 0, 0, 3), I("divide", 1, 0, 0, 0),
        I("monitorexit", 0, 0, 0, 0), I("produce", 1, 0, 0, 0),
        I("xreturn", 0, 1, 0, 0)>>,
      <<>>, <<>>))
(* The class is first used here; the value of a call and an uncaught trap.  *)
MainM ==
    M("main", <<"Int">>, 1, 3,
      <<I("getstatic", 0, 0, 0, 0), I("new", 1, 0, 0, 1), I("invokespecial", 0, 1, 1, 2),
        I("invokevirtual", 0, 1, 1, 3), I("invokestatic", 2, 1, 1, 4),
        I("return", 0, 0, 0, 0)>>,
      <<Field("s", "Int"), C("Class", P, "P", "Ref"), Ref("<init>"), Ref("down"),
        Ref("unlock")>>,
      <<H(2, 4, 5, <<"Error">>), H(4, 5, 5, <<"IllegalMonitorStateException">>)>>)

SyncStaticM == Sync(M("ss", <<>>, 0, 1,
    <<I("divide", 0, 0, 0, 0), I("return", 0, 0, 0, 0)>>, <<>>, <<>>))

SyncM == OnInstance(Sync(M("sync", <<"Ref">>, 1, 1,
    <<I("divide", 0, 0, 0, 0), I("return", 0, 0, 0, 0)>>, <<>>, <<>>)))

AbstractM == [OnInstance(M("abs", <<"Ref">>, 0, 0, <<>>, <<>>, <<>>)) EXCEPT !.abstract = TRUE]

(* Calls that trap or print, each under a catch-all handler. *)
OddM ==
    M("odd", <<>>, 0, 2,
      <<I("switch", 0, 0, 0, 0),
        I("getstatic", 0, 0, 0, 0), I("ldc", 1, 0, 0, 1), I("invokevirtual", 0, 0, 2, 2),
        I("invokevirtual", 0, 0, 0, 2), I("return", 0, 0, 0, 0),
        Null(0), I("invokevirtual", 0, 0, 1, 3),
        I("invokedynamic", 0, 0, 0, 0), I("deopt_trap", 0, 0, 0, 0),
        I("ldc", 0, 0, 0, 4), I("invokespecial", 0, 0, 1, 3),
        I("ldc", 0, 0, 0, 5), I("invokestatic", 0, 0, 0, 6),
        I("putstatic", 0, 0, 0, 0), I("return", 0, 0, 0, 0)>>,
      <<C("FieldRef", <<"System">>, "out", "Ref"), C("String", String, "hello", "Ref"),
        C("MethodRef", PrintStream, "println", "Ref"), Ref("abs"),
        C("Class", P, "P", "Ref"), C("MethodType", P, "t", "Ref"), Ref("missing")>>,
      <<H(0, 15, 15, AnyClass)>>)
Odd == [OddM EXCEPT !.code[0].targets = {1, 6, 8, 9, 10, 12, 13, 14}]

CallsMethods ==
    Zero(<<ClinitM, InitM, DownM, LockM, UnlockM, MainM, SyncStaticM, SyncM>>)

CallsProgram == CallsMethods

NoFrames == {}

(* <clinit> of the programs below. *)
QuietClinitM == M("<clinit>", <<>>, 0, 1,
    <<I("produce", 0, 0, 0, 0), I("putstatic", 0, 0, 0, 0), I("return", 0, 0, 0, 0)>>,
    <<Field("s", "Int")>>, <<>>)

(* Fields on a receiver that may be null, an instance or an array; the      *)
(* fields of P get their slots in the order the sites run.                  *)
FieldsM ==
    M("fields", <<"Ref">>, 1, 3,
      <<I("load", 0, 0, 0, 0), I("if_int", 0, 0, 0, 3), I("newarray", 0, 1, 0, 0),
        I("if_int", 0, 0, 0, 5), I("putfield", 0, 0, 0, 0), I("getfield", 1, 0, 0, 1),
        I("getfield_quick", 2, 0, 0, 1), I("putfield_quick", 0, 0, 1, 2),
        I("putfield", 0, 0, 1, 1), I("return", 0, 0, 0, 0)>>,
      <<Field("f", "Ref"), Field("g", "Int")>>,
      <<H(4, 8, 9, <<"InternalError">>)>>)

MakeM ==
    M("make", <<>>, 0, 1,
      <<I("new", 0, 0, 0, 0), I("invokespecial_quick", 0, 0, 1, 2), I("nop", 0, 0, 0, 0),
        I("return", 0, 0, 0, 0)>>,
      <<C("Class", P, "P", "Ref")>>, <<>>)

(* Arrays: an element store that may be rejected, a Bottom element (the     *)
(* handler's registers are dead), a nested array.                           *)
ArraysM ==
    M("arrays", <<>>, 1, 4,
      <<I("newarray", 0, 0, 0, 0), I("store", 0, 0, 0, 0), I("switch", 0, 0, 0, 0),
        I("xastore", 2, 0, 1, 0), I("xaload", 1, 0, 1, 0), I("return", 0, 0, 0, 0),
        I("anewarray", 1, 0, 0, 0), I("aastore", 0, 1, 0, 0), I("return", 0, 0, 0, 0),
        I("multianewarray", 1, 0, 2, 1), I("xaload", 2, 1, 0, 0),
        I("aastore", 2, 1, 0, 0), I("aastore", 1, 1, 0, 0), I("return", 0, 0, 0, 0),
        I("multianewarray", 1, 0, 1, 1), I("multianewarray", 1, 0, 0, 1),
        I("aastore", 0, 0, 0, 0), Null(3), I("aastore", 3, 1, 0, 0),
        I("arraylength", 1, 0, 0, 0), I("arraylength", 1, 3, 0, 0),
        I("xaload", 1, 3, 0, 0)>>
        \o <<I("checkcast", 1, 0, 0, 1), I("checkcast", 2, 0, 0, 2),
             I("instanceof", 2, 0, 0, 1), I("ldc", 2, 0, 0, 3), I("checkcast", 1, 2, 0, 2),
             I("move", 3, 2, 0, 0), I("if_acmp", 0, 3, 2, 30), I("if_null", 0, 3, 0, 31),
             I("if_acmp", 0, 3, 0, 29), I("arraylength", 1, 2, 0, 0),
             I("return", 0, 0, 0, 0)>>,
      <<C("Class", P, "P", "Ref"), C("Class", <<"[", "[", "Int">>, "m", "Int"),
        C("Class", Object, "o", "Ref"), C("String", String, "s", "Ref")>>,
      <<>>)
Arrays == [ArraysM EXCEPT !.code[2].targets = {3, 6, 9, 14, 16, 17, 19, 22, 24, 25},
                          !.code[30].sense = FALSE]

(* A call site that sees three receiver classes, and a loop. *)
IdM == OnInstance(M("id", <<"Ref">>, 1, 1,
    <<I("load", 0, 0, 0, 0), I("xreturn", 0, 0, 0, 0)>>, <<>>, <<>>))

PolyM == M("poly", <<"Ref">>, 1, 1,
    <<I("load", 0, 0, 0, 0), I("invokeinterface", 0, 0, 1, 0), I("return", 0, 0, 0, 0)>>,
    <<Ref("id")>>, <<>>)

PolyCallerM ==
    M("callpoly", <<>>, 0, 1,
      <<I("new", 0, 0, 0, 0), I("invokestatic", 0, 0, 1, 2), I("ldc", 0, 0, 0, 1),
        I("invokestatic", 0, 0, 1, 2), I("getstatic", 0, 0, 0, 3),
        I("invokestatic", 0, 0, 1, 2), I("safepoint_poll", 0, 0, 0, 0),
        I("if_int", 0, 0, 0, 6), I("return", 0, 0, 0, 0)>>,
      <<C("Class", P, "P", "Ref"), C("String", String, "s", "Ref"), Ref("poly"),
        C("FieldRef", <<"System">>, "out", "Ref")>>, <<>>)

(* Quickened calls; pc 2 is well formed, its site and its pool index being  *)
(* its pc, the others have no lawful target.                                *)
QuickM ==
    M("quick", <<"Ref">>, 1, 1,
      <<I("load", 0, 0, 0, 0), I("switch", 0, 0, 0, 0),
        I("invokevirtual_quick", 0, 0, 1, 2), I("goto", 0, 0, 0, 1),
        I("invokeinterface_quick", 0, 0, 1, 9), I("invokeinterface_quick", 0, 0, 1, 4),
        I("invokestatic_quick", 0, 0, 1, 2), I("invokestatic_quick", 0, 0, 1, 99),
        I("invokespecial_quick", 0, 0, 1, 99), I("return", 0, 0, 0, 0)>>,
      <<C("Class", P, "P", "Ref"), C("Class", P, "P", "Ref"), Ref("id")>>, <<>>)
Quick == [QuickM EXCEPT !.code[1].targets = {2, 4, 5, 6, 7, 8, 9}]

DataMethods ==
    Zero(<<QuietClinitM, MakeM, InitM, FieldsM, Arrays, IdM, PolyM, PolyCallerM,
           Quick, Odd, AbstractM>>)

DataProgram == DataMethods

(* A compiled tier hands over a frame of arrays or odd, registers missing.  *)
DataFrames ==
    {[method |-> m, pc |-> 1, locals |-> <<>>, regs |-> 0 :> Prim("Int"),
      monitors |-> <<>>, callerPc |-> 0] : m \in {9}}
    \cup {[method |-> 7, pc |-> 6, locals |-> <<>>, regs |-> <<>>,
           monitors |-> <<>>, callerPc |-> 0]}
----------------------------------------------------------------------------
(* The programs of the runs that look for a disagreement with the docs. *)

(* <clinit> is not the first method. *)
ClinitLastProgram == Zero(<<InitM, MakeM, QuietClinitM>>)

(* <clinit> has a local of its own. *)
ClinitLocalM == M("<clinit>", <<>>, 1, 1,
    <<I("produce", 0, 0, 0, 0), I("store", 0, 0, 0, 0), I("return", 0, 0, 0, 0)>>,
    <<>>, <<>>)
ClinitLocalProgram == Zero(<<ClinitLocalM, MakeM, InitM>>)

(* A recursion that catches its own StackOverflowError. *)
OverflowProgram == Zero(<<QuietClinitM, MakeM, InitM, DownM>>)

(* A synchronized callee. *)
SyncCallerM == M("caller", <<>>, 0, 1,
    <<I("invokestatic", 0, 0, 0, 0), I("return", 0, 0, 0, 0)>>, <<Ref("ss")>>, <<>>)
SyncProgram == Zero(<<QuietClinitM, SyncCallerM, SyncStaticM>>)
=============================================================================
