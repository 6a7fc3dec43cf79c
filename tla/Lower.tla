---- MODULE Lower ----
(***************************************************************************)
(* AST to register bytecode, compiler/frontend/src/Lower.cpp,              *)
(* LowerStmt.cpp and LowerExpr.cpp: class model, slot planner, and the     *)
(* emission of statements and expressions through the builder.             *)
(*                                                                         *)
(* A lowerer is a record g: the builder, the scopes, loops and pending     *)
(* finallies, and v, the register and static type of the last expression.  *)
(* K is what stays fixed in a method: [cls, static, result].  A diagnostic *)
(* sets err and everything after it is skipped: the unit is refused.       *)
(*                                                                         *)
(* Types keep one member per family the code tells apart: long, float,     *)
(* double, short and char, reference casts and instanceof are left out.    *)
(***************************************************************************)
EXTENDS RbcBuilder, JavaAst

CONSTANT ByteMax   \* 127 in the code

----
(* Static types.  An array type is "[I"; a reference type that is neither  *)
(* String nor the program class is "Object", "Throwable" or "PrintStream". *)

Own == "C"
isIntFamily(t) == t \in {"Bool", "Byte", "Int"}
isNumeric(t) == isIntFamily(t)
isArithmetic(t) == isNumeric(t) /\ t # "Bool"
isArrayType(t) == t = "[I"
isRef(t) == t \in {Own, "Object", "String", "Throwable", "PrintStream", "[I"}
isRefLike(t) == isRef(t) \/ t = "Null"
element(t) == IF isArrayType(t) THEN "Int" ELSE "Err"

jtypeOf(type) ==
    CASE type = "int" -> "Int" [] type = "boolean" -> "Bool" [] type = "byte" -> "Byte"
      [] type = "void" -> "Void" [] type = "int[]" -> "[I"
      [] type \in {Own, "Object", "String", "Throwable"} -> type
      [] OTHER -> "Err"                \* intersection, wildcard, union

\* The character of a descriptor, with the small types folded as in Rbc.
descriptorOf(t) ==
    CASE t = "Int" -> "I" [] t = "Void" -> "V" [] t \in {"Bool", "Byte"} -> "Z" [] OTHER -> "A"

promote(a, b) == "Int"

widensTo(from, to) ==
    \/ from = to
    \/ isRefLike(from) /\ isRef(to)
    \/ from = "Byte" /\ to = "Int"

\* Constant folding, in 64-bit arithmetic: [ok, v, isBool]; ub marks the one
\* division that is undefined in C++ and stops the compiler.
NoFold == [ok |-> FALSE, v |-> 0, isBool |-> FALSE, ub |-> FALSE]
Fold(v, isBool) == [NoFold EXCEPT !.ok = TRUE, !.v = v, !.isBool = isBool]

foldDiv(a, b) ==
    IF Wrap(b) = 0 THEN NoFold
    ELSE IF Wrap(a) = IntMin /\ Wrap(b) = -1 THEN [NoFold EXCEPT !.ub = TRUE]
    ELSE Fold(Quotient(Wrap(a), Wrap(b)), FALSE)

foldUnary(op, v) ==
    IF ~v.ok THEN v
    ELSE CASE op = "-" -> Fold(-v.v, FALSE)
           [] op = "~" -> Fold(-1 - Wrap(v.v), FALSE)
           [] op = "!" -> IF v.isBool THEN Fold(1 - v.v, TRUE) ELSE NoFold

foldBinary(op, a, b) ==
    LET logical == op \in {"&&", "||"}
    IN  IF a.ub \/ b.ub THEN [NoFold EXCEPT !.ub = TRUE]
        ELSE IF ~a.ok \/ ~b.ok \/ a.isBool # logical \/ b.isBool # logical THEN NoFold
        ELSE CASE op = "+" -> Fold(a.v + b.v, FALSE)
               [] op = "/" -> foldDiv(a.v, b.v)
               [] op = "&&" -> Fold(a.v * b.v, TRUE)
               [] op = "||" -> Fold(a.v + b.v - a.v * b.v, TRUE)
               [] OTHER -> NoFold

RECURSIVE foldInt(_)
foldInt(e) ==
    CASE e.k = "Int" -> Fold(Wrap(e.n), FALSE)
      [] e.k = "Bool" -> Fold(e.n, TRUE)
      [] e.k = "Paren" -> foldInt(e.e)
      [] e.k = "Unary" -> foldUnary(e.op, foldInt(e.e))
      [] e.k = "Binary" -> foldBinary(e.op, foldInt(e.l), foldInt(e.r))
      [] OTHER -> NoFold

----
(* The class model.                                                        *)

\* Fields and methods in declaration order; a class without constructor gets
\* one.  Members the lowering cannot compile make the class bad.
IsCallable(d) == d.k \in {"Method", "Constructor"}

ParamTypes(d) == [i \in DOMAIN d.params |-> jtypeOf(d.params[i].type)]

MethodEntry(d) ==
    IF d.k = "Method"
    THEN [x |-> d.x, params |-> ParamTypes(d), result |-> jtypeOf(d.type), static |-> d.static]
    ELSE [x |-> "<init>", params |-> ParamTypes(d), result |-> "Void", static |-> FALSE]

buildClassModel(members) ==
    LET fields == SelectSeq(members, LAMBDA d : d.k = "Field")
        declared == SelectSeq(members, IsCallable)
        decls == IF \E i \in DOMAIN declared : declared[i].k = "Constructor" THEN declared
                 ELSE Append(declared, Constructor(<<>>, <<>>))
        entries == [i \in DOMAIN decls |-> MethodEntry(decls[i])]
    IN  [fields |-> [i \in DOMAIN fields |-> [x |-> fields[i].x, type |-> jtypeOf(fields[i].type),
                                               static |-> fields[i].static]],
         decls |-> decls, methods |-> entries,
         clinit |-> FALSE,
         bad |-> \/ \E i \in DOMAIN members : members[i].k \in {"AbstractMethod", "NestedType"}
                 \/ \E i \in DOMAIN fields : jtypeOf(fields[i].type) = "Err"
                 \/ \E i \in DOMAIN entries : "Err" \in ToSet(entries[i].params)
                                               \/ entries[i].result = "Err"]

\* The position of the first field named x, 0 when there is none.
findField(cls, x) ==
    LET at == {i \in DOMAIN cls.fields : cls.fields[i].x = x}
    IN  IF at = {} THEN 0 ELSE Min(at)

\* The only method of that name and arity, 0 when there is none or several.
findUnique(cls, x, argc) ==
    LET at == {i \in DOMAIN cls.methods :
                  cls.methods[i].x = x /\ Len(cls.methods[i].params) = argc}
    IN  IF Cardinality(at) = 1 THEN CHOOSE i \in at : TRUE ELSE 0

\* The constant naming a field, and the one naming a method of the program:
\* its position in the program, which starts with <clinit> when there is one.
cpField(fe) == IF fe.type = "Int" THEN IntField ELSE RefField
cpMethod(cls, i) == IF cls.clinit THEN i + 1 ELSE i

\* Initializers of <clinit>, or of the constructors, in declaration order.
collectInits(members, wantStatic) ==
    SelectSeq(members, LAMBDA d : \/ d.k = "Field" /\ d.static = wantStatic /\ d.init # <<>>
                                  \/ d.k = "InitializerBlock" /\ d.static = wantStatic)

----
(* Scopes: a stack of layers of [x, slot, t].                              *)

NoLocal == [x |-> "", slot |-> -1, t |-> "Err"]

lookupLocal(scopes, x) ==
    LET all == FlattenSeq(scopes)
        at == {i \in DOMAIN all : all[i].x = x}
    IN  IF at = {} THEN NoLocal ELSE all[Max(at)]

pushScope(g) == [g EXCEPT !.scopes = Append(@, <<>>)]
popScope(g) == [g EXCEPT !.scopes = Front(@)]
bindLocal(g, x, slot, t) ==
    [g EXCEPT !.scopes[Len(g.scopes)] = Append(@, [x |-> x, slot |-> slot, t |-> t])]

----
(* inferVarType: the type of a `var` initializer, [t, diag]: an Err type   *)
(* comes with a diagnostic or without.                                     *)

Typed(t) == [t |-> t, diag |-> FALSE]
Diagnosed == [t |-> "Err", diag |-> TRUE]

fieldOfType(cls, x) ==
    Typed(IF findField(cls, x) = 0 THEN "Err" ELSE cls.fields[findField(cls, x)].type)

inferName(cls, scopes, x) ==
    IF lookupLocal(scopes, x).t # "Err" THEN Typed(lookupLocal(scopes, x).t)
    ELSE fieldOfType(cls, x)

\* The common type of two branches, "Err" when there is none.
branchType(a, b) ==
    CASE isNumeric(a) /\ isNumeric(b) -> promote(a, b)
      [] isRefLike(a) /\ isRefLike(b) ->
             IF a = "Null" THEN b ELSE IF b = "Null" \/ a = b THEN a ELSE "Object"
      [] OTHER -> IF a = b THEN a ELSE "Err"

inferField(cls, scopes, e) ==
    IF e.e.k # "Name" THEN Typed("Err")
    ELSE LET local == lookupLocal(scopes, e.e.x).t
         IN  CASE isArrayType(local) /\ e.x = "length" -> Typed("Int")
               [] local = Own -> fieldOfType(cls, e.x)
               [] local # "Err" -> Typed("Err")
               [] e.e.x = Own /\ findField(cls, e.x) # 0 /\ cls.fields[findField(cls, e.x)].static ->
                      fieldOfType(cls, e.x)
               [] e.e.x = "System" /\ e.x = "out" -> Typed("PrintStream")
               [] OTHER -> Typed("Err")

RECURSIVE inferVarType(_, _, _)
inferVarType(cls, scopes, e) ==
    LET infer(sub) == inferVarType(cls, scopes, sub)
        both(x, y, t) == IF infer(x).t = "Err" THEN infer(x) ELSE IF infer(y).t = "Err" THEN infer(y)
                         ELSE t
    IN  CASE e.k = "Int" -> Typed("Int")
          [] e.k = "Bool" -> Typed("Bool")
          [] e.k = "String" -> Typed("String")
          [] e.k = "Null" -> Diagnosed
          [] e.k = "Paren" -> infer(e.e)
          [] e.k = "Name" -> inferName(cls, scopes, e.x)
          [] e.k = "This" -> Typed(Own)
          [] e.k = "Binary" ->
                 both(e.l, e.r,
                      IF "String" \in {infer(e.l).t, infer(e.r).t} THEN Diagnosed
                      ELSE IF e.op \in {"<", "==", "&&", "||"} THEN Typed("Bool")
                      ELSE IF isArithmetic(infer(e.l).t) /\ isArithmetic(infer(e.r).t)
                      THEN Typed(promote(infer(e.l).t, infer(e.r).t)) ELSE Typed("Err"))
          [] e.k = "Unary" ->
                 IF infer(e.e).t = "Err" THEN infer(e.e)
                 ELSE IF e.op = "!" THEN Typed("Bool")
                 ELSE Typed(IF isArithmetic(infer(e.e).t) THEN "Int" ELSE "Err")
          [] e.k = "IncDec" ->
                 IF ~e.prefix \/ infer(e.e).t = "Err" THEN infer(e.e)
                 ELSE Typed(IF isArithmetic(infer(e.e).t) THEN "Int" ELSE "Err")
          [] e.k = "Assignment" ->
                 IF e.target.k = "Name" THEN inferName(cls, scopes, e.target.x) ELSE Typed("Err")
          [] e.k = "Conditional" -> both(e.t, e.e, Typed(branchType(infer(e.t).t, infer(e.e).t)))
          [] e.k = "Cast" -> IF jtypeOf(e.type) = "Err" THEN Diagnosed ELSE Typed(jtypeOf(e.type))
          [] e.k = "Invoke" ->
                 IF e.target = <<>> /\ findUnique(cls, e.x, Len(e.args)) # 0
                 THEN Typed(cls.methods[findUnique(cls, e.x, Len(e.args))].result) ELSE Diagnosed
          [] e.k = "New" -> Typed(jtypeOf(e.type))
          [] e.k \in {"ArrayCreation", "ArrayOf"} -> Typed("[I")
          [] e.k = "ArrayAccess" -> IF infer(e.a).t = "Err" THEN infer(e.a) ELSE Typed(element(infer(e.a).t))
          [] e.k = "FieldAccess" -> inferField(cls, scopes, e)
          [] OTHER -> Diagnosed       \* array initializers and the forms never lowered

----
(* The slot planner: it walks a body as the emission does and gives every  *)
(* declaring node its slot.  p is [slots, numLocals, scopes, ok, diag];    *)
(* node is the annotated tree.                                             *)

newSlot(p, t) == [p EXCEPT !.slots = Append(@, [slot |-> p.numLocals, t |-> t]), !.numLocals = @ + 1]

\* A type that could not be inferred is planned as int, the plan refused.
inferred(cls, p, e) ==
    LET i == inferVarType(cls, p.scopes, e)
    IN  [p EXCEPT !.ok = @ /\ i.t # "Err", !.diag = @ \/ i.diag,
                  !.t = IF i.t = "Err" THEN "Int" ELSE i.t]

planDecl(cls, p, s) ==
    LET q == IF s.type # "var"
             THEN [p EXCEPT !.t = jtypeOf(s.type), !.diag = @ \/ jtypeOf(s.type) = "Err"]
             ELSE IF s.init = <<>> THEN [p EXCEPT !.ok = FALSE, !.diag = TRUE, !.t = "Int"]
             ELSE inferred(cls, p, s.init[1])
    IN  [bindLocal(newSlot(q, q.t), s.x, p.numLocals, q.t)
            EXCEPT !.node = [s EXCEPT !.slot = p.numLocals, !.jt = q.t]]

RECURSIVE walkStmt(_, _, _)
RECURSIVE walkStmts(_, _, _)

\* Statements in order; node is the sequence of annotated statements.
walkStmts(cls, p, ss) ==
    IF ss = <<>> THEN [p EXCEPT !.node = <<>>]
    ELSE LET q == walkStmts(cls, p, Front(ss))
             w == walkStmt(cls, q, Last(ss))
         IN  [w EXCEPT !.node = Append(q.node, w.node)]

\* A body in a scope of its own.
walkBody(cls, p, ss) == popScope(CHOOSE w \in {walkStmts(cls, q, ss) : q \in {pushScope(p)}} : TRUE)

walkSub(cls, p, s) ==
    IF s.k = "Block" THEN walkStmt(cls, p, s) ELSE popScope(walkStmt(cls, pushScope(p), s))

walkOptional(cls, p, ss) ==
    IF ss = <<>> THEN [p EXCEPT !.node = <<>>]
    ELSE LET w == walkSub(cls, p, ss[1]) IN [w EXCEPT !.node = <<w.node>>]

walkForEach(cls, p, s) ==
    LET q == pushScope(newSlot(p, "Int"))
        i == IF s.type = "var" THEN inferred(cls, q, s.e) ELSE [q EXCEPT !.t = jtypeOf(s.type)]
        t == IF s.type # "var" THEN i.t ELSE IF isArrayType(i.t) THEN element(i.t) ELSE "Int"
        w == walkSub(cls, bindLocal(newSlot(i, t), s.x, i.numLocals, t), s.s)
    IN  [popScope(w) EXCEPT !.node = [s EXCEPT !.idx = p.numLocals, !.slot = p.numLocals + 1,
                                               !.jt = t, !.s = w.node]]

walkCatch(cls, p, c) ==
    LET t == IF Len(c.types) = 1 THEN "Throwable" ELSE "Object"
        q == bindLocal(newSlot(pushScope(p), "Object"), c.x, p.numLocals, t)
        w == walkStmts(cls, q, c.ss)
    IN  [popScope(w) EXCEPT !.node = [c EXCEPT !.slot = p.numLocals, !.ss = w.node]]

RECURSIVE walkCatches(_, _, _)
walkCatches(cls, p, cs) ==
    IF cs = <<>> THEN [p EXCEPT !.node = <<>>]
    ELSE LET q == walkCatches(cls, p, Front(cs))
             w == walkCatch(cls, q, Last(cs))
         IN  [w EXCEPT !.node = Append(q.node, w.node)]

walkTry(cls, p, s) ==
    LET body == walkBody(cls, p, s.ss)
        caught == walkCatches(cls, body, s.catches)
        fin == IF s.fin = <<>> THEN caught
               ELSE walkBody(cls, newSlot(caught, "Object"), s.fin[1])
    IN  [fin EXCEPT !.node = [s EXCEPT !.ss = body.node, !.catches = caught.node,
             !.slot = IF s.fin = <<>> THEN -1 ELSE caught.numLocals,
             !.fin = IF s.fin = <<>> THEN <<>> ELSE <<fin.node>>]]

walkSwitch(cls, p, s) ==
    LET r == FoldLeft(LAMBDA q, c : LET w == walkStmts(cls, q.p, c.ss)
                                    IN  [p |-> w, cs |-> Append(q.cs, [c EXCEPT !.ss = w.node])],
                      [p |-> pushScope(p), cs |-> <<>>], s.cases)
    IN  [popScope(r.p) EXCEPT !.node = [s EXCEPT !.cases = r.cs]]

walkFor(cls, p, s) ==
    LET init == walkStmts(cls, pushScope(p), s.init)
        body == walkSub(cls, init, s.s)
    IN  [popScope(body) EXCEPT !.node = [s EXCEPT !.init = init.node, !.s = body.node]]

walkStmt(cls, p, s) ==
    CASE s.k = "Local" -> planDecl(cls, p, s)
      [] s.k = "Block" -> LET w == walkBody(cls, p, s.ss)
                          IN  [w EXCEPT !.node = [s EXCEPT !.ss = w.node]]
      [] s.k = "If" -> LET t == walkSub(cls, p, s.t)
                           e == walkOptional(cls, t, s.e)
                       IN  [e EXCEPT !.node = [s EXCEPT !.t = t.node, !.e = e.node]]
      [] s.k \in {"While", "DoWhile", "Labeled"} ->
             LET w == walkSub(cls, p, s.s) IN [w EXCEPT !.node = [s EXCEPT !.s = w.node]]
      [] s.k = "For" -> walkFor(cls, p, s)
      [] s.k = "ForEach" -> walkForEach(cls, p, s)
      [] s.k = "Switch" -> walkSwitch(cls, p, s)
      [] s.k = "Try" -> walkTry(cls, p, s)
      [] s.k = "Synchronized" -> LET w == walkBody(cls, p, s.ss)
                                 IN  [w EXCEPT !.node = [s EXCEPT !.ss = w.node]]
      [] OTHER -> [p EXCEPT !.node = s]

\* The parameters' slots, after the receiver's; the parameters are not bound
\* in the planner's scopes.
planMethod(cls, ss, isStatic, params) ==
    LET first == IF isStatic THEN 0 ELSE 1
    IN  walkBody(cls, [slots |-> [i \in DOMAIN params |-> [slot |-> first + i - 1, t |-> params[i]]],
                       numLocals |-> first + Len(params), scopes |-> <<>>, ok |-> TRUE,
                       diag |-> FALSE, t |-> "Err", node |-> <<>>], ss)

----
(* The emitter's primitives.  v is the value of the last expression, tgt   *)
(* the last assignment target.                                             *)

Val(reg, t) == [reg |-> reg, t |-> t]
NoTarget == [k |-> "None", t |-> "Err", slot |-> -1, cp |-> 0, a |-> 0, b |-> 0]

NewLowerer(plan) ==
    [scopes |-> <<>>, loops |-> <<>>, fins |-> <<>>, err |-> FALSE, diag |-> plan.diag,
     crash |-> FALSE, v |-> Val(0, "Err"), tgt |-> NoTarget] @@ NewBuilder(plan.numLocals)

(* Mutant: the method is poisoned but nothing is reported. *)
PoisonOnly(g) == [g EXCEPT !.err = TRUE]

\* A diagnostic; nothing more is emitted for the method.
error(g) == [g EXCEPT !.err = TRUE, !.diag = TRUE]

\* Folding MIN / -1 stops the compiler.
crashed(g) == [g EXCEPT !.err = TRUE, !.crash = TRUE]

newReg(g) == [g EXCEPT !.numRegs = @ + 1]

\* One instruction whose destination is a new register.
emitNew(g, op, a, b, imm, t) ==
    [rawEmit(newReg(g), Ins(op, g.numRegs, a, b, imm)) EXCEPT !.v = Val(g.numRegs, t)]

emitMove(g, dst, a, t) == rawEmit(g, Ins(IF isRefLike(t) THEN "amove" ELSE "imove", dst, a, 0, 0))
emitLoad(g, slot, t) == emitNew(g, IF isRefLike(t) THEN "aload" ELSE "iload", 0, 0, slot, t)
emitStore(g, reg, slot, t) == emitSlotReg(g, IF isRefLike(t) THEN "astore" ELSE "istore", reg, slot)
emitConst(g, reg, n) == rawEmit(g, Ins("iconst", reg, 0, 0, n))

emitConvert(g, reg, from, to) ==
    IF to = "Byte" /\ from \in {"Int", "Bool"} THEN emitNew(g, "i2b", reg, 0, 0, to)
    ELSE [g EXCEPT !.v = Val(reg, to)]

ConstantsOf(t) ==
    CASE t = "Byte" -> (-ByteMax - 1) .. ByteMax
      [] t = "Int" -> IntMin .. (-IntMin - 1)
      [] t = "Bool" -> {0, 1}
      [] OTHER -> {}

emitAssignConvert(g, reg, from, to, fold) ==
    IF widensTo(from, to) THEN emitConvert(g, reg, from, to)
    ELSE IF \/ isRefLike(to) /\ isNumeric(from)
            \/ isNumeric(to) /\ isRefLike(from)
            \/ ~fold.ok
            \/ fold.v \notin ConstantsOf(to)
    THEN error(g)
    ELSE emitConvert(g, reg, "Int", to)

loadThis(K, g) == IF K.static THEN error(g) ELSE emitLoad(g, 0, Own)

emitDefaultReturn(K, g) ==
    LET h == emitNew(g, IF isRefLike(K.result) THEN "aconst_null" ELSE "iconst", 0, 0, 0, K.result)
    IN  IF K.result = "Void" THEN emit(g, "return")
        ELSE emitReg(h, IF isRefLike(K.result) THEN "areturn" ELSE "ireturn", h.v.reg)

(* Mutant: one slot too many is taken for a parameter. *)
FirstLocalLate(K, numParams) == numParams + (IF K.static THEN 0 ELSE 1) + 2

\* The skip counts the receiver although the plan holds no slot for it.
FirstLocal(K, numParams) == numParams + (IF K.static THEN 0 ELSE 1) + 1

\* Every slot past the parameters gets a value of its type.
emitPrologue(K, g, plan, numParams) ==
    FoldLeft(LAMBDA h, s :
                 LET r == emitNew(h, IF isRefLike(s.t) THEN "ldc" ELSE "iconst", 0, 0, 0, s.t)
                 IN  emitStore(r, r.v.reg, s.slot, s.t),
             g, SubSeq(plan.slots, FirstLocal(K, numParams), Len(plan.slots)))

pushLoop(g, brk, cont, hasCont, label) ==
    [g EXCEPT !.loops = Append(@, [brk |-> brk, cont |-> cont, hasCont |-> hasCont, label |-> label])]
popLoop(g) == [g EXCEPT !.loops = Front(@)]

\* The innermost entry a break, or a continue, with that label names; 0: none.
findTarget(g, label, needsCont) ==
    LET at == {i \in DOMAIN g.loops : /\ label = "" \/ g.loops[i].label = label
                                      /\ needsCont => g.loops[i].hasCont}
    IN  IF at = {} THEN 0 ELSE Max(at)

RECURSIVE lowerExpr(_, _, _)
RECURSIVE lowerStmt(_, _, _)

RECURSIVE lowerStmts(_, _, _)
lowerStmts(K, g, ss) == IF ss = <<>> THEN g ELSE lowerStmt(K, lowerStmts(K, g, Front(ss)), Last(ss))

lowerBlock(K, g, ss) == popScope(lowerStmts(K, pushScope(g), ss))

\* The pending finallies, innermost first, each lowered with only the outer
\* ones pending, in the scopes and loops of the place they are inlined at.
emitFinallyChain(K, g) ==
    LET inlined(h, k) ==
            IF h.err THEN h
            ELSE [lowerBlock(K, [h EXCEPT !.fins = SubSeq(g.fins, 1, k - 1)], g.fins[k])
                     EXCEPT !.fins = g.fins]
    IN  FoldLeft(inlined, g, Reverse([k \in DOMAIN g.fins |-> k]))

----
(* Expressions.                                                            *)

\* A value converted for an assignment context.
lowerExprTo(K, g, e, to) ==
    LET fold == foldInt(e)
        h == lowerExpr(K, g, e)
    IN  IF fold.ub THEN crashed(g)
        ELSE IF h.err THEN h
        ELSE IF h.v.t = "Void" THEN error(h)
        ELSE emitAssignConvert(h, h.v.reg, h.v.t, to, fold)

lowerBoolExpr(K, g, e) ==
    LET h == lowerExpr(K, g, e)
    IN  IF h.err \/ h.v.t = "Bool" THEN h ELSE error(h)

\* true or false from a branch taken when the answer is true.
emitTruth(g, branch(_, _)) ==
    LET Ltrue == Len(g.bound) + 1
        Lend == Len(g.bound) + 2
        r == g.numRegs
        falsely == emitConst(branch(newReg(newLabels(g, 2)), Ltrue), r, 0)
        truly == emitConst(bind(emitBranch(falsely, "goto", Lend), Ltrue), r, 1)
    IN  [bind(truly, Lend) EXCEPT !.v = Val(r, "Bool")]

\* && and ||: the right operand is evaluated only on the path that needs it.
lowerShortCircuit(K, g, e) ==
    LET a == lowerBoolExpr(K, g, e.l)
        op == IF e.op = "&&" THEN "ifeq" ELSE "ifne"
        long == IF e.op = "&&" THEN 1 ELSE 0
        Lshort == Len(a.bound) + 1
        Lend == Len(a.bound) + 2
        r == a.numRegs
        b == lowerBoolExpr(K, emitRegBranch(newReg(newLabels(a, 2)), op, a.v.reg, Lshort), e.r)
        done == emitBranch(emitConst(emitRegBranch(b, op, b.v.reg, Lshort), r, long), "goto", Lend)
    IN  IF a.err THEN a ELSE IF b.err THEN b
        ELSE [bind(emitConst(bind(done, Lshort), r, 1 - long), Lend) EXCEPT !.v = Val(r, "Bool")]

\* < and == on values already in registers.
emitCompare(g, op, a, b) ==
    LET c == emitNew(g, "icmp", a.reg, b.reg, 0, "Int")
        onRef(h, L) == IF a.t = "Null" /\ b.t # "Null" THEN emitRegBranch(h, "ifnull", b.reg, L)
                       ELSE IF b.t = "Null" THEN emitRegBranch(h, "ifnull", a.reg, L)
                       ELSE emitRegRegBranch(h, "if_acmpeq", a.reg, b.reg, L)
        onInt(h, L) == emitRegBranch(h, IF op = "<" THEN "iflt" ELSE "ifeq", c.v.reg, L)
    IN  IF isRefLike(a.t) /\ isRefLike(b.t)
        THEN IF op = "<" THEN error(g) ELSE emitTruth(g, onRef)
        ELSE IF isArithmetic(a.t) /\ isArithmetic(b.t) THEN emitTruth(c, onInt) ELSE error(g)

arithOpOf(op) == IF op = "+" THEN "iadd" ELSE "idiv"

lowerBinary(K, g, e) ==
    LET a == lowerExpr(K, g, e.l)
        b == lowerExpr(K, a, e.r)
    IN  IF e.op \in {"&&", "||"} THEN lowerShortCircuit(K, g, e)
        ELSE IF a.err THEN a ELSE IF b.err THEN b
        ELSE IF e.op = "+" /\ "String" \in {a.v.t, b.v.t} THEN error(b)
        ELSE IF e.op \in {"<", "=="} THEN emitCompare(b, e.op, a.v, b.v)
        ELSE IF ~isArithmetic(a.v.t) \/ ~isArithmetic(b.v.t) THEN error(b)
        ELSE emitNew(b, arithOpOf(e.op), a.v.reg, b.v.reg, 0, "Int")

lowerUnary(K, g, e) ==
    LET h == lowerExpr(K, g, e.e)
        m == emitNew(h, "iconst", 0, 0, IF e.op = "!" THEN 1 ELSE -1, "Int")
    IN  IF h.err THEN h
        ELSE IF e.op = "!"
        THEN IF h.v.t = "Bool" THEN emitNew(m, "ixor", h.v.reg, m.v.reg, 0, "Bool") ELSE error(h)
        ELSE IF e.op = "~"
        THEN IF isIntFamily(h.v.t) THEN emitNew(m, "ixor", h.v.reg, m.v.reg, 0, "Int") ELSE error(h)
        ELSE IF isArithmetic(h.v.t) THEN emitNew(h, "ineg", h.v.reg, 0, 0, "Int") ELSE error(h)

\* Both branches are evaluated before the condition is tested.
lowerConditional(K, g, e) ==
    LET c == lowerBoolExpr(K, g, e.c)
        t == lowerExpr(K, c, e.t)
        f == lowerExpr(K, t, e.e)
        rt == branchType(t.v.t, f.v.t)
        Lelse == Len(f.bound) + 1
        Lend == Len(f.bound) + 2
        yes == emitConvert(emitRegBranch(newLabels(f, 2), "ifeq", c.v.reg, Lelse), t.v.reg, t.v.t, rt)
        no == emitConvert(bind(emitBranch(yes, "goto", Lend), Lelse), f.v.reg, f.v.t, rt)
    IN  IF c.err THEN c ELSE IF t.err THEN t ELSE IF f.err THEN f
        ELSE IF rt = "Err" THEN error(f)
        ELSE [bind(emitMove(no, yes.v.reg, no.v.reg, rt), Lend) EXCEPT !.v = Val(yes.v.reg, rt)]

----
(* Assignment targets: the receiver, array and index are evaluated once.   *)

\* A name that is neither local nor field qualifies as a class name.
IsClassName(K, g, e) ==
    e.k = "Name" /\ lookupLocal(g.scopes, e.x) = NoLocal /\ findField(K.cls, e.x) = 0

fieldTarget(g, fe, recv) ==
    [g EXCEPT !.tgt = [NoTarget EXCEPT !.k = IF fe.static THEN "Static" ELSE "Instance",
                                       !.t = fe.type, !.cp = cpField(fe), !.a = recv]]

nameTarget(K, g, x) ==
    LET local == lookupLocal(g.scopes, x)
        i == findField(K.cls, x)
        this == loadThis(K, g)
    IN  IF local # NoLocal
        THEN [g EXCEPT !.tgt = [NoTarget EXCEPT !.k = "Local", !.slot = local.slot, !.t = local.t]]
        ELSE IF i = 0 THEN error(g)
        ELSE IF K.cls.fields[i].static THEN fieldTarget(g, K.cls.fields[i], 0)
        ELSE IF K.static THEN error(g)
        ELSE fieldTarget(this, K.cls.fields[i], this.v.reg)

accessTarget(K, g, e) ==
    LET i == findField(K.cls, e.x)
        recv == lowerExpr(K, g, e.e)
    IN  IF IsClassName(K, g, e.e)
        THEN IF e.e.x = Own /\ i # 0 /\ K.cls.fields[i].static THEN fieldTarget(g, K.cls.fields[i], 0)
             ELSE error(g)
        ELSE IF recv.err THEN recv
        ELSE IF recv.v.t # Own \/ i = 0 THEN error(recv)
        ELSE fieldTarget(recv, K.cls.fields[i], recv.v.reg)

\* An array and an index, each in a register.
elementTarget(K, g, e) ==
    LET a == lowerExpr(K, g, e.a)
        i == lowerExpr(K, a, e.i)
    IN  IF a.err THEN a
        ELSE IF ~isArrayType(a.v.t) THEN error(a)
        ELSE IF i.err THEN i
        ELSE IF ~isArithmetic(i.v.t) THEN error(i)
        ELSE [i EXCEPT !.tgt = [NoTarget EXCEPT !.k = "Element", !.t = element(a.v.t),
                                                !.a = a.v.reg, !.b = i.v.reg]]

lowerTarget(K, g, e) ==
    CASE e.k = "Name" -> nameTarget(K, g, e.x)
      [] e.k = "FieldAccess" -> accessTarget(K, g, e)
      [] e.k = "ArrayAccess" -> elementTarget(K, g, e)
      [] OTHER -> error(g)

emitLoadTarget(g, t) ==
    CASE t.k = "Local" -> emitLoad(g, t.slot, t.t)
      [] t.k = "Instance" -> emitNew(g, "getfield", t.a, 0, t.cp, t.t)
      [] t.k = "Static" -> emitNew(g, "getstatic", 0, 0, t.cp, t.t)
      [] t.k = "Element" -> emitNew(g, "iaload", t.a, t.b, 0, t.t)

emitStoreToTarget(g, t, value) ==
    CASE t.k = "Local" -> emitStore(g, value, t.slot, t.t)
      [] t.k = "Instance" -> rawEmit(g, Ins("putfield", 0, t.a, value, t.cp))
      [] t.k = "Static" -> rawEmit(g, Ins("putstatic", value, 0, 0, t.cp))
      [] t.k = "Element" -> rawEmit(g, Ins("iastore", value, t.a, t.b, 0))

lowerIncDec(K, g, e) ==
    LET target == lowerTarget(K, g, e.e)
        t == target.tgt
        cur == emitLoadTarget(target, t)
        old == cur.numRegs                       \* the register of a postfix result
        kept == IF e.prefix THEN cur ELSE emitMove(newReg(cur), old, cur.v.reg, t.t)
        inc == rawEmit(newReg(kept), Ins("iinc", cur.v.reg, 0, 0, e.by))
        new == emitConvert(emitMove(inc, kept.numRegs, cur.v.reg, "Int"), kept.numRegs, "Int", t.t)
    IN  IF target.err THEN target
        ELSE IF ~isArithmetic(t.t) THEN error(target)
        ELSE [emitStoreToTarget(new, t, new.v.reg)
                 EXCEPT !.v = Val(IF e.prefix THEN new.v.reg ELSE old, t.t)]

lowerAssignment(K, g, e) ==
    LET target == lowerTarget(K, g, e.target)
        t == target.tgt
        plain == lowerExprTo(K, target, e.e, t.t)
        cur == emitLoadTarget(target, t)
        rhs == lowerExpr(K, cur, e.e)
        computed == emitNew(rhs, arithOpOf(e.op), cur.v.reg, rhs.v.reg, 0, "Int")
        narrowed == emitConvert(computed, computed.v.reg, "Int", t.t)
    IN  IF target.err THEN target
        ELSE IF e.op = "="
        THEN IF plain.err THEN plain ELSE emitStoreToTarget(plain, t, plain.v.reg)
        ELSE IF ~isArithmetic(t.t) THEN error(target)
        ELSE IF rhs.err THEN rhs
        ELSE IF ~isArithmetic(rhs.v.t) THEN error(rhs)
        ELSE emitStoreToTarget(narrowed, t, narrowed.v.reg)

----
(* Names, fields, arrays.                                                  *)

lowerName(K, g, x) ==
    LET h == nameTarget(K, g, x) IN IF h.err THEN h ELSE emitLoadTarget(h, h.tgt)

lowerFieldAccess(K, g, e) ==
    LET recv == lowerExpr(K, g, e.e)
        h == accessTarget(K, g, e)
    IN  IF IsClassName(K, g, e.e) /\ e.e.x = "System" /\ e.x = "out"
        THEN emitNew(g, "getstatic", 0, 0, BuiltinField, "PrintStream")
        ELSE IF ~IsClassName(K, g, e.e) /\ ~recv.err /\ isArrayType(recv.v.t) /\ e.x = "length"
        THEN emitNew(recv, "arraylength", recv.v.reg, 0, 0, "Int")
        ELSE IF h.err THEN h ELSE emitLoadTarget(h, h.tgt)

lowerElement(K, g, e) ==
    LET h == elementTarget(K, g, e) IN IF h.err THEN h ELSE emitLoadTarget(h, h.tgt)

lowerArrayCreation(K, g, e) ==
    LET len == lowerExpr(K, g, e.len)
    IN  IF jtypeOf(e.type) = "Err" THEN error(g)
        ELSE IF len.err THEN len
        ELSE IF ~isArithmetic(len.v.t) THEN error(len)
        ELSE emitNew(len, "newarray", len.v.reg, 0, 0, "[I")

\* The length, the array and the index live in registers across the elements.
lowerArrayInitializer(K, g, values) ==
    LET len == emitNew(g, "iconst", 0, 0, Len(values), "Int")
        arr == emitNew(len, "newarray", len.v.reg, 0, 0, "[I")
        idx == arr.numRegs
        stored(h, i) ==
            LET fold == foldInt(values[i])
                e == lowerExpr(K, h, values[i])
                cv == emitAssignConvert(emitConst(e, idx, i - 1), e.v.reg, e.v.t, "Int", fold)
            IN  IF h.err THEN h
                ELSE IF fold.ub THEN crashed(h)
                ELSE IF e.err THEN e
                ELSE IF e.v.t = "Void" THEN error(e)
                ELSE rawEmit(cv, Ins("iastore", cv.v.reg, arr.v.reg, idx, 0))
        all == FoldLeft(stored, newReg(arr), [i \in DOMAIN values |-> i])
    IN  [all EXCEPT !.v = Val(arr.v.reg, "[I")]

----
(* Calls.                                                                  *)

\* Arguments left to right, then receiver and arguments moved into one block
\* of registers; recv is <<>> or the receiver's register.  Without declared
\* parameters (an unknown receiver) the arguments' own types make the
\* descriptor and the result is void.
emitCallSeq(K, g, op, recv, args, declared, imm, result) ==
    LET evaluated(h, i) == LET e == lowerExpr(K, h.g, args[i])
                           IN  [g |-> e, vals |-> Append(h.vals, e.v)]
        ev == FoldLeft(evaluated, [g |-> g, vals |-> <<>>], [i \in DOMAIN args |-> i])
        types == IF declared = <<>> THEN [i \in DOMAIN args |-> ev.vals[i].t] ELSE declared[1]
        base == ev.g.numRegs
        total == Len(recv) + Len(args)
        block == [ev.g EXCEPT !.numRegs = @ + total]
        headed == IF recv = <<>> THEN block ELSE emitMove(block, base, recv[1], "Object")
        moved(h, i) ==
            LET fold == foldInt(args[i])
                cv == emitAssignConvert(h, ev.vals[i].reg, ev.vals[i].t, types[i], fold)
            IN  IF h.err THEN h ELSE IF fold.ub THEN crashed(h) ELSE IF cv.err THEN cv
                ELSE emitMove(cv, base + Len(recv) + i - 1, cv.v.reg, types[i])
        ready == FoldLeft(moved, headed, [i \in DOMAIN args |-> i])
    IN  IF ev.g.err THEN ev.g
        ELSE IF declared = <<>> /\ "Void" \in ToSet(types) THEN error(ev.g)
        ELSE IF ready.err THEN ready
        ELSE emitNew(ready, op, IF total = 0 THEN ready.numRegs ELSE base, total, imm, result)

\* A call of method i of the class.
callOwn(K, g, op, recv, i, args) ==
    emitCallSeq(K, g, op, recv, args, <<K.cls.methods[i].params>>, cpMethod(K.cls, i),
                K.cls.methods[i].result)

lowerInvoke(K, g, e) ==
    LET i == findUnique(K.cls, e.x, Len(e.args))
        this == loadThis(K, g)
        target == e.target[1]
        recv == lowerExpr(K, g, target)
        known == IF e.x = "println" /\ Len(e.args) = 1 /\ recv.v.t = "PrintStream" THEN Println ELSE 0
    IN  IF e.target = <<>>
        THEN IF i = 0 THEN error(g)
             ELSE IF K.cls.methods[i].static THEN callOwn(K, g, "invokestatic", <<>>, i, e.args)
             ELSE IF K.static THEN error(g)
             ELSE callOwn(K, this, "invokevirtual", <<this.v.reg>>, i, e.args)
        ELSE IF IsClassName(K, g, target)
        THEN IF target.x = Own /\ i # 0 /\ K.cls.methods[i].static
             THEN callOwn(K, g, "invokestatic", <<>>, i, e.args) ELSE error(g)
        ELSE IF recv.err THEN recv
        ELSE IF recv.v.t = Own
        THEN IF i = 0 THEN error(recv)
             ELSE IF K.cls.methods[i].static THEN callOwn(K, recv, "invokestatic", <<>>, i, e.args)
             ELSE callOwn(K, recv, "invokevirtual", <<recv.v.reg>>, i, e.args)
        ELSE IF ~isRef(recv.v.t) \/ isArrayType(recv.v.t) \/ recv.v.t = "String" THEN error(recv)
        ELSE emitCallSeq(K, recv, "invokevirtual", <<recv.v.reg>>, e.args, <<>>, known, "Void")

lowerNew(K, g, e) ==
    LET i == findUnique(K.cls, "<init>", Len(e.args))
        obj == emitNew(g, "new", 0, 0, 0, Own)
        h == callOwn(K, obj, "invokespecial", <<obj.v.reg>>, i, e.args)
    IN  IF e.type # Own \/ i = 0 THEN error(g)
        ELSE IF h.err THEN h ELSE [h EXCEPT !.v = obj.v]

\* this(...) as the first statement of a constructor.
lowerCtorDelegation(K, g, e) ==
    LET i == findUnique(K.cls, "<init>", Len(e.args))
        this == loadThis(K, g)
    IN  IF i = 0 THEN error(g) ELSE callOwn(K, this, "invokespecial", <<this.v.reg>>, i, e.args)

lowerCast(K, g, e) ==
    LET to == jtypeOf(e.type)
        h == lowerExpr(K, g, e.e)
    IN  IF to = "Err" THEN error(g)
        ELSE IF h.err THEN h
        ELSE IF isArithmetic(to) /\ isArithmetic(h.v.t) THEN emitConvert(h, h.v.reg, h.v.t, to)
        ELSE IF to = "Bool" /\ h.v.t = "Bool" THEN h
        ELSE error(h)

lowerExpr(K, g, e) ==
    IF g.err THEN g
    ELSE CASE e.k = "Int" -> emitNew(g, "iconst", 0, 0, Wrap(e.n), "Int")
           [] e.k = "Bool" -> emitNew(g, "iconst", 0, 0, e.n, "Bool")
           [] e.k = "String" -> emitNew(g, "ldc", 0, 0, 0, "String")
           [] e.k = "Null" -> emitNew(g, "aconst_null", 0, 0, 0, "Null")
           [] e.k = "Paren" -> lowerExpr(K, g, e.e)
           [] e.k = "Name" -> lowerName(K, g, e.x)
           [] e.k = "This" -> loadThis(K, g)
           [] e.k = "Binary" -> lowerBinary(K, g, e)
           [] e.k = "Unary" -> lowerUnary(K, g, e)
           [] e.k = "IncDec" -> lowerIncDec(K, g, e)
           [] e.k = "Assignment" -> lowerAssignment(K, g, e)
           [] e.k = "Conditional" -> lowerConditional(K, g, e)
           [] e.k = "Cast" -> lowerCast(K, g, e)
           [] e.k = "ArrayAccess" -> lowerElement(K, g, e)
           [] e.k = "ArrayCreation" -> lowerArrayCreation(K, g, e)
           [] e.k = "ArrayOf" -> lowerArrayInitializer(K, g, e.values)
           [] e.k = "New" -> lowerNew(K, g, e)
           [] e.k = "Invoke" -> lowerInvoke(K, g, e)
           [] e.k = "FieldAccess" -> lowerFieldAccess(K, g, e)
           [] OTHER -> error(g)   \* array initializers, this(...), unsupported forms

----
(* Statements.                                                             *)

lowerSub(K, g, s) == IF s.k = "Block" THEN lowerStmt(K, g, s) ELSE lowerBlock(K, g, <<s>>)

lowerLocal(K, g, s) ==
    LET e == s.init[1]
        h == IF e.k = "ArrayInitializer"
             THEN IF isArrayType(s.jt) THEN lowerArrayInitializer(K, g, e.values) ELSE error(g)
             ELSE lowerExprTo(K, g, e, s.jt)
    IN  IF s.slot = -1 \/ s.jt = "Err" THEN error(g)
        ELSE IF s.init = <<>> THEN bindLocal(g, s.x, s.slot, s.jt)
        ELSE IF h.err THEN h
        ELSE bindLocal(emitStore(h, h.v.reg, s.slot, s.jt), s.x, s.slot, s.jt)

lowerIf(K, g, s) ==
    LET c == lowerBoolExpr(K, g, s.c)
        Lelse == Len(c.bound) + 1
        Lend == Len(c.bound) + 2
        then == lowerSub(K, emitRegBranch(newLabels(c, 2), "ifeq", c.v.reg, Lelse), s.t)
    IN  IF c.err THEN c
        ELSE IF s.e = <<>> THEN bind(then, Lelse)
        ELSE bind(lowerSub(K, bind(emitBranch(then, "goto", Lend), Lelse), s.e[1]), Lend)

(* Mutant: the loop stays on the stack of jump targets. *)
LoopBodyKept(K, g, s, brk, cont, label) == lowerSub(K, pushLoop(g, brk, cont, TRUE, label), s)

LoopBody(K, g, s, brk, cont, label) == popLoop(lowerSub(K, pushLoop(g, brk, cont, TRUE, label), s))

lowerWhile(K, g, s, label) ==
    LET Lhead == Len(g.bound) + 1
        Lend == Len(g.bound) + 2
        c == lowerBoolExpr(K, emit(bind(newLabels(g, 2), Lhead), "safepoint_poll"), s.c)
        body == LoopBody(K, emitRegBranch(c, "ifeq", c.v.reg, Lend), s.s, Lend, Lhead, label)
    IN  IF c.err THEN c ELSE bind(emitBranch(body, "goto", Lhead), Lend)

lowerDoWhile(K, g, s, label) ==
    LET Lhead == Len(g.bound) + 1
        Lcont == Len(g.bound) + 2
        Lend == Len(g.bound) + 3
        head == emit(bind(newLabels(g, 3), Lhead), "safepoint_poll")
        body == LoopBody(K, head, s.s, Lend, Lcont, label)
        c == lowerBoolExpr(K, bind(body, Lcont), s.c)
    IN  IF c.err THEN c ELSE bind(emitRegBranch(c, "ifne", c.v.reg, Lhead), Lend)

lowerBasicFor(K, g, s, label) ==
    LET init == lowerStmts(K, pushScope(g), s.init)
        Lcond == Len(init.bound) + 1
        Lupd == Len(init.bound) + 2
        Lend == Len(init.bound) + 3
        head == emit(bind(newLabels(init, 3), Lcond), "safepoint_poll")
        c == IF s.c = <<>> THEN head ELSE lowerBoolExpr(K, head, s.c[1])
        tested == IF s.c = <<>> THEN c ELSE emitRegBranch(c, "ifeq", c.v.reg, Lend)
        body == LoopBody(K, tested, s.s, Lend, Lupd, label)
        upd == FoldLeft(LAMBDA h, e : lowerExpr(K, h, e), bind(body, Lupd), s.upd)
    IN  popScope(IF init.err THEN init ELSE IF c.err THEN c ELSE IF upd.err THEN upd
                 ELSE bind(emitBranch(upd, "goto", Lcond), Lend))

\* The index lives in its own slot; the array stays in the register its
\* expression left it in.
lowerEnhancedFor(K, g, s, label) ==
    LET arr == lowerExpr(K, g, s.e)
        zero == emitNew(arr, "iconst", 0, 0, 0, "Int")
        Lhead == Len(arr.bound) + 1
        Lcont == Len(arr.bound) + 2
        Lend == Len(arr.bound) + 3
        head == emit(bind(newLabels(emitStore(zero, zero.v.reg, s.idx, "Int"), 3), Lhead), "safepoint_poll")
        len == emitNew(head, "arraylength", arr.v.reg, 0, 0, "Int")
        idx == emitLoad(len, s.idx, "Int")
        elem == emitNew(emitRegRegBranch(idx, "if_icmpge", idx.v.reg, len.v.reg, Lend),
                        "iaload", arr.v.reg, idx.v.reg, 0, "Int")
        conv == emitConvert(elem, elem.v.reg, "Int", s.jt)
        bound == bindLocal(pushScope(pushLoop(emitStore(conv, conv.v.reg, s.slot, s.jt),
                                              Lend, Lcont, TRUE, label)), s.x, s.slot, s.jt)
        body == popLoop(popScope(lowerSub(K, bound, s.s)))
        i2 == emitLoad(bind(body, Lcont), s.idx, "Int")
        inc == emitStore(rawEmit(i2, Ins("iinc", i2.v.reg, 0, 0, 1)), i2.v.reg, s.idx, "Int")
    IN  IF arr.err THEN arr
        ELSE IF ~isArrayType(arr.v.t) \/ s.slot = -1 THEN error(arr)
        ELSE IF body.err THEN body
        ELSE bind(emitBranch(inc, "goto", Lhead), Lend)

lowerSwitch(K, g, s, label) ==
    LET sel == lowerExpr(K, g, s.e)
        moved == emitMove(newReg(sel), sel.numRegs, sel.v.reg, "Int")
        N == Len(s.cases)
        Lcase(i) == Len(sel.bound) + i
        Ldefault == Lcase(N + 1)
        Lafter == Lcase(N + 2)
        \* every label of every case, folded: <<fold, label>>
        labels == FlattenSeq([i \in 1 .. N |-> [j \in DOMAIN s.cases[i].labels |->
                                                 <<foldInt(s.cases[i].labels[j]), Lcase(i)>>]])
        bad == {j \in DOMAIN labels : \/ ~labels[j][1].ok \/ labels[j][1].isBool
                                      \/ labels[j][1].v \notin ConstantsOf("Int")
                                      \/ \E k \in 1 .. j - 1 : labels[k][1].v = labels[j][1].v}
        switch == emitSwitch(newLabels(moved, N + 2), sel.numRegs,
                             [j \in DOMAIN labels |-> labels[j][1].v],
                             [j \in DOMAIN labels |-> labels[j][2]])
        hasDefault == \E i \in 1 .. N : s.cases[i].default
        entered == pushScope(pushLoop(emitBranch(switch, "goto", IF hasDefault THEN Ldefault ELSE Lafter),
                                      Lafter, 0, FALSE, label))
        oneCase(h, i) ==
            LET at == bind(h, Lcase(i))
                body == lowerStmts(K, IF s.cases[i].default THEN bind(at, Ldefault) ELSE at, s.cases[i].ss)
            IN  IF h.err \/ ~s.cases[i].rule THEN body ELSE emitBranch(body, "goto", Lafter)
        all == FoldLeft(oneCase, entered, [i \in 1 .. N |-> i])
    IN  IF sel.err THEN sel
        ELSE IF ~isArithmetic(sel.v.t) THEN error(sel)
        ELSE IF bad # {} THEN IF labels[Min(bad)][1].ub THEN crashed(sel) ELSE error(sel)
        ELSE bind(popLoop(popScope(all)), Lafter)

(* Mutant: the catch-all covers the try block only. *)
AddHandlersShort(g, start, end, catchEnd, typed, rethrow) ==
    LET h == FoldLeft(LAMBDA q, t : addHandler(q, start, end, t[1], t[2]), g, typed)
    IN  IF rethrow = -1 THEN h ELSE addHandler(h, start, end, rethrow, -1)

\* The typed handlers cover the block, the catch-all the catch bodies too.
AddHandlers(g, start, end, catchEnd, typed, rethrow) ==
    LET h == FoldLeft(LAMBDA q, t : addHandler(q, start, end, t[1], t[2]), g, typed)
    IN  IF rethrow = -1 THEN h ELSE addHandler(h, start, catchEnd, rethrow, -1)

\* The catch bodies follow one another with no jump between them.
lowerTry(K, g, s) ==
    LET Lafter == Len(g.bound) + 1
        Ldone == Len(g.bound) + 2
        pending == IF s.fin = <<>> THEN g ELSE [g EXCEPT !.fins = Append(@, s.fin[1])]
        start == here(g)
        block == lowerBlock(K, newLabels(pending, 2), s.ss)
        body == IF here(block) = start THEN emit(block, "nop") ELSE block
        end == here(body)
        oneCatch(q, c) ==
            LET h == q.g
                t == IF Len(c.types) = 1 THEN "Throwable" ELSE "Object"
                entry == bindLocal(pushScope(emitSlotReg(h, "astore", 0, c.slot)), c.x, c.slot, t)
            IN  IF h.err THEN q
                ELSE IF c.slot = -1 THEN [q EXCEPT !.g = error(h)]
                ELSE [g |-> popScope(lowerBlock(K, entry, c.ss)),
                      typed |-> q.typed \o [i \in DOMAIN c.types |-> <<here(h), c.types[i]>>]]
        caught == FoldLeft(oneCatch, [g |-> emitBranch(body, "goto", Lafter), typed |-> <<>>], s.catches)
        catchEnd == here(caught.g)
        normal == lowerBlock(K, bind([caught.g EXCEPT !.fins = Front(@)], Lafter), s.fin[1])
        skip == emitBranch(normal, "goto", Ldone)
        rethrow == here(skip)
        again == lowerBlock(K, emitSlotReg(skip, "astore", 0, s.slot), s.fin[1])
        rex == emitLoad(again, s.slot, "Object")
        thrown == emitReg(rex, "athrow", rex.v.reg)
    IN  IF block.err THEN block
        ELSE IF caught.g.err THEN caught.g
        ELSE IF s.fin = <<>>
        THEN bind(AddHandlers(caught.g, start, end, catchEnd, caught.typed, -1), Lafter)
        ELSE IF normal.err THEN normal
        ELSE IF s.slot = -1 THEN error(normal)
        ELSE IF again.err THEN again
        ELSE bind(AddHandlers(thrown, start, end, catchEnd, caught.typed, rethrow), Ldone)

lowerReturn(K, g, s) ==
    LET h == lowerExprTo(K, g, s.e[1], K.result)
        left == emitFinallyChain(K, h)
    IN  IF K.result = "Void"
        THEN IF s.e # <<>> THEN error(g)
             ELSE LET done == emitFinallyChain(K, g) IN IF done.err THEN done ELSE emit(done, "return")
        ELSE IF s.e = <<>> THEN error(g)
        ELSE IF h.err THEN h ELSE IF left.err THEN left
        ELSE emitReg(left, IF isRefLike(h.v.t) THEN "areturn" ELSE "ireturn", h.v.reg)

\* break and continue: every pending finally runs first.
lowerJump(K, g, label, needsCont) ==
    LET i == findTarget(g, label, needsCont)
        left == emitFinallyChain(K, g)
    IN  IF i = 0 THEN error(g)
        ELSE IF left.err THEN left
        ELSE emitBranch(left, "goto", IF needsCont THEN g.loops[i].cont ELSE g.loops[i].brk)

lowerThrow(K, g, s) ==
    LET h == lowerExpr(K, g, s.e)
    IN  IF h.err THEN h ELSE IF ~isRefLike(h.v.t) THEN error(h) ELSE emitReg(h, "athrow", h.v.reg)

lowerSynchronized(K, g, s) ==
    LET lock == lowerExpr(K, g, s.e)
        body == lowerBlock(K, emitReg(lock, "monitorenter", lock.v.reg), s.ss)
    IN  IF lock.err THEN lock
        ELSE IF ~isRef(lock.v.t) THEN error(lock)
        ELSE IF body.err THEN body ELSE emitReg(body, "monitorexit", lock.v.reg)

lowerLabeled(K, g, s, label) ==
    CASE s.k = "While" -> lowerWhile(K, g, s, label)
      [] s.k = "DoWhile" -> lowerDoWhile(K, g, s, label)
      [] s.k = "For" -> lowerBasicFor(K, g, s, label)
      [] s.k = "ForEach" -> lowerEnhancedFor(K, g, s, label)
      [] s.k = "Switch" -> lowerSwitch(K, g, s, label)
      [] OTHER -> error(g)

lowerStmt(K, g, s) ==
    IF g.err THEN g
    ELSE CASE s.k = "Block" -> lowerBlock(K, g, s.ss)
           [] s.k = "Empty" -> g
           [] s.k = "Local" -> lowerLocal(K, g, s)
           [] s.k = "Expr" -> lowerExpr(K, g, s.e)
           [] s.k = "If" -> lowerIf(K, g, s)
           [] s.k = "Return" -> lowerReturn(K, g, s)
           [] s.k = "Throw" -> lowerThrow(K, g, s)
           [] s.k = "Break" -> lowerJump(K, g, s.label, FALSE)
           [] s.k = "Continue" -> lowerJump(K, g, s.label, TRUE)
           [] s.k = "Labeled" -> lowerLabeled(K, g, s.s, s.label)
           [] s.k = "Try" -> lowerTry(K, g, s)
           [] s.k = "Synchronized" -> lowerSynchronized(K, g, s)
           [] s.k = "UnsupportedStmt" -> error(g)
           [] OTHER -> lowerLabeled(K, g, s, "")     \* a loop or switch

----
(* Methods and the unit.                                                   *)

lowerInit(K, g, d) ==
    LET i == findField(K.cls, d.x)
        fe == K.cls.fields[i]
        h == lowerExprTo(K, g, d.init[1], fe.type)
        this == loadThis(K, h)
    IN  IF g.err THEN g
        ELSE IF d.k = "InitializerBlock" THEN lowerBlock(K, g, d.ss)
        ELSE IF h.err THEN h
        ELSE IF fe.static THEN rawEmit(h, Ins("putstatic", h.v.reg, 0, 0, cpField(fe)))
        ELSE IF this.err THEN this
        ELSE rawEmit(this, Ins("putfield", 0, this.v.reg, h.v.reg, cpField(fe)))

\* One method: [ok, diag, crash, m].  d is the declaration, ss its planned
\* statements, delegation the this(...) of a constructor if any.
run(K, d, plan, delegation, inits, ss) ==
    LET types == ParamTypes(d)
        first == IF K.static THEN 0 ELSE 1
        bound == FoldLeft(LAMBDA h, i : bindLocal(h, d.params[i].x, first + i - 1, types[i]),
                          pushScope(emitPrologue(K, NewLowerer(plan), plan, Len(types))),
                          [i \in DOMAIN types |-> i])
        delegated == IF delegation = <<>> THEN bound ELSE lowerCtorDelegation(K, bound, delegation[1])
        inited == FoldLeft(LAMBDA h, i : lowerInit(K, h, i), delegated, inits)
        body == lowerStmts(K, inited, ss)
        g == emitDefaultReturn(K, popScope(body))
        own == [i \in DOMAIN types |-> descriptorOf(types[i])]
        ok == ~body.err /\ WellFormed(g)
    IN  [ok |-> ok, diag |-> body.diag \/ (~body.err /\ ~ok), crash |-> body.crash,
         m |-> IF ~ok THEN <<>>
               ELSE <<[params |-> IF K.static THEN own ELSE <<"A">> \o own, sync |-> FALSE,
                       ret |-> descriptorOf(K.result), abstract |-> FALSE] @@ finish(g)>>]

\* A method or constructor: planned, then run; a failed plan stops it.
lowerMethod(cls, members, d) ==
    LET ctor == d.k = "Constructor"
        K == [cls |-> cls, static |-> ~ctor /\ d.static, result |-> IF ctor THEN "Void" ELSE jtypeOf(d.type)]
        plan == planMethod(cls, d.ss, K.static, ParamTypes(d))
        ss == plan.node
        explicit == ctor /\ ss # <<>> /\ ss[1].k = "Expr" /\ ss[1].e.k = "ConstructorInvocation"
        toThis == explicit /\ ~ss[1].e.super
        refused == [ok |-> FALSE, diag |-> plan.diag, crash |-> FALSE, m |-> <<>>]
    IN  IF ~plan.ok THEN refused
        ELSE IF explicit /\ ss[1].e.super /\ ss[1].e.args # <<>> THEN [refused EXCEPT !.diag = TRUE]
        ELSE run(K, d, plan, IF toThis THEN <<ss[1].e>> ELSE <<>>,
                 IF ctor /\ ~toThis THEN collectInits(members, FALSE) ELSE <<>>,
                 IF explicit THEN Tail(ss) ELSE ss)

\* The static initializers as a method without statements of its own.
lowerClinit(cls, members) ==
    run([cls |-> cls, static |-> TRUE, result |-> "Void"], Constructor(<<>>, <<>>),
        planMethod(cls, <<>>, TRUE, <<>>), <<>>, collectInits(members, TRUE), <<>>)

\* A unit is the sequence of its type declarations; the first class is
\* compiled.  The answer is [ok, diag, crash, methods, clinit].
lowerUnitImpl(unit) ==
    LET Refused == [ok |-> FALSE, diag |-> TRUE, crash |-> FALSE, methods |-> <<>>, clinit |-> 0]
        classes == SelectSeq(unit, LAMBDA t : t.k = "Class")
        members == classes[1].members
        model == buildClassModel(members)
        hasClinit == collectInits(members, TRUE) # <<>>
        cls == [model EXCEPT !.clinit = hasClinit]
        add(r, m) == [r EXCEPT !.ok = m.ok, !.diag = @ \/ m.diag, !.crash = m.crash, !.methods = @ \o m.m]
        start == [Refused EXCEPT !.ok = TRUE, !.diag = FALSE, !.clinit = IF hasClinit THEN 1 ELSE 0]
        begun == IF hasClinit THEN add(start, lowerClinit(cls, members)) ELSE start
        all == FoldLeft(LAMBDA r, d : IF r.ok THEN add(r, lowerMethod(cls, members, d)) ELSE r,
                        begun, cls.decls)
    IN  IF classes = <<>> \/ Len(classes) # Len(unit) \/ model.bad THEN Refused
        ELSE [all EXCEPT !.ok = @ /\ ~all.diag]
====
