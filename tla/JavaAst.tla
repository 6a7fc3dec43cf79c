---- MODULE JavaAst ----
(***************************************************************************)
(* The syntax trees the frontend lowers (frontend/ast/Ast.h): one          *)
(* constructor per node kind, operators and literals cut down to one       *)
(* member per family.  An optional child is a sequence of length at most   *)
(* one.  A type is its source spelling; the nodes that own a local slot    *)
(* carry it, -1 until the planner has visited them.                        *)
(***************************************************************************)
EXTENDS Integers, Sequences

----
(* Expressions.                                                            *)

IntLit(n) == [k |-> "Int", n |-> n]
BoolLit(p) == [k |-> "Bool", n |-> IF p THEN 1 ELSE 0]
NullLit == [k |-> "Null"]
StringLit == [k |-> "String"]
Name(x) == [k |-> "Name", x |-> x]
This == [k |-> "This"]
Paren(e) == [k |-> "Paren", e |-> e]
Binary(op, l, r) == [k |-> "Binary", op |-> op, l |-> l, r |-> r]
Unary(op, e) == [k |-> "Unary", op |-> op, e |-> e]
\* ++x, --x, x++, x--: by is 1 or -1
IncDec(prefix, by, e) == [k |-> "IncDec", prefix |-> prefix, by |-> by, e |-> e]
\* op is "=" or a binary operator for the compound forms
Assignment(op, target, e) == [k |-> "Assignment", op |-> op, target |-> target, e |-> e]
Conditional(c, t, e) == [k |-> "Conditional", c |-> c, t |-> t, e |-> e]
Cast(type, e) == [k |-> "Cast", type |-> type, e |-> e]
ArrayAccess(a, i) == [k |-> "ArrayAccess", a |-> a, i |-> i]
ArrayCreation(type, len) == [k |-> "ArrayCreation", type |-> type, len |-> len]
ArrayOf(type, values) == [k |-> "ArrayOf", type |-> type, values |-> values]
ArrayInitializer(values) == [k |-> "ArrayInitializer", values |-> values]
FieldAccess(e, x) == [k |-> "FieldAccess", e |-> e, x |-> x]
NewObject(type, args) == [k |-> "New", type |-> type, args |-> args]
\* target is <<>> for an unqualified call
Invoke(target, x, args) == [k |-> "Invoke", target |-> target, x |-> x, args |-> args]
ConstructorInvocation(super, args) ==
    [k |-> "ConstructorInvocation", super |-> super, args |-> args]
\* lambda, method reference, switch expression, super access
UnsupportedExpr == [k |-> "UnsupportedExpr"]

----
(* Statements.                                                             *)

Block(ss) == [k |-> "Block", ss |-> ss]
Empty == [k |-> "Empty"]
\* type "var" asks for inference
Local(type, x, init) == [k |-> "Local", type |-> type, x |-> x, init |-> init,
                         slot |-> -1, jt |-> "Err"]
ExprStmt(e) == [k |-> "Expr", e |-> e]
If(c, t, e) == [k |-> "If", c |-> c, t |-> t, e |-> e]
While(c, s) == [k |-> "While", c |-> c, s |-> s]
DoWhile(s, c) == [k |-> "DoWhile", c |-> c, s |-> s]
For(init, c, upd, s) == [k |-> "For", init |-> init, c |-> c, upd |-> upd, s |-> s]
ForEach(type, x, e, s) == [k |-> "ForEach", type |-> type, x |-> x, e |-> e, s |-> s,
                           idx |-> -1, slot |-> -1, jt |-> "Err"]
ReturnStmt(e) == [k |-> "Return", e |-> e]
Throw(e) == [k |-> "Throw", e |-> e]
Break(label) == [k |-> "Break", label |-> label]
Continue(label) == [k |-> "Continue", label |-> label]
Labeled(label, s) == [k |-> "Labeled", label |-> label, s |-> s]
\* labels: constant expressions; default: the case also carries that label
Case(labels, default, rule, ss) ==
    [labels |-> labels, default |-> default, rule |-> rule, ss |-> ss]
Switch(e, cases) == [k |-> "Switch", e |-> e, cases |-> cases]
\* types: the exception classes of a catch (several in a multi-catch)
Catch(types, x, ss) == [types |-> types, x |-> x, ss |-> ss, slot |-> -1]
Try(ss, catches, fin) == [k |-> "Try", ss |-> ss, catches |-> catches, fin |-> fin,
                          slot |-> -1]
Synchronized(e, ss) == [k |-> "Synchronized", e |-> e, ss |-> ss]
\* yield, assert, local class
UnsupportedStmt == [k |-> "UnsupportedStmt"]

----
(* Declarations.                                                           *)

Param(type, x) == [type |-> type, x |-> x]
Field(static, type, x, init) ==
    [k |-> "Field", static |-> static, type |-> type, x |-> x, init |-> init]
Method(static, type, x, params, ss) ==
    [k |-> "Method", static |-> static, type |-> type, x |-> x, params |-> params, ss |-> ss]
Constructor(params, ss) == [k |-> "Constructor", params |-> params, ss |-> ss]
InitializerBlock(static, ss) == [k |-> "InitializerBlock", static |-> static, ss |-> ss]
AbstractMethod == [k |-> "AbstractMethod"]
NestedType == [k |-> "NestedType"]

ClassDecl(members) == [k |-> "Class", members |-> members]
\* interface, enum, record, annotation type
OtherTypeDecl == [k |-> "OtherType"]
====
