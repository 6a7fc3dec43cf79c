---- MODULE MCTier1 ----
(***************************************************************************)
(* Tier1 on a family of small programs: every fused pattern with all       *)
(* choices of registers, operands and successors, and multi-method         *)
(* programs for calls, exceptions, monitors, initializers and fallbacks.   *)
(***************************************************************************)
EXTENDS Tier1

In(op, dst, a, b, imm) == [op |-> op, dst |-> dst, a |-> a, b |-> b, imm |-> imm, tbl |-> <<>>]
iconst(d, n) == In("iconst", d, 0, 0, n)
iload(d, l) == In("iload", d, 0, 0, l)
aload(d, l) == In("aload", d, 0, 0, l)
istore(l, r) == In("istore", 0, r, 0, l)
astore(l, r) == In("astore", 0, r, 0, l)
iadd(d, x, y) == In("iadd", d, x, y, 0)
idiv(d, x, y) == In("idiv", d, x, y, 0)
ireturn(r) == In("ireturn", 0, r, 0, 0)
ret == In("return", 0, 0, 0, 0)
goto(t) == In("goto", 0, 0, 0, t)
call(d, a, n, k) == In("invokestatic", d, a, n, k)
poll == In("safepoint_poll", 0, 0, 0, 0)
enter(r) == In("monitorenter", 0, r, 0, 0)
exit(r) == In("monitorexit", 0, r, 0, 0)
athrow(r) == In("athrow", 0, r, 0, 0)

Method(code, handlers, params, r) ==
    [code |-> code, handlers |-> handlers, numRegs |-> 2, numLocals |-> 2, params |-> params,
     ret |-> r, sync |-> FALSE, abstract |-> FALSE]
Handler(s, e, h, c) == [start |-> s, end |-> e, handler |-> h, catch |-> c]
Prog(methods, args) == [methods |-> methods, clinit |-> 0, entry |-> 1, args |-> args]
Single(code, handlers, params, args) == Prog(<<Method(code, handlers, params, "I")>>, args)

\* Families are sequences over an index whose bits choose the operands.
Bit(n, j) == ((n - 1) \div 2 ^ j) % 2

----
(* Integer windows: both locals and both registers are set first, and what *)
(* follows the window reads one register, or both.                         *)

Before(k) == <<iconst(0, k), istore(0, 0), iconst(1, 1), istore(1, 1)>>
After(k) == <<<<iadd(0, 0, 1), ireturn(0)>>, <<ireturn(0)>>, <<ireturn(1)>>, <<iload(0, 0), ireturn(0)>>>>[k + 1]

Straight(k, w, a) == Single(Before(k) \o w \o After(a), <<>>, <<>>, <<>>)
\* A test goes to a second exit, which reads register r.
Test(k, w, a, r) ==
    LET n == 4 + Len(w) + Len(After(a))
        aimed == [w EXCEPT ![Len(w)].imm = n]
    IN  Single(Before(k) \o aimed \o After(a) \o <<ireturn(r)>>, <<>>, <<>>, <<>>)

AddPrograms ==
    [n \in 1 .. 2 ^ 8 |-> LET b(j) == Bit(n, j) IN
        Straight(b(0), <<iload(b(1), 0), iload(b(2), 1), iadd(b(3), b(4), b(5))>>, b(6) + 2 * b(7))]
AddStorePrograms ==
    [n \in 1 .. 2 ^ 9 |-> LET b(j) == Bit(n, j) IN
        Straight(b(0), <<iload(b(1), 0), iload(b(2), 1), iadd(b(3), b(4), b(5)), istore(0, b(6))>>,
            b(7) + 2 * b(8))]
IncStorePrograms ==
    [n \in 1 .. 2 ^ 7 |-> LET b(j) == Bit(n, j) IN
        Straight(b(0), <<iload(b(1), 0), In("iinc", b(2), 0, 0, 1), istore(b(3), b(4))>>,
            b(5) + 2 * b(6))]
CopyPrograms ==
    [n \in 1 .. 2 ^ 5 |-> LET b(j) == Bit(n, j) IN
        Straight(b(0), <<iload(b(1), 0), istore(1, b(2))>>, b(3) + 2 * b(4))]
ZeroTestPrograms ==
    [n \in 1 .. 2 ^ 6 |-> LET b(j) == Bit(n, j) IN
        Test(b(0), <<iload(b(1), 0), In("ifeq", 0, b(2), 0, 0)>>, b(3) + 2 * b(4), b(5))]
CompareTestPrograms ==
    [n \in 1 .. 2 ^ 10 |-> LET b(j) == Bit(n, j)
                               op == IF b(9) = 0 THEN "if_icmpeq" ELSE "if_icmpgt" IN
        Test(b(0), <<iload(b(1), 0), iconst(b(2), b(3)), In(op, 0, b(4), b(5), 0)>>,
             b(6) + 2 * b(7), b(8))]

----
(* Reference windows: the argument is null, an instance or an array; the   *)
(* body runs unprotected or under a handler that returns 3.                *)

RefArg(k) == <<nullVal, refVal(Instance), refVal(Array)>>[k]
guard(r, id) == In("guard_non_null", 0, r, 0, id)
arraylength(d, a) == In("arraylength", d, a, 0, 0)
getfield(d, a, f) == In("getfield", d, a, 0, f)

Catch(k) == <<-1, NullPointer, InternalError>>[k]

\* h = 0: no handler; 1 .. 3: from pc 0; 4 .. 6: from pc 1.
Refs(body, h, v) ==
    LET n == Len(body)
    IN  IF h = 0 THEN Single(body, <<>>, <<"A">>, <<RefArg(v)>>)
        ELSE Single(body \o <<iconst(1, 3), ireturn(1)>>,
                    <<Handler((h - 1) \div 3, n, n, Catch(((h - 1) % 3) + 1))>>,
                    <<"A">>, <<RefArg(v)>>)

RefBodies ==
    [n \in 1 .. 2 ^ 5 |-> LET b(j) == Bit(n, j) IN
        <<aload(b(0), 0), getfield(b(1), b(2), 1 + b(3)), ireturn(b(4))>>]
    \o [n \in 1 .. 2 ^ 4 |-> LET b(j) == Bit(n, j) IN
        <<iconst(1, 1), aload(0, 0), arraylength(b(0), 0), In("if_icmpgt", 0, b(0), b(1), 5),
          ireturn(b(2)), ireturn(b(3))>>]
    \o <<<<aload(0, 0), guard(0, 0), In("ifnull", 0, 0, 0, 4), iconst(1, 2), iconst(1, 1), ireturn(1)>>,
         <<aload(0, 0), enter(0), arraylength(1, 0), exit(0), ireturn(1)>>,
         <<aload(0, 0), enter(0), enter(0), exit(0), exit(0), iconst(1, 1), ireturn(1)>>,
         <<aload(0, 0), enter(0), enter(0), enter(0), iconst(1, 1), ireturn(1)>>,
         <<aload(0, 0), enter(0), guard(0, 0), exit(0), iconst(1, 1), ireturn(1)>>,
         <<In("getstatic", 1, 0, 0, BuiltinField), enter(1), aload(0, 0), guard(0, 0), getfield(0, 0, 1),
           exit(1), ireturn(0)>>,
         <<aload(0, 0), exit(0), iconst(1, 1), ireturn(1)>>,
         <<aload(0, 0), getfield(1, 0, 1), iadd(1, 1, 1), ireturn(1)>>,
         <<In("aconst_null", 1, 0, 0, 0), astore(1, 1), aload(0, 1), enter(0), iconst(1, 1), ireturn(1)>>,
         <<aload(0, 0), athrow(0)>>>>

RefPrograms ==
    [n \in 1 .. Len(RefBodies) * 21 |->
        LET i == (n - 1) \div 21
            k == (n - 1) % 21
        IN  Refs(RefBodies[i + 1], k \div 3, (k % 3) + 1)]

----
(* Calls.                                                                  *)

\* The callee, method 2, has one int parameter.
Callees(entry) ==
    <<<<iload(0, 0), iconst(1, 1), iadd(0, 0, 1), ireturn(0)>>,
      <<iload(0, 0), idiv(0, 0, 0), ireturn(0)>>,
      <<iload(0, 0), call(0, 0, 1, 2), ireturn(0)>>,
      <<In("getstatic", 0, 0, 0, IntField), ireturn(0)>>,
      <<In("getstatic", 0, 0, 0, BuiltinField), enter(0), iconst(1, 0), idiv(1, 1, 1), ireturn(1)>>,
      <<In("getstatic", 0, 0, 0, BuiltinField), exit(0), iconst(1, 0), ireturn(1)>>,
      <<iconst(0, 1), In("multianewarray", 1, 0, 1, 0), arraylength(0, 1), ireturn(0)>>,
      <<iconst(0, 1), call(0, 0, 1, 9), ireturn(0)>>,
      <<iconst(1, 0), In("getstatic", 0, 0, 0, RefField), In("ifnull", 0, 0, 0, 4), idiv(1, 1, 1),
        ireturn(1)>>,
      <<iconst(0, 2), In("putstatic", 0, 0, 0, IntField), In("getstatic", 1, 0, 0, IntField), ireturn(1)>>,
      <<iload(0, 0), call(0, 0, 1, entry), ireturn(0)>>>>

\* The entry: a plain call, one under a handler, one with a monitor.
Callers ==
    <<[code |-> <<iload(0, 0), call(1, 0, 1, 2), ireturn(1)>>, handlers |-> <<>>],
      [code |-> <<iload(0, 0), call(1, 0, 1, 2), ireturn(1), iconst(1, 3), ireturn(1)>>,
       handlers |-> <<Handler(0, 2, 3, Arithmetic), Handler(1, 3, 3, StackOverflow)>>],
      [code |-> <<In("getstatic", 1, 0, 0, BuiltinField), enter(1), iload(0, 0), call(0, 0, 1, 2), exit(1),
                  ireturn(0), astore(1, 0), In("getstatic", 1, 0, 0, BuiltinField), exit(1),
                  aload(0, 1), athrow(0)>>,
       handlers |-> <<Handler(2, 4, 6, -1)>>]>>

\* No initializer, one that writes the static, one that fails, one that calls.
Clinits ==
    <<<<ret>>, <<iconst(0, 3), In("putstatic", 0, 0, 0, IntField), ret>>,
      <<iconst(0, 0), idiv(0, 0, 0), ret>>,
      <<iconst(0, 1), call(0, 0, 1, 2), In("putstatic", 0, 0, 0, IntField), ret>>>>

\* With an initializer, that is method 1 and the entry method 3.
CallPrograms ==
    [n \in 1 .. 11 * 3 * 5 |->
        LET c == (n - 1) % 5
            caller == Callers[(((n - 1) \div 5) % 3) + 1]
            callee == Callees(IF c = 0 THEN 1 ELSE 3)[(n - 1) \div 15 + 1]
            entry == Method(caller.code, caller.handlers, <<"I">>, "I")
            m2 == Method(callee, <<>>, <<"I">>, "I")
        IN  IF c = 0 THEN Prog(<<entry, m2>>, <<intVal(1)>>)
            ELSE [methods |-> <<Method(Clinits[c], <<>>, <<>>, "V"), m2, entry>>, clinit |-> 1,
                  entry |-> 3, args |-> <<intVal(1)>>]]

----
(* The rest, one program each.                                             *)

Loop(body) == Single(body, <<>>, <<"I">>, <<intVal(1)>>)

OtherPrograms ==
    <<\* a counting loop with and without poll, its test and increment fused
      Loop(<<poll, iload(0, 0), iconst(1, 2), In("if_icmpgt", 0, 0, 1, 8), iload(0, 0),
             In("iinc", 0, 0, 0, 1), istore(0, 0), goto(0), iload(0, 0), ireturn(0)>>),
      Loop(<<iload(0, 0), iconst(1, 2), In("if_icmpgt", 0, 0, 1, 7), iload(0, 0),
             In("iinc", 0, 0, 0, 1), istore(0, 0), goto(0), iload(0, 0), ireturn(0)>>),
      Loop(<<iconst(0, 0), poll, iconst(1, 2), In("if_icmpeq", 0, 0, 1, 6), In("iinc", 0, 0, 0, 1),
             goto(1), ireturn(0)>>),
      \* a branch into the middle of a window
      Loop(<<iconst(0, 0), In("ifeq", 0, 0, 0, 3), iload(0, 0), ireturn(0)>>),
      \* a method over the instance budget
      Loop([k \in 1 .. 12 |-> iconst(0, 1)] \o <<ireturn(0)>>),
      \* switch
      Loop(<<iload(0, 0), [In("tableswitch", 0, 0, 0, 0) EXCEPT !.tbl = <<2, 4, 6>>],
             iconst(0, 1), ireturn(0), iconst(0, 2), ireturn(0), iconst(0, 3), ireturn(0)>>),
      Loop(<<iconst(0, 3), [In("tableswitch", 0, 0, 0, 0) EXCEPT !.tbl = <<2, 4, 4>>],
             iconst(0, 1), ireturn(0), iconst(0, 2), ireturn(0)>>),
      \* the quotient that does not fit
      Loop(<<iconst(0, IntMin), iconst(1, -1), idiv(0, 0, 1), ireturn(0)>>),
      \* a handler whose handler block throws again
      Single(<<iconst(0, 0), idiv(0, 0, 0), ireturn(0), athrow(0)>>, <<Handler(0, 2, 3, -1)>>, <<>>, <<>>),
      Single(<<iconst(0, 0), idiv(0, 0, 0), ireturn(0), athrow(0), iconst(1, 1), ireturn(1)>>,
             <<Handler(0, 2, 3, -1), Handler(3, 4, 4, Arithmetic)>>, <<>>, <<>>),
      \* two guards with one id; a guard id in the planner's own range
      Single(<<aload(0, 0), guard(0, 1), guard(0, 1), iconst(1, 1), ireturn(1)>>, <<>>, <<"A">>,
             <<refVal(Instance)>>),
      Single(<<aload(0, 0), guard(0, PlanIdBase), iconst(1, 1), ireturn(1)>>, <<>>, <<"A">>,
             <<nullVal>>),
      \* unresolved and builtin names
      Single(<<aload(0, 0), getfield(1, 0, UnresolvedField), iconst(1, 1), ireturn(1)>>, <<>>, <<"A">>,
             <<refVal(Instance)>>),
      Single(<<aload(0, 0), In("putstatic", 0, 0, 0, BuiltinField), iconst(1, 1), ireturn(1)>>, <<>>,
             <<"A">>, <<refVal(Instance)>>),
      \* too few arguments, a synchronized entry, an abstract callee
      Single(<<iconst(0, 1), ireturn(0)>>, <<>>, <<"I">>, <<>>),
      Prog(<<[Method(<<iconst(0, 0), idiv(0, 0, 0), ireturn(0)>>, <<>>, <<>>, "I") EXCEPT !.sync = TRUE]>>,
           <<>>),
      Prog(<<Method(<<call(1, 0, 0, 2), ireturn(1)>>, <<>>, <<>>, "I"),
             [Method(<<>>, <<>>, <<>>, "I") EXCEPT !.abstract = TRUE]>>, <<>>),
      \* a boolean result, an argument of the wrong type
      Prog(<<Method(<<call(1, 0, 0, 2), ireturn(1)>>, <<>>, <<>>, "I"),
             Method(<<iconst(0, 1), ireturn(0)>>, <<>>, <<>>, "Z")>>, <<>>),
      Prog(<<Method(<<iconst(0, 1), call(1, 0, 1, 2), ireturn(1)>>, <<>>, <<>>, "I"),
             Method(<<aload(0, 0), getfield(0, 0, 1), ireturn(0)>>, <<>>, <<"A">>, "I")>>, <<>>)>>

Families == <<AddPrograms, AddStorePrograms, IncStorePrograms, CopyPrograms, ZeroTestPrograms,
              CompareTestPrograms, RefPrograms, CallPrograms, OtherPrograms>>
Sizes == <<256, 512, 128, 32, 64, 1024, 1218, 165, 19>>
Starts == [f \in 1 .. 9 |-> FoldFunction(+, 0, [g \in 1 .. f - 1 |-> Sizes[g]])]

\* The families one after the other.
MCPrograms ==
    [n \in 1 .. Starts[9] + Sizes[9] |->
        LET f == Max({g \in 1 .. 9 : Starts[g] < n}) IN Families[f][n - Starts[f]]]
MCBudget == [instances |-> 11, bytes |-> 60, patches |-> 30, deopts |-> 5, fusions |-> 4]
====
