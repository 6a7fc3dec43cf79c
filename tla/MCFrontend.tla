---- MODULE MCFrontend ----
(***************************************************************************)
(* Frontend for TLC: small classes, generated by combining what a block    *)
(* can do with the constructs around it, and one by one where a construct  *)
(* stands alone.  x counts the turns of the loop around a try, so a jump,  *)
(* a return and an exception happen in the first turn and not in the next. *)
(***************************************************************************)
EXTENDS Frontend

X == Name("x")
Print1(e) == ExprStmt(Invoke(<<FieldAccess(Name("System"), "out")>>, "println", <<e>>))
P(n) == Print1(IntLit(n))
Set(x, e) == ExprStmt(Assignment("=", x, e))
Inc(x) == ExprStmt(IncDec(FALSE, 1, x))
Lt(a, b) == Binary("<", a, b)

\* All combinations, as sequences.
Cross(A, B, F(_, _)) ==
    [n \in 1 .. Len(A) * Len(B) |-> F(A[(n - 1) \div Len(B) + 1], B[1 + ((n - 1) % Len(B))])]
Cross3(A, B, C, F(_, _, _)) ==
    [n \in 1 .. Len(A) * Len(B) * Len(C) |->
        F(A[(n - 1) \div (Len(B) * Len(C)) + 1], B[1 + (((n - 1) \div Len(C)) % Len(B))],
          C[1 + ((n - 1) % Len(C))])]

\* class C { static int m() { int x = 0; ss; return x; }
\*           static void main() { System.out.println(m()); } }
WithMain(members, ss) == <<ClassDecl(Append(members, Method(TRUE, "void", "main", <<>>, ss)))>>
InM(ss) ==
    WithMain(<<Method(TRUE, "int", "m", <<>>,
                      <<Local("int", "x", <<IntLit(0)>>)>> \o ss \o <<ReturnStmt(<<X>>)>>)>>,
             <<Print1(Invoke(<<>>, "m", <<>>))>>)


\* Atoms: what a block does the first time round and the second.
Once(s) == If(Lt(X, IntLit(2)), s, <<>>)
Twice(ss) == While(Lt(X, IntLit(2)), Block(<<Inc(X)>> \o ss \o <<P(6)>>))
DivideByZero == Set(X, Binary("/", IntLit(1), Binary("+", X, Unary("-", X))))
Atoms == <<P(1), Once(Break("")), Once(Continue("")), Once(ReturnStmt(<<IntLit(5)>>)),
           Once(Throw(NullLit)), DivideByZero>>
Outs == <<P(2), Once(Break("")), Once(ReturnStmt(<<Binary("+", X, IntLit(3))>>)), Once(Throw(NullLit))>>
OnNull(ss) == Catch(<<NullPointer>>, "e", ss)
OnArith(ss) == Catch(<<Arithmetic>>, "d", ss)

\* try in a loop, loop in a try, nested tries, two clauses.
Tries ==
    Cross3(Atoms, Append(Outs, Throw(Name("e"))), Outs, LAMBDA a, b, f :
        InM(<<Twice(<<Try(<<a>>, <<OnNull(<<b>>)>>, <<<<f>>>>)>>)>>))
    \o Cross(Atoms, Outs, LAMBDA a, f : InM(<<Twice(<<Try(<<a>>, <<>>, <<<<f>>>>)>>)>>))
    \o Cross(Atoms, <<<<>>, <<OnNull(<<P(3)>>)>>>>, LAMBDA a, h :
           InM(<<Try(<<Twice(<<a>>)>>, h, <<<<P(4)>>>>), P(5)>>))
    \o Cross3(Atoms, Outs, <<P(3), Once(ReturnStmt(<<X>>))>>, LAMBDA a, f, h :
           InM(<<Twice(<<Try(<<Try(<<a>>, <<>>, <<<<f>>>>)>>, <<OnNull(<<h>>), OnArith(<<P(4)>>)>>, <<>>)>>)>>))
    \o Cross(Atoms, Atoms, LAMBDA a, h :
           InM(<<Twice(<<Try(<<a>>, <<OnNull(<<h>>), OnArith(<<P(4), h>>)>>, <<>>)>>)>>))
    \o Cross(Atoms, Outs, LAMBDA a, f :
           InM(<<Twice(<<Try(<<a>>, <<>>, <<<<Try(<<f>>, <<OnNull(<<P(3)>>)>>, <<>>)>>>>)>>)>>))
    \o Cross(Atoms, Atoms, LAMBDA a, b :
           InM(<<Twice(<<Try(<<Try(<<a>>, <<>>, <<<<P(3)>>>>), b>>, <<Catch(<<NullPointer, Arithmetic>>, "e", <<>>)>>,
                             <<<<P(4)>>>>)>>)>>))

\* Loops, labels, switches.
I == Name("i")
Body(a) == Block(<<Inc(X), a, P(6)>>)
UpTo2(ss) == For(<<Local("int", "i", <<IntLit(0)>>)>>, <<Lt(I, IntLit(2))>>, <<IncDec(TRUE, 1, I)>>, Block(ss))
Jumps == <<Break("L"), Continue("L"), Break(""), Continue(""), Empty>>
Cases(a, rule, last) ==
    Switch(X, <<Case(<<IntLit(1)>>, FALSE, rule, <<a, P(1)>>),
                Case(<<Unary("-", IntLit(1)), IntLit(2)>>, FALSE, rule, <<P(2)>>)>>
              \o (IF last THEN <<Case(<<>>, TRUE, rule, <<P(3)>>)>> ELSE <<>>))
Flow ==
    [n \in 1 .. 6 |-> InM(<<UpTo2(<<Inc(X), Atoms[n], Print1(I)>>)>>)]
    \o [n \in 1 .. 6 |-> InM(<<DoWhile(Body(Atoms[n]), Lt(X, IntLit(2)))>>)]
    \o [n \in 1 .. 6 |-> InM(<<ForEach("int", "i", ArrayOf("int", <<IntLit(3), IntLit(4)>>),
                                      Block(<<Inc(X), Atoms[n], Print1(I)>>)), P(5)>>)]
    \o [n \in 1 .. 6 |-> InM(<<For(<<>>, <<>>, <<>>, Block(<<If(Lt(IntLit(1), X), Break(""), <<>>), Inc(X), Atoms[n], P(6)>>))>>)]
    \o Cross(Jumps, <<FALSE, TRUE>>, LAMBDA j, fin :
           InM(<<Labeled("L", Twice(<<UpTo2(<<IF fin THEN Try(<<Once(j)>>, <<>>, <<<<P(3)>>>>) ELSE Once(j), P(4)>>)>>)), P(5)>>))
    \o Cross(Jumps, <<1>>, LAMBDA j, z :
           InM(<<Labeled("L", DoWhile(Block(<<Inc(X), Try(<<UpTo2(<<Once(j), P(4)>>)>>, <<>>, <<<<P(3)>>>>)>>),
                                     Lt(X, IntLit(2)))), P(5)>>))
    \o Cross3(SubSeq(Atoms, 1, 4), <<FALSE, TRUE>>, <<FALSE, TRUE>>, LAMBDA a, rule, last :
           InM(<<UpTo2(<<Cases(a, rule, last), Inc(X)>>)>>))
    \o <<InM(<<Twice(<<UpTo2(<<P(4)>>), Once(Break(""))>>)>>), InM(<<Twice(<<UpTo2(<<P(4)>>), Once(Continue(""))>>)>>),
         InM(<<Labeled("L", Switch(X, <<Case(<<IntLit(0)>>, FALSE, FALSE, <<While(BoolLit(TRUE), Break("L"))>>),
                                        Case(<<>>, TRUE, FALSE, <<P(1)>>)>>)), P(2)>>),
         InM(<<Switch(X, <<Case(<<IntLit(3)>>, FALSE, FALSE, <<P(1)>>)>>), P(2)>>),
         InM(<<Switch(X, <<>>), P(2)>>)>>

\* A finally sees the names of its own place.
Captures ==
    LET Shadow(fin) ==
            WithMain(<<Field(TRUE, "int", "s", <<>>),
                       Method(TRUE, "int", "m", <<>>,
                              <<Try(<<Local("int", "s", <<IntLit(3)>>), If(Lt(IntLit(2), Name("s")), ReturnStmt(<<Name("s")>>), <<>>)>>,
                                    <<>>, <<<<fin>>>>), ReturnStmt(<<IntLit(1)>>)>>)>>,
                     <<Print1(Invoke(<<>>, "m", <<>>))>>)
    IN  <<Shadow(Print1(Name("s"))), Shadow(P(4)),
          InM(<<Twice(<<Try(<<UpTo2(<<Once(ReturnStmt(<<IntLit(4)>>))>>)>>, <<>>,
                            <<<<If(Lt(X, IntLit(3)), Break(""), <<>>)>>>>)>>), P(3)>>)>>

\* Expressions: order of evaluation, narrowing, folding, traps.
Say(n) == Invoke(<<>>, "say", <<n>>)          \* prints n and returns it
A == Name("a")
B == Name("b")
Bin(op, l, r) == Binary(op, l, r)
Least == Unary("-", IntLit(8))
WithSay(ss) ==
    WithMain(<<Method(TRUE, "int", "say", <<Param("int", "n")>>, <<Print1(Name("n")), ReturnStmt(<<Name("n")>>)>>)>>,
             <<Local("int", "x", <<IntLit(1)>>), Local("int[]", "a", <<ArrayInitializer(<<IntLit(5), IntLit(6)>>)>>),
               Local("byte", "b", <<IntLit(3)>>)>> \o ss)
Shown ==
    <<Bin("+", Say(IntLit(2)), Bin("/", Say(IntLit(7)), Say(X))), Bin("/", Least, Unary("-", X)),
      Bin("+", IntLit(7), X), Bin("/", X, IntLit(0)), Cast("byte", IntLit(6)), Cast("int", B),
      Assignment("=", ArrayAccess(A, Say(IntLit(1))), Say(IntLit(4))), ArrayAccess(A, Say(IntLit(2))),
      Assignment("+", ArrayAccess(A, IncDec(FALSE, 1, X)), Say(X)), Assignment("/", ArrayAccess(A, IntLit(0)), IntLit(2)),
      Assignment("/", X, Bin("+", X, Unary("-", X))), Assignment("=", ArrayAccess(A, Unary("-", X)), Say(IntLit(4))),
      IncDec(TRUE, 1, B), IncDec(FALSE, 1, B), IncDec(FALSE, -1, ArrayAccess(A, X)), IncDec(TRUE, -1, X),
      Bin("+", IncDec(FALSE, 1, X), IncDec(TRUE, 1, X)), Bin("+", X, Assignment("=", X, IntLit(5))),
      Bin("+", Assignment("=", X, IntLit(5)), X), Assignment("+", X, Assignment("+", X, X)), Assignment("+", B, IntLit(1)),
      Conditional(Lt(X, IntLit(2)), IntLit(4), X), Conditional(Lt(X, IntLit(1)), Say(IntLit(4)), X),
      Conditional(Lt(X, IntLit(1)), Bin("/", X, IntLit(0)), IntLit(2)),
      Conditional(Lt(X, IntLit(1)), Conditional(Bin("==", X, X), IncDec(TRUE, 1, X), IntLit(2)), X),
      FieldAccess(A, "length"), ArrayAccess(ArrayOf("int", <<Say(IntLit(2)), Say(IntLit(3))>>), IntLit(1)),
      ArrayAccess(ArrayCreation("int", IntLit(2)), IntLit(1)), FieldAccess(ArrayCreation("int", Unary("-", X)), "length"),
      Unary("~", X), Paren(Unary("-", Least)), Say(IntLit(9)), Bin("+", B, B), Assignment("=", B, Unary("-", IntLit(4)))>>
\* conditions: short-circuits, comparisons, booleans
Tests ==
    <<Bin("&&", Lt(X, IntLit(1)), Lt(Say(X), IntLit(2))), Bin("||", Lt(X, IntLit(2)), Lt(Say(X), IntLit(2))),
      Bin("&&", Lt(Say(X), IntLit(2)), Unary("!", Lt(Say(IntLit(3)), X))), Bin("==", A, NullLit), Bin("==", A, A),
      Bin("==", X, B), Unary("!", BoolLit(TRUE)), Bin("&&", BoolLit(TRUE), Bin("||", BoolLit(FALSE), BoolLit(TRUE))),
      Lt(Least, IntLit(7))>>
Expressions ==
    [n \in DOMAIN Shown |-> WithSay(<<Print1(Shown[n]), Print1(X), Print1(ArrayAccess(A, IntLit(0))), Print1(B)>>)]
    \o [n \in DOMAIN Tests |-> WithSay(<<Local("boolean", "q", <<Tests[n]>>), If(Tests[n], P(1), <<P(2)>>), Print1(Name("q"))>>)]
    \o <<WithSay(<<Local("var", "y", <<Bin("+", X, IntLit(1))>>), Print1(Name("y"))>>),
         WithSay(<<Local("var", "y", <<Conditional(Lt(X, IntLit(2)), X, IntLit(1))>>), Print1(Name("y"))>>),
         WithSay(<<Local("var", "y", <<ArrayOf("int", <<X>>)>>), Print1(ArrayAccess(Name("y"), IntLit(0)))>>),
         WithSay(<<Local("var", "y", <<Say(IntLit(2))>>), Print1(Name("y"))>>),
         WithSay(<<Local("int", "y", <<>>), If(Lt(X, IntLit(2)), Set(Name("y"), IntLit(4)), <<Set(Name("y"), X)>>), Print1(Name("y"))>>),
         WithSay(<<Set(A, NullLit), Print1(ArrayAccess(A, Say(IntLit(0))))>>),
         WithSay(<<Set(A, NullLit), Print1(FieldAccess(A, "length"))>>),
         WithSay(<<Set(A, NullLit), ForEach("int", "i", A, Print1(I))>>)>>

\* Objects, constructors, initializers, monitors.
F(e) == FieldAccess(e, "f")
O == Name("o")
New0 == NewObject("C", <<>>)
ClassC(inits, ss) ==
    WithMain(<<Field(TRUE, "int", "s", <<IntLit(2)>>), Field(TRUE, "C", "lock", <<New0>>),
               Field(FALSE, "int", "f", <<IntLit(3)>>), Field(FALSE, "C", "next", <<>>)>> \o inits \o
             <<Constructor(<<>>, <<Print1(F(This))>>),
               Constructor(<<Param("int", "a")>>, <<ExprStmt(ConstructorInvocation(FALSE, <<>>)), Set(F(This), A)>>),
               Constructor(<<Param("C", "c"), Param("int", "d")>>,
                           <<ExprStmt(ConstructorInvocation(TRUE, <<>>)), Set(Name("next"), Name("c")), Set(Name("f"), Name("d"))>>),
               Method(FALSE, "int", "get", <<>>, <<Local("C", "t", <<Name("next")>>), ReturnStmt(<<Name("f")>>)>>),
               Method(FALSE, "void", "put", <<Param("int", "v")>>, <<Set(F(This), Name("v")), Print1(Invoke(<<>>, "get", <<>>))>>),
               Method(TRUE, "int", "in", <<Param("int", "x")>>,
                      <<Synchronized(Name("lock"), <<P(1), Once(ReturnStmt(<<IntLit(4)>>)), P(2)>>), ReturnStmt(<<X>>)>>)>>,
             <<ExprStmt(IncDec(FALSE, 1, Name("s")))>> \o ss)
Get(e) == Invoke(<<e>>, "get", <<>>)
Locked(ss) == <<Local("int", "x", <<IntLit(0)>>), Twice(<<Synchronized(Name("lock"), ss)>>), P(5)>>
VoidAtom(n) == IF n = 4 THEN Once(ReturnStmt(<<>>)) ELSE Atoms[n]
Instances ==
    [n \in 1 .. 6 |-> ClassC(<<>>, Locked(<<P(1), VoidAtom(n)>>))]
    \o [n \in 1 .. 4 |-> ClassC(<<>>, Locked(<<Try(<<VoidAtom(n + 1)>>, <<>>, <<<<P(2)>>>>)>>))]
    \o [n \in 1 .. 4 |-> ClassC(<<>>, <<Local("int", "x", <<IntLit(0)>>),
                                       Twice(<<Try(<<Synchronized(Name("lock"), <<VoidAtom(n + 1)>>)>>, <<>>, <<<<P(2)>>>>)>>)>>)]
    \o <<ClassC(<<>>, <<Print1(Name("s")), Print1(Get(New0))>>),
         ClassC(<<>>, <<Local("C", "o", <<NewObject("C", <<IntLit(4)>>)>>), Print1(Get(O)), ExprStmt(Invoke(<<O>>, "put", <<IntLit(6)>>))>>),
         ClassC(<<>>, <<Local("C", "o", <<NewObject("C", <<NullLit, IntLit(4)>>)>>), Print1(F(O)), Print1(F(FieldAccess(O, "next")))>>),
         ClassC(<<>>, <<Local("C", "o", <<NewObject("C", <<New0, IntLit(4)>>)>>), Print1(Get(FieldAccess(O, "next")))>>),
         ClassC(<<>>, <<Local("C", "o", <<NullLit>>), ExprStmt(Invoke(<<O>>, "put", <<Invoke(<<Name("C")>>, "in", <<IntLit(2)>>)>>))>>),
         ClassC(<<>>, <<Local("C", "o", <<NullLit>>), Set(F(O), Invoke(<<>>, "in", <<IntLit(1)>>))>>),
         ClassC(<<>>, <<Set(FieldAccess(Name("lock"), "f"), IntLit(7)), ExprStmt(Assignment("+", F(Name("lock")), IntLit(2))),
                        Print1(F(Name("lock"))), Print1(IncDec(FALSE, 1, FieldAccess(Name("C"), "s")))>>),
         ClassC(<<>>, <<Synchronized(FieldAccess(Name("lock"), "next"), <<P(1)>>)>>),
         ClassC(<<>>, <<Local("C", "o", <<NullLit>>), Try(<<P(1), Set(O, New0), ExprStmt(Get(FieldAccess(O, "next")))>>, <<OnNull(<<Print1(Get(O))>>)>>, <<>>)>>),
         ClassC(<<>>, <<Local("C", "o", <<New0>>), Try(<<Set(O, NullLit), P(1)>>, <<OnNull(<<P(2)>>)>>, <<>>)>>),
         ClassC(<<InitializerBlock(FALSE, <<P(7), Set(Name("f"), IntLit(1))>>), InitializerBlock(TRUE, <<P(6)>>)>>, <<Print1(Get(New0))>>),
         ClassC(<<Field(FALSE, "int", "g", <<>>)>>, <<Print1(FieldAccess(New0, "f"))>>),
         ClassC(<<InitializerBlock(FALSE, <<Local("int", "u", <<IntLit(1)>>)>>)>>, <<P(1)>>),
         ClassC(<<Method(TRUE, "boolean", "is", <<>>, <<ReturnStmt(<<BoolLit(TRUE)>>)>>)>>, <<If(Invoke(<<>>, "is", <<>>), P(1), <<P(2)>>)>>),
         ClassC(<<Method(TRUE, "int", "no", <<Param("boolean", "q")>>, <<ReturnStmt(<<IntLit(1)>>)>>)>>, <<P(1)>>),
         ClassC(<<Method(TRUE, "int", "down", <<Param("int", "n")>>,
                         <<If(Lt(Name("n"), IntLit(1)), ReturnStmt(<<IntLit(0)>>), <<>>),
                           ReturnStmt(<<Bin("+", IntLit(1), Invoke(<<>>, "down", <<Bin("+", Name("n"), Unary("-", IntLit(1)))>>))>>)>>)>>,
                <<Print1(Invoke(<<>>, "down", <<IntLit(2)>>))>>),
         InM(<<ForEach("int", "i", ArrayOf("int", <<IntLit(3)>>), Try(<<P(1)>>, <<OnNull(<<P(2)>>)>>, <<>>)), P(5)>>)>>

\* What is refused, and the division that stops the compiler.
BadStatements ==
    <<UnsupportedStmt, ExprStmt(UnsupportedExpr), Break(""), Continue(""), While(BoolLit(TRUE), Break("K")),
      Labeled("L", Block(<<>>)), Switch(X, <<Case(<<IntLit(1)>>, FALSE, FALSE, <<Continue("")>>)>>),
      If(X, P(1), <<>>), If(Conditional(Lt(X, IntLit(1)), BoolLit(TRUE), BoolLit(FALSE)), P(1), <<>>),
      Local("int", "y", <<BoolLit(TRUE)>>), Local("byte", "y", <<IntLit(4)>>), Local("byte", "y", <<X>>),
      Local("int", "y", <<NullLit>>), Local("C", "y", <<IntLit(1)>>), Local("int", "y", <<ArrayInitializer(<<X>>)>>),
      Local("?", "y", <<IntLit(1)>>), Local("var", "y", <<NullLit>>), Local("var", "y", <<>>), Local("var", "y", <<Name("n")>>),
      Local("var", "y", <<Bin("+", Name("n"), IntLit(1))>>), Local("var", "y", <<Name("q")>>),
      Local("int", "y", <<Bin("/", Least, Unary("-", IntLit(1)))>>), Local("byte", "y", <<Bin("/", IntLit(6), IntLit(2))>>),
      Set(Name("q"), X), Set(Invoke(<<>>, "m", <<X>>), X), Inc(BoolLit(TRUE)), Print1(Bin("+", BoolLit(TRUE), X)),
      Print1(Bin("==", BoolLit(TRUE), Lt(X, X))), Print1(Unary("!", X)), Print1(Unary("-", BoolLit(TRUE))), Print1(This),
      Print1(ArrayAccess(X, X)), Print1(ArrayCreation("?", X)), Print1(FieldAccess(X, "f")), Print1(Cast("C", X)),
      Print1(Invoke(<<>>, "k", <<>>)), Print1(NewObject("D", <<>>)), Print1(NewObject("C", <<X>>)),
      ExprStmt(Assignment("+", Name("b"), BoolLit(TRUE))), ReturnStmt(<<>>), ReturnStmt(<<NullLit>>), Throw(X),
      Synchronized(X, <<>>), ForEach("int", "i", X, Empty), ForEach("C", "i", ArrayOf("int", <<X>>), Empty),
      Switch(X, <<Case(<<X>>, FALSE, FALSE, <<>>)>>), Switch(X, <<Case(<<Least>>, FALSE, FALSE, <<>>)>>),
      Switch(X, <<Case(<<IntLit(1)>>, FALSE, FALSE, <<>>), Case(<<IntLit(1)>>, FALSE, FALSE, <<>>)>>),
      Switch(Lt(X, X), <<Case(<<IntLit(1)>>, FALSE, FALSE, <<>>)>>)>>
MainOnly == Method(TRUE, "void", "main", <<>>, <<P(1)>>)
Refusals ==
    [n \in DOMAIN BadStatements |->
        WithMain(<<Method(TRUE, "int", "m", <<Param("int", "n")>>,
                          <<Local("int", "x", <<Name("n")>>), BadStatements[n], ReturnStmt(<<X>>)>>)>>,
                 <<Print1(Invoke(<<>>, "m", <<IntLit(1)>>))>>)]
    \o <<<<ClassDecl(<<AbstractMethod, MainOnly>>)>>, <<ClassDecl(<<NestedType, MainOnly>>)>>,
         <<OtherTypeDecl, ClassDecl(<<MainOnly>>)>>, <<ClassDecl(<<MainOnly, Field(TRUE, "?", "g", <<>>)>>)>>,
         <<ClassDecl(<<MainOnly, Method(TRUE, "?", "g", <<>>, <<>>)>>)>>,
         <<ClassDecl(<<MainOnly, Constructor(<<>>, <<ExprStmt(ConstructorInvocation(TRUE, <<IntLit(1)>>))>>)>>)>>,
         <<ClassDecl(<<MainOnly, Constructor(<<>>, <<P(1), ExprStmt(ConstructorInvocation(FALSE, <<>>))>>)>>)>>,
         <<ClassDecl(<<MainOnly, Field(TRUE, "int", "g", <<BoolLit(TRUE)>>)>>)>>,
         <<ClassDecl(<<MainOnly, Field(FALSE, "C", "g", <<IntLit(1)>>)>>)>>>>

MCSources == Tries \o Flow \o Captures \o Expressions \o Instances \o Refusals
MCCompile(source) == LET compiled == Compiled(source) IN compiled
====
