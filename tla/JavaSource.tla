---- MODULE JavaSource ----
(***************************************************************************)
(* What the accepted subset of Java means: a direct, recursive execution   *)
(* of the syntax tree by the rules of the language (JLS 14 and 15).  It is *)
(* the reference the lowered code is compared with, not a model of code.   *)
(*                                                                         *)
(* A state s is [env, this, heap, trace, comp, v, ctx, dev]: the locals in *)
(* scope, the receiver, the heap, what was printed with how many monitors  *)
(* held, how the last statement completed, the value of the last           *)
(* expression, and the enclosing breakable statements and finally blocks.  *)
(* dev collects the places where the lowering is known to differ from the  *)
(* language (README, "Lowering deviations").                               *)
(***************************************************************************)
EXTENDS Lower, T0Exec

Normal == [k |-> "normal", label |-> "", exc |-> 0, v |-> bottom, env |-> <<>>, ctx |-> <<>>]

Start == [env |-> <<>>, this |-> nullVal,
          heap |-> [inst |-> <<>>, arr |-> <<>>, stat |-> <<>>, mon |-> 0, next |-> 1],
          trace |-> <<>>, comp |-> Normal, v |-> bottom, loc |-> <<>>, ctx |-> <<>>, dev |-> {}]

\* Sequencing: an abrupt completion skips what follows.
Then(s, rest(_)) == IF s.comp.k = "normal" THEN rest(s) ELSE s

Yield(s, v) == [s EXCEPT !.v = v]
YieldInt(s, n) == Yield(s, intVal(n))
Truth(s) == s.v[2] # 0
Raise(s, exc) == [s EXCEPT !.comp = [Normal EXCEPT !.k = "throw", !.exc = exc]]
Deviate(s, what) == [s EXCEPT !.dev = @ \cup {what}]

\* An abrupt completion remembers the scopes and statements around it.
Abrupt(s, k, label) ==
    [s EXCEPT !.comp = [Normal EXCEPT !.k = k, !.label = label, !.v = s.v, !.env = s.env, !.ctx = s.ctx]]

RECURSIVE Eval(_, _, _)
RECURSIVE Exec(_, _, _)

ExecAll(P, s, ss) == FoldLeft(LAMBDA t, st : Then(t, LAMBDA u : Exec(P, u, st)), s, ss)

\* The block's own locals are gone afterwards.
Leave(s, outer) == [s EXCEPT !.env = [x \in DOMAIN outer |-> s.env[x]]]
ExecBlock(P, s, ss) == Leave(ExecAll(P, s, ss), s.env)

----
(* Variables.  A location is [k, x, o, i].                                 *)

FieldNamed(P, x) == P.cls.fields[findField(P.cls, x)]
Narrow(t, n) == IF t = "Byte" THEN I2b(n) ELSE Wrap(n)

IsClass(P, s, e) == e.k = "Name" /\ e.x \notin DOMAIN s.env /\ findField(P.cls, e.x) = 0

FieldLoc(P, s, x, o) ==
    [s EXCEPT !.loc = [k |-> IF FieldNamed(P, x).static THEN "Static" ELSE "Field",
                       x |-> x, o |-> o, i |-> 0]]

Locate(P, s, e) ==
    CASE e.k = "Name" /\ e.x \in DOMAIN s.env ->
             [s EXCEPT !.loc = [k |-> "Local", x |-> e.x, o |-> nullVal, i |-> 0]]
      [] e.k = "Name" /\ e.x \notin DOMAIN s.env -> FieldLoc(P, s, e.x, s.this)
      [] e.k = "FieldAccess" ->
             IF IsClass(P, s, e.e) THEN FieldLoc(P, s, e.x, nullVal)
             ELSE Then(Eval(P, s, e.e), LAMBDA t : FieldLoc(P, t, e.x, t.v))
      [] e.k = "ArrayAccess" ->
             Then(Eval(P, s, e.a), LAMBDA t :
                 Then(Eval(P, t, e.i), LAMBDA u :
                     [u EXCEPT !.loc = [k |-> "Element", x |-> "", o |-> t.v, i |-> u.v[2]]]))

TypeAt(P, s, loc) ==
    CASE loc.k = "Local" -> s.env[loc.x].t
      [] loc.k = "Element" -> "Int"
      [] OTHER -> FieldNamed(P, loc.x).type

\* Null and bounds are checked when the element or field is accessed.
Checked(s, loc, access(_)) ==
    IF loc.k \in {"Field", "Element"} /\ isNull(loc.o) THEN Raise(s, NullPointer)
    ELSE IF loc.k = "Element" /\ loc.i \notin 0 .. Len(s.heap.arr[loc.o[2]]) - 1
    THEN Raise(s, ArrayIndex) ELSE access(s)

Zero(P, x) == IF isNumeric(FieldNamed(P, x).type) THEN intVal(0) ELSE nullVal
Stored(P, f, x) == IF x \in DOMAIN f THEN f[x] ELSE Zero(P, x)

ReadLoc(P, s, loc) ==
    Checked(s, loc, LAMBDA t : Yield(t,
        CASE loc.k = "Local" -> t.env[loc.x].v
          [] loc.k = "Static" -> Stored(P, t.heap.stat, loc.x)
          [] loc.k = "Field" -> Stored(P, t.heap.inst[loc.o[2]], loc.x)
          [] loc.k = "Element" -> t.heap.arr[loc.o[2]][loc.i + 1]))

WriteLoc(P, s, loc, v) ==
    Checked(s, loc, LAMBDA t :
        CASE loc.k = "Local" -> [t EXCEPT !.env[loc.x].v = v]
          [] loc.k = "Static" -> [t EXCEPT !.heap.stat = (loc.x :> v) @@ @]
          [] loc.k = "Field" -> [t EXCEPT !.heap.inst[loc.o[2]] = (loc.x :> v) @@ @]
          [] loc.k = "Element" -> [t EXCEPT !.heap.arr[loc.o[2]][loc.i + 1] = v])

----
(* Calls.                                                                  *)

\* Arguments left to right; the values are left in v as a sequence.
EvalArgs(P, s, args) ==
    FoldLeft(LAMBDA t, e : Then(t, LAMBDA u : LET w == Eval(P, [u EXCEPT !.v = bottom], e)
                                              IN  IF w.comp.k = "normal" THEN [w EXCEPT !.v = Append(u.v, @)] ELSE w),
             Yield(s, <<>>), args)

\* A body run with its own locals; body(_) is the part after the parameters.
Call(P, s, this, d, args, body(_)) ==
    LET env == [x \in {d.params[i].x : i \in DOMAIN d.params} |->
                    LET i == CHOOSE j \in DOMAIN d.params : d.params[j].x = x
                    IN  [t |-> jtypeOf(d.params[i].type), v |-> args[i]]]
        t == body([s EXCEPT !.env = env, !.this = this, !.ctx = <<>>, !.v = bottom])
    IN  [t EXCEPT !.env = s.env, !.this = s.this, !.ctx = s.ctx,
                  !.v = IF t.comp.k = "return" THEN t.comp.v ELSE bottom,
                  !.comp = IF t.comp.k = "throw" THEN @ ELSE Normal]

\* Tiers hand no boolean or byte result back to the caller.
CallMethod(P, s, this, i, args) ==
    LET d == P.cls.decls[i]
        t == Call(P, s, this, d, args, LAMBDA u : ExecAll(P, u, d.ss))
    IN  IF P.cls.methods[i].result \in {"Bool", "Byte"} THEN Deviate(t, "smallResult") ELSE t

InitFields(P, s, static) ==
    FoldLeft(LAMBDA t, d : Then(t, LAMBDA u :
                 IF d.k = "InitializerBlock" THEN ExecBlock(P, u, d.ss)
                 ELSE Then(Eval(P, u, IF d.init[1].k = "ArrayInitializer" THEN ArrayOf("int", d.init[1].values)
                                      ELSE d.init[1]),
                           LAMBDA w : WriteLoc(P, w, FieldLoc(P, w, d.x, w.this).loc, w.v))),
             s, collectInits(P.members, static))

RECURSIVE Construct(_, _, _, _)
Construct(P, s, this, args) ==
    LET d == P.cls.decls[findUnique(P.cls, "<init>", Len(args))]
        explicit == d.ss # <<>> /\ d.ss[1].k = "Expr" /\ d.ss[1].e.k = "ConstructorInvocation"
        body(u) ==
            IF explicit /\ ~d.ss[1].e.super
            THEN Then(Then(EvalArgs(P, u, d.ss[1].e.args), LAMBDA w : Construct(P, w, this, w.v)),
                      LAMBDA w : ExecAll(P, w, Tail(d.ss)))
            ELSE Then(InitFields(P, u, FALSE),
                      LAMBDA w : ExecAll(P, w, IF explicit THEN Tail(d.ss) ELSE d.ss))
    IN  Call(P, s, this, d, args, body)

IsPrint(P, s, e) == e.x = "println" /\ e.target # <<>> /\ e.target[1].k = "FieldAccess"
                      /\ IsClass(P, s, e.target[1].e)

EvalInvoke(P, s, e) ==
    LET i == findUnique(P.cls, e.x, Len(e.args))
        qualified == e.target # <<>> /\ ~IsClass(P, s, e.target[1])
        recv == IF qualified THEN Eval(P, s, e.target[1]) ELSE Yield(s, s.this)
    IN  IF IsPrint(P, s, e)
        THEN Then(Eval(P, s, e.args[1]), LAMBDA t : [t EXCEPT !.trace = Append(@, <<t.v[2], t.heap.mon>>)])
        ELSE Then(recv, LAMBDA r : Then(EvalArgs(P, r, e.args), LAMBDA t :
                 IF ~P.cls.methods[i].static /\ isNull(r.v) THEN Raise(t, NullPointer)
                 ELSE CallMethod(P, t, IF P.cls.methods[i].static THEN nullVal ELSE r.v, i, t.v)))

----
(* Expressions.                                                            *)

NewObj(s) == [s EXCEPT !.heap.next = @ + 1, !.v = refVal(s.heap.next)]

EvalBinary(P, s, e) ==
    IF e.op \in {"&&", "||"}
    THEN Then(Eval(P, s, e.l), LAMBDA t : IF Truth(t) = (e.op = "&&") THEN Eval(P, t, e.r) ELSE t)
    ELSE Then(Eval(P, s, e.l), LAMBDA t : Then(Eval(P, t, e.r), LAMBDA u :
             CASE e.op = "+" -> YieldInt(u, Wrap(t.v[2] + u.v[2]))
               [] e.op = "/" -> IF u.v[2] = 0 THEN Raise(u, Arithmetic)
                                ELSE YieldInt(u, Quotient(t.v[2], u.v[2]))
               [] e.op = "<" -> YieldInt(u, IF t.v[2] < u.v[2] THEN 1 ELSE 0)
               [] e.op = "==" -> YieldInt(u, IF t.v = u.v THEN 1 ELSE 0)))

\* The branch not chosen is tried as well: evaluating it must change nothing
\* for the lowered code, which evaluates both, to agree.
EvalConditional(P, s, e) ==
    Then(Eval(P, s, e.c), LAMBDA t :
        LET other == Eval(P, t, IF Truth(t) THEN e.e ELSE e.t)
            pure == /\ other.comp = t.comp /\ other.heap = t.heap /\ other.env = t.env
                    /\ other.trace = t.trace /\ other.dev = t.dev
        IN  Eval(P, IF pure THEN t ELSE Deviate(t, "eagerConditional"),
                 IF Truth(t) THEN e.t ELSE e.e))

\* x op= e and the increments read the target once before the operand.
EvalUpdate(P, s, target, new(_, _), prefix) ==
    Then(Locate(P, s, target), LAMBDA l : Then(ReadLoc(P, l, l.loc), LAMBDA old :
        Then(new(old, old.v[2]), LAMBDA t :
            LET v == intVal(Narrow(TypeAt(P, t, l.loc), t.v[2]))
            IN  Then(WriteLoc(P, t, l.loc, v), LAMBDA w : Yield(w, IF prefix THEN v ELSE old.v)))))

EvalAssignment(P, s, e) ==
    IF e.op = "="
    THEN Then(Locate(P, s, e.target), LAMBDA l : Then(Eval(P, l, e.e), LAMBDA t : WriteLoc(P, t, l.loc, t.v)))
    ELSE EvalUpdate(P, s, e.target,
                    LAMBDA t, n : Then(Eval(P, t, e.e), LAMBDA u :
                        IF e.op = "+" THEN YieldInt(u, Wrap(n + u.v[2]))
                        ELSE IF u.v[2] = 0 THEN Raise(u, Arithmetic)
                        ELSE YieldInt(u, Quotient(n, u.v[2]))), TRUE)

\* The array is allocated before its elements are evaluated.
EvalArrayOf(P, s, values) ==
    LET made == NewObj(s)
        zeros == [i \in DOMAIN values |-> intVal(0)]
        all == EvalArgs(P, [made EXCEPT !.heap.arr = @ @@ (made.v[2] :> zeros)], values)
    IN  Then(all, LAMBDA t : [t EXCEPT !.heap.arr[made.v[2]] = t.v, !.v = made.v])

Eval(P, s, e) ==
    CASE e.k = "Int" -> YieldInt(s, Wrap(e.n))
      [] e.k = "Bool" -> YieldInt(s, e.n)
      [] e.k = "Null" -> Yield(s, nullVal)
      [] e.k = "String" -> Yield(s, refVal(0))
      [] e.k = "This" -> Yield(s, s.this)
      [] e.k = "Paren" -> Eval(P, s, e.e)
      [] e.k = "Binary" -> EvalBinary(P, s, e)
      [] e.k = "Unary" -> Then(Eval(P, s, e.e), LAMBDA t :
             YieldInt(t, CASE e.op = "-" -> Wrap(-t.v[2]) [] e.op = "~" -> -1 - t.v[2]
                           [] e.op = "!" -> 1 - t.v[2]))
      [] e.k = "IncDec" -> EvalUpdate(P, s, e.e, LAMBDA t, n : YieldInt(t, n + e.by), e.prefix)
      [] e.k = "Assignment" -> EvalAssignment(P, s, e)
      [] e.k = "Conditional" -> EvalConditional(P, s, e)
      [] e.k = "Cast" -> Then(Eval(P, s, e.e), LAMBDA t : YieldInt(t, Narrow(jtypeOf(e.type), t.v[2])))
      [] e.k = "ArrayCreation" -> Then(Eval(P, s, e.len), LAMBDA t :
             IF t.v[2] < 0 THEN Raise(t, NegativeArraySize)
             ELSE LET made == NewObj(t)
                  IN  [made EXCEPT !.heap.arr = @ @@ (made.v[2] :> [i \in 1 .. t.v[2] |-> intVal(0)])])
      [] e.k = "ArrayOf" -> EvalArrayOf(P, s, e.values)
      [] e.k = "New" ->
             LET made == NewObj(s)
             IN  Then(EvalArgs(P, [made EXCEPT !.heap.inst = @ @@ (made.v[2] :> <<>>)], e.args), LAMBDA t :
                     Then(Construct(P, t, made.v, t.v), LAMBDA u : Yield(u, made.v)))
      [] e.k = "Invoke" -> EvalInvoke(P, s, e)
      [] e.k = "FieldAccess" /\ e.x = "length" -> Then(Eval(P, s, e.e), LAMBDA t :
             IF isNull(t.v) THEN Raise(t, NullPointer) ELSE YieldInt(t, Len(t.heap.arr[t.v[2]])))
      [] OTHER -> Then(Locate(P, s, e), LAMBDA t : ReadLoc(P, t, t.loc))

----
(* Statements.                                                             *)

Enter(s, fin, cont, label) ==
    [s EXCEPT !.ctx = Append(@, [fin |-> fin, cont |-> cont, label |-> label])]
Exit(s, outer) == [s EXCEPT !.ctx = outer.ctx]

Names(comp, label) == comp.label = "" \/ comp.label = label
Resume(s) == [s EXCEPT !.comp = Normal]
EndBreak(s, label) == IF s.comp.k = "break" /\ Names(s.comp, label) THEN Resume(s) ELSE s
EndContinue(s, label) == IF s.comp.k = "continue" /\ Names(s.comp, label) THEN Resume(s) ELSE s

\* A jump passes the finallies inside its target; the lowering runs them all.
Jump(s, k, label) ==
    LET target == Max({i \in DOMAIN s.ctx : /\ ~s.ctx[i].fin
                                            /\ k = "continue" => s.ctx[i].cont
                                            /\ label = "" \/ s.ctx[i].label = label})
    IN  Abrupt(IF \E i \in 1 .. target : s.ctx[i].fin THEN Deviate(s, "farFinally") ELSE s, k, label)

RECURSIVE Loop(_, _, _, _)
Loop(P, s, l, test) ==
    Then(IF test THEN Eval(P, s, l.c) ELSE YieldInt(s, 1), LAMBDA t :
        IF ~Truth(t) THEN t
        ELSE LET b == ExecBlock(P, t, <<l.s>>)
             IN  IF b.comp.k = "break" /\ Names(b.comp, l.label) THEN Resume(b)
                 ELSE Then(EndContinue(b, l.label), LAMBDA u :
                          LET w == FoldLeft(LAMBDA q, e : Then(q, LAMBDA r : Eval(P, r, e)), u, l.upd)
                          IN  Then(w, LAMBDA q : Loop(P, q, l, TRUE))))

RECURSIVE Each(_, _, _, _, _)
Each(P, s, st, arr, i) ==
    IF i > Len(s.heap.arr[arr]) THEN s
    ELSE LET x == (st.x :> [t |-> "Int", v |-> s.heap.arr[arr][i]])
             b == Leave(ExecBlock(P, [s EXCEPT !.env = x @@ @], <<st.s>>), s.env)
         IN  IF b.comp.k = "break" /\ Names(b.comp, st.label) THEN Resume(b)
             ELSE Then(EndContinue(b, st.label), LAMBDA u : Each(P, u, st, arr, i + 1))

\* From the chosen case on, or that case alone in the arrow form.
ExecSwitch(P, s, st) ==
    LET N == Len(st.cases)
        hit(n) == {i \in 1 .. N : \E j \in DOMAIN st.cases[i].labels : foldInt(st.cases[i].labels[j]).v = n}
        default == {i \in 1 .. N : st.cases[i].default}
        from(n) == IF hit(n) # {} THEN hit(n) ELSE default
        body(t) == LET i == Min(from(t.v[2]))
                       last == IF st.cases[i].rule THEN i ELSE N
                   IN  ExecBlock(P, t, FlattenSeq([j \in 1 .. last - i + 1 |-> st.cases[i + j - 1].ss]))
    IN  Then(Eval(P, s, st.e), LAMBDA t :
            IF from(t.v[2]) = {} THEN t ELSE Exit(EndBreak(body(Enter(t, FALSE, FALSE, st.label)), st.label), t))

LoopOf(c, st, upd, label) == [c |-> c, s |-> st, upd |-> upd, label |-> label]

ExecLoop(P, s, st, label) ==
    LET in == Enter(s, FALSE, TRUE, label)
    IN  Exit(CASE st.k = "While" -> Loop(P, in, LoopOf(st.c, st.s, <<>>, label), TRUE)
               [] st.k = "DoWhile" -> Loop(P, in, LoopOf(st.c, st.s, <<>>, label), FALSE)
               [] st.k = "For" ->
                      Leave(Then(ExecAll(P, in, st.init), LAMBDA t :
                                Loop(P, t, LoopOf(IF st.c = <<>> THEN BoolLit(TRUE) ELSE st.c[1],
                                                  st.s, st.upd, label), TRUE)), s.env)
               [] st.k = "ForEach" ->
                      Then(Eval(P, in, st.e), LAMBDA t :
                          IF isNull(t.v) THEN Raise(t, NullPointer)
                          ELSE Each(P, t, [x |-> st.x, s |-> st.s, label |-> label], t.v[2], 1))
               [] st.k = "Switch" -> ExecSwitch(P, s, [e |-> st.e, cases |-> st.cases, label |-> label]),
             s)

\* The finally of a try that completed as t: it runs once, and its own abrupt
\* completion replaces the pending one.  The lowered copy for a jump stands
\* inside the protected range and in the scopes and loops of the jump.
ExecFinally(P, s, t, fin) ==
    LET jumps == t.comp.k \in {"break", "continue", "return"}
        r == ExecBlock(P, Resume(t), fin)
        site == ExecBlock(P, [Resume(t) EXCEPT !.env = @ @@ t.comp.env], fin)
        captured == \/ site.trace # r.trace \/ site.heap # r.heap \/ site.comp.k # r.comp.k
                    \/ \E x \in DOMAIN r.env : site.env[x] # r.env[x]
        inner(ctx) == SelectSeq(ctx, LAMBDA c : ~c.fin)
        what == (IF jumps /\ r.comp.k = "throw" THEN {"protectedFinally"} ELSE {})
                  \cup (IF jumps /\ r.comp.k \in {"break", "continue"} /\ inner(t.comp.ctx) # inner(s.ctx)
                        THEN {"finallyJump"} ELSE {})
                  \cup (IF jumps /\ captured THEN {"capturedName"} ELSE {})
    IN  [r EXCEPT !.dev = @ \cup what, !.comp = IF r.comp.k = "normal" THEN t.comp ELSE @]

\* The first clause that names the exception.  All but the last lack the jump
\* over the clauses after them.
ExecCatch(P, s, t, catches) ==
    LET hit == {i \in DOMAIN catches : t.comp.exc \in ToSet(catches[i].types)}
        c == catches[Min(hit)]
        x == c.x :> [t |-> "Throwable", v |-> refVal(t.comp.exc)]
        r == Leave(ExecBlock(P, [Resume(t) EXCEPT !.env = x @@ @], c.ss), s.env)
    IN  IF t.comp.k # "throw" \/ hit = {} THEN t
        ELSE IF r.comp.k = "normal" /\ Min(hit) < Len(catches) THEN Deviate(r, "catchFallsThrough") ELSE r

ExecTry(P, s, st) ==
    LET in == IF st.fin = <<>> THEN s ELSE Enter(s, TRUE, FALSE, "")
        done == Exit(ExecCatch(P, in, ExecBlock(P, in, st.ss), st.catches), s)
    IN  IF st.fin = <<>> THEN done ELSE ExecFinally(P, s, done, st.fin[1])

\* The lowered block releases its monitor only at its end; a frame that is
\* left releases what it recorded.
ExecSynchronized(P, s, st) ==
    Then(Eval(P, s, st.e), LAMBDA t :
        IF isNull(t.v) THEN Raise(t, NullPointer)
        ELSE LET b == ExecBlock(P, [t EXCEPT !.heap.mon = @ + 1], st.ss)
                 r == [b EXCEPT !.heap.mon = @ - 1]
             IN  IF b.comp.k = "normal" \/ (b.comp.k = "return" /\ \A i \in DOMAIN s.ctx : ~s.ctx[i].fin) THEN r
                 ELSE Deviate(r, "heldMonitor"))

ExecLocal(P, s, st) ==
    LET t == IF st.type = "var" THEN "Int" ELSE jtypeOf(st.type)
        bound(u, v) == [u EXCEPT !.env = (st.x :> [t |-> t, v |-> v]) @@ @]
    IN  IF st.init = <<>> THEN bound(s, bottom)
        ELSE Then(IF st.init[1].k = "ArrayInitializer" THEN EvalArrayOf(P, s, st.init[1].values)
                  ELSE Eval(P, s, st.init[1]), LAMBDA u : bound(u, u.v))

Exec(P, s, st) ==
    CASE st.k = "Block" -> ExecBlock(P, s, st.ss)
      [] st.k = "Empty" -> s
      [] st.k = "Local" -> ExecLocal(P, s, st)
      [] st.k = "Expr" -> Eval(P, s, st.e)
      [] st.k = "If" -> Then(Eval(P, s, st.c), LAMBDA t :
             IF Truth(t) THEN ExecBlock(P, t, <<st.t>>) ELSE ExecBlock(P, t, st.e))
      [] st.k = "Return" ->
             IF st.e = <<>> THEN Abrupt(Yield(s, bottom), "return", "")
             ELSE Then(Eval(P, s, st.e[1]), LAMBDA t : Abrupt(t, "return", ""))
      [] st.k = "Throw" -> Then(Eval(P, s, st.e), LAMBDA t :
             Raise(t, IF isNull(t.v) THEN NullPointer ELSE t.v[2]))
      [] st.k = "Break" -> Jump(s, "break", st.label)
      [] st.k = "Continue" -> Jump(s, "continue", st.label)
      [] st.k = "Labeled" -> ExecLoop(P, s, st.s, st.label)
      [] st.k = "Try" -> ExecTry(P, s, st)
      [] st.k = "Synchronized" -> ExecSynchronized(P, s, st)
      [] OTHER -> ExecLoop(P, s, st, "")

\* The class is initialized, then its method number entry runs with args.
Meaning(unit, entry, args) ==
    LET cls == buildClassModel(unit[1].members)
        P == [cls |-> cls, members |-> unit[1].members]
        s == Then(InitFields(P, Start, TRUE), LAMBDA t : CallMethod(P, t, nullVal, entry, args))
    IN  [out |-> IF s.comp.k = "throw" THEN Threw(s.comp.exc) ELSE Returned(s.v),
         trace |-> s.trace, dev |-> s.dev]
====
