---- MODULE Frontend ----
(***************************************************************************)
(* A source unit on its way to the interpreter: it is lowered to bytecode  *)
(* (Lower), the interpreter verifies every method before it runs any       *)
(* (RbcVerifier), and executes main (T0Exec).  What main prints, with the  *)
(* number of monitors held at the time, and how it ends are compared with  *)
(* what the source means (JavaSource).                                     *)
(*                                                                         *)
(* Lowering and verification are functions of the source; Compile, which   *)
(* an instance binds to Compiled, is a parameter of the machine.           *)
(***************************************************************************)
EXTENDS JavaSource, RbcVerifier

ClassOf(source) == SelectSeq(source, LAMBDA t : t.k = "Class")[1]
Main(source) == findUnique(buildClassModel(ClassOf(source).members), "main", 0)

\* A unit: what the lowering makes of a source, whether every method passes
\* the verifier, the entry method and what main() means.  The lowered unit is
\* bound as the element of a set: TLC then computes it once.
Compiled(source) ==
    CHOOSE unit \in
        {[low |-> low,
          verified |-> \A i \in DOMAIN low.methods : verify(low.methods, low.methods[i]),
          entry |-> IF low.ok THEN Main(source) + low.clinit ELSE 0,
          meaning |-> IF low.ok THEN Meaning(source, Main(source), <<>>)
                      ELSE [out |-> Running, trace |-> <<>>, dev |-> {}]] : low \in {lowerUnitImpl(source)}} : TRUE

CONSTANTS Sources,         \* a sequence of source units, each with a static main()
          Compile(_),      \* Compiled
          MaxPrinted       \* bound on the output kept: longer than that of any source

VARIABLES picked,          \* the source, by its number
          unit,            \* <<>>, then its Compile
          phase, machine,  \* the tool's progress and the interpreter
          printed          \* the output so far
vars == <<picked, unit, phase, machine, printed>>

\* The image the interpreter is handed.
Image == [methods |-> unit.low.methods, clinit |-> unit.low.clinit, entry |-> unit.entry, args |-> <<>>]

Init == /\ picked \in DOMAIN Sources
        /\ unit = <<>>
        /\ phase = "lower"
        /\ machine = [frames |-> <<>>, heap |-> Heap0, out |-> Running]
        /\ printed = <<>>

\* b2parse: a unit with diagnostics stops here.
LowerUnit ==
    /\ phase = "lower"
    /\ unit' = Compile(Sources[picked])
    /\ phase' = CASE unit'.low.crash -> "crashed" [] unit'.low.ok -> "verify" [] OTHER -> "refused"
    /\ UNCHANGED <<picked, machine, printed>>

\* run() verifies all methods, then enters main.
Load ==
    /\ phase = "verify"
    /\ IF unit.verified
       THEN phase' = "run" /\ machine' = T0Run(Image)
       ELSE phase' = "rejected" /\ UNCHANGED machine
    /\ UNCHANGED <<picked, unit, printed>>

MonitorsHeld(heap) == MapThenSumSet(LAMBDA o : heap.mon[o], DOMAIN heap.mon)

Current == At(unit.low.methods[Top(machine).m], Top(machine).pc)

\* One instruction; a println extends the output.
Step ==
    /\ phase = "run" /\ machine.out.kind = "run"
    /\ machine' = T0Step(Image, machine)
    /\ LET prints == /\ Current.op = "invokevirtual" /\ Current.imm = Println
                     /\ ~isNull(Top(machine).regs[Current.a])
           v == Top(machine).regs[Current.a + 1]
       IN  printed' = IF prints /\ Len(printed) < MaxPrinted
                      THEN Append(printed, <<v[2], MonitorsHeld(machine.heap)>>) ELSE printed
    /\ UNCHANGED <<picked, unit, phase>>

Finish ==
    /\ phase = "run" /\ machine.out.kind # "run"
    /\ phase' = "done"
    /\ UNCHANGED <<picked, unit, machine, printed>>

Ended == phase \in {"crashed", "refused", "rejected", "done"} /\ UNCHANGED vars

Next == LowerUnit \/ Load \/ Step \/ Finish \/ Ended

Progress == []<>(phase \in {"crashed", "refused", "rejected", "done"}) \/ []<><<TRUE>>_vars
Spec == Init /\ [][Next]_vars /\ Progress

----
(* What the checked properties except: the shapes of README, "Lowering     *)
(* deviations".                                                            *)

\* The statements directly inside one.
Inside(s) ==
    CASE s.k \in {"Block", "Synchronized"} -> s.ss
      [] s.k = "If" -> <<s.t>> \o s.e
      [] s.k \in {"While", "DoWhile", "For", "ForEach", "Labeled"} -> <<s.s>>
      [] s.k = "Switch" -> FlattenSeq([i \in DOMAIN s.cases |-> s.cases[i].ss])
      [] s.k = "Try" -> s.ss \o FlattenSeq([i \in DOMAIN s.catches |-> s.catches[i].ss]) \o FlattenSeq(s.fin)
      [] OTHER -> <<>>

RECURSIVE AllOf(_)
AllOf(ss) == FlattenSeq([i \in DOMAIN ss |-> <<ss[i]>> \o AllOf(Inside(ss[i]))])

Somewhere(ss, Test(_)) == LET all == AllOf(ss) IN \E i \in DOMAIN all : Test(all[i])
Catching(ss) == Somewhere(ss, LAMBDA s : s.k = "Try" /\ s.catches # <<>>)
Returning(ss) == Somewhere(ss, LAMBDA s : s.k = "Return")

Bodies(source) == LET members == ClassOf(source).members
                IN  FlattenSeq([i \in DOMAIN members |->
                        IF members[i].k \in {"Method", "Constructor", "InitializerBlock"} THEN members[i].ss ELSE <<>>])
SmallParam(source) ==
    LET members == ClassOf(source).members
    IN  \E i \in DOMAIN members :
            IsCallable(members[i]) /\ \E t \in ToSet(ParamTypes(members[i])) : t \in {"Bool", "Byte"}

\* A register is needed after a handler, which clears it; a local goes from
\* type Null to Ref or back inside a protected range; an int element goes to a reference variable.
HeldOverHandler(s) ==
    \/ s.k = "ForEach" /\ Catching(<<s.s>>)
    \/ s.k = "Synchronized" /\ Catching(s.ss)
    \/ s.k = "Try" /\ s.fin # <<>> /\ Returning(s.ss) /\ Catching(s.fin[1])
RefSetInTry(s) == s.k = "Try" /\ Somewhere(s.ss, LAMBDA t : t.k = "Expr" /\ t.e.k = "Assignment"
                                                             /\ t.e.e.k \in {"Null", "New"})
MistypedElement(s) == s.k = "ForEach" /\ isRef(jtypeOf(s.type))

Unverifiable(source) ==
    \/ SmallParam(source)
    \/ Somewhere(Bodies(source), LAMBDA s : HeldOverHandler(s) \/ RefSetInTry(s) \/ MistypedElement(s))

Polled(m) == \A pc \in Pcs(m) : \A to \in Targets(At(m, pc)) : to <= pc => At(m, to).op = "safepoint_poll"

----
(* Properties.                                                             *)

\* While main runs, what it printed is a prefix of what the source prints,
\* value for value and with the same monitors held; when it ends it printed
\* all of it and returned or threw the same.  Lowering is the only step in
\* which order of evaluation, jumps through finally blocks, narrowing and
\* short-circuits can go wrong unnoticed ("never silent miscompiles", Lower.h).
\* Programs that reach one of the known deviations are set aside.
RunsAsJava ==
    phase \in {"run", "done"} /\ unit.meaning.dev = {} =>
        /\ IsPrefix(printed, unit.meaning.trace)
        /\ phase = "done" => machine.out = unit.meaning.out /\ printed = unit.meaning.trace

\* Every unit the lowering accepts passes the verifier, except for the shapes
\* named above, and polls at every target of a backward branch: the lowering's
\* slot plan, prologue and handler ranges meet the verifier's typing rules
\* ("every emitted method passes rbc::verify", docs/frontend_contract.md).
LoweredVerifies ==
    /\ phase = "rejected" => Unverifiable(Sources[picked])
    /\ phase = "verify" => \A i \in DOMAIN unit.low.methods : Polled(unit.low.methods[i])

\* A refused unit has a diagnostic, unless the type of a `var` could not be
\* inferred: the planner is the one place that refuses without reporting.
RefusalsDiagnosed ==
    phase = "refused" =>
        unit.low.diag \/ Somewhere(Bodies(Sources[picked]), LAMBDA s : s.k = "Local" /\ s.type = "var")

\* Every unit is refused, rejected or runs to an end: the jumps the lowering
\* emits close no loop that the source does not have.
FrontendTerminates == <>(phase \in {"crashed", "refused", "rejected", "done"})
====
