---------------------------- MODULE InterpProofs ----------------------------
(***************************************************************************)
(* Proofs about the T0 interpreter, for every program, every limit on the  *)
(* stack and every number of calls.                                        *)
(***************************************************************************)
EXTENDS Interp, TLAPS, SequenceTheorems

IsSeq(s) == s \in Seq({s[k] : k \in DOMAIN s})

(* StackDiscipline, with the shape of the stack. *)
StackInv ==
    /\ IsSeq(frames)
    /\ \A k \in DOMAIN frames : IsFrame(frames[k])
    /\ status = "running" => frames # <<>>
    /\ StackDiscipline

(* What a step may do to the stack: change the top frame and not its        *)
(* callerPc; push a callee from an invoke or a trigger; pop to frame k; pop *)
(* every frame; start over with one frame.                                  *)
Local ==
    \E f : /\ IsFrame(f) /\ f.callerPc = top.callerPc
           /\ frames' = [frames EXCEPT ![Len(frames)] = f]
           /\ status' = status

Pushes ==
    \E f : /\ IsFrame(f) /\ f.callerPc = top.pc
           /\ Len(frames) < MaxFrames
           /\ ins.op \in InvokeOps \cup TriggerOps
           /\ frames' = Append(frames, f)
           /\ status' = status

Pops ==
    \E k \in DOMAIN frames : \E f :
        /\ IsFrame(f) /\ f.callerPc = frames[k].callerPc
        /\ frames' = [SubSeq(frames, 1, k) EXCEPT ![k] = f]
        /\ status' = status

Empties == frames' = <<>> /\ status' # "running"

Starts == \E f : IsFrame(f) /\ frames' = <<f>>

----------------------------------------------------------------------------
(* A sequence over some set is a sequence of its own elements. *)
LEMMA OwnElements ==
    ASSUME NEW S, NEW s \in Seq(S)
    PROVE  IsSeq(s)
<1>1. Len(s) \in Nat /\ DOMAIN s = 1 .. Len(s) /\ s \in [1 .. Len(s) -> S]
  BY LenProperties
<1>2. s \in [1 .. Len(s) -> {s[k] : k \in DOMAIN s}]
  BY <1>1
<1>3. QED
  BY <1>1, <1>2, SeqDef DEF IsSeq

(* Each of the five moves keeps the stack disciplined. *)
LEMMA LocalKeeps ==
    ASSUME StackInv, status = "running", Local
    PROVE  StackInv'
<1> DEFINE n == Len(frames)
<1>1. PICK f : /\ IsFrame(f) /\ f.callerPc = top.callerPc
               /\ frames' = [frames EXCEPT ![n] = f] /\ status' = status
  BY DEF Local
<1> DEFINE S == {frames[k] : k \in DOMAIN frames} \cup {f}
<1>2. frames \in Seq(S)
  BY SeqMonotonic DEF StackInv, IsSeq
<1>3. n \in Nat \ {0} /\ DOMAIN frames = 1 .. n
  BY <1>2, EmptySeq, LenProperties DEF StackInv
<1>4. /\ frames' \in Seq(S) /\ Len(frames') = n
      /\ \A j \in 1 .. n : frames'[j] = IF j = n THEN f ELSE frames[j]
  BY <1>1, <1>2, <1>3, ExceptSeq
<1>5. DOMAIN frames' = 1 .. n
  BY <1>4, LenProperties
<1>6. IsSeq(frames')
  BY <1>4, OwnElements
<1>6a. frames' # <<>>
  BY <1>3, <1>4, EmptySeq
<1>7. \A k \in DOMAIN frames' : IsFrame(frames'[k])
  BY <1>1, <1>3, <1>4, <1>5 DEF StackInv
<1>8. StackDiscipline'
  BY <1>1, <1>3, <1>4 DEF StackInv, StackDiscipline, top
<1>9. QED
  BY <1>6, <1>6a, <1>7, <1>8 DEF StackInv

LEMMA PushKeeps ==
    ASSUME StackInv, status = "running", Pushes
    PROVE  StackInv'
<1> DEFINE n == Len(frames)
<1>1. PICK f : /\ IsFrame(f) /\ f.callerPc = top.pc
               /\ n < MaxFrames /\ ins.op \in InvokeOps \cup TriggerOps
               /\ frames' = Append(frames, f) /\ status' = status
  BY DEF Pushes
<1> DEFINE S == {frames[k] : k \in DOMAIN frames} \cup {f}
<1>2. frames \in Seq(S)
  BY SeqMonotonic DEF StackInv, IsSeq
<1>3. n \in Nat \ {0} /\ DOMAIN frames = 1 .. n
  BY <1>2, EmptySeq, LenProperties DEF StackInv
<1>4. /\ frames' \in Seq(S) /\ Len(frames') = n + 1
      /\ \A j \in 1 .. n : frames'[j] = frames[j]
      /\ frames'[n + 1] = f
  BY <1>1, <1>2, AppendProperties
<1>5. DOMAIN frames' = 1 .. n + 1
  BY <1>3, <1>4, LenProperties
<1>6. IsSeq(frames')
  BY <1>4, OwnElements
<1>7. frames' # <<>>
  BY <1>3, <1>4, EmptySeq
<1>8. \A k \in DOMAIN frames' : IsFrame(frames'[k])
  BY <1>1, <1>3, <1>4, <1>5 DEF StackInv
<1>9. StackDiscipline'
  <2>1. n + 1 <= MaxFrames
    BY <1>1, <1>3, BoundAssumption
  <2>2. \A k \in 2 .. n : frames'[k] = frames[k] /\ frames'[k - 1] = frames[k - 1]
    BY <1>3, <1>4
  <2>3. frames'[n + 1] = f /\ frames'[n + 1 - 1] = top
    BY <1>3, <1>4 DEF top
  <2>4. ASSUME NEW k \in 2 .. n + 1
        PROVE  /\ frames'[k].callerPc = frames'[k - 1].pc
               /\ CodeOf(frames'[k - 1].method)[frames'[k - 1].pc].op
                    \in InvokeOps \cup TriggerOps
    <3>1. CASE k \in 2 .. n
      BY <3>1, <2>2 DEF StackInv, StackDiscipline
    <3>2. CASE k = n + 1
      BY <3>2, <2>3, <1>1 DEF ins
    <3>3. QED
      BY <3>1, <3>2, <1>3
  <2>5. QED
    BY <2>1, <2>4, <1>4 DEF StackDiscipline
<1>10. QED
  BY <1>6, <1>7, <1>8, <1>9 DEF StackInv

LEMMA PopKeeps ==
    ASSUME StackInv, status = "running", Pops
    PROVE  StackInv'
<1> DEFINE n == Len(frames)
<1>1. PICK k \in DOMAIN frames : \E f :
        /\ IsFrame(f) /\ f.callerPc = frames[k].callerPc
        /\ frames' = [SubSeq(frames, 1, k) EXCEPT ![k] = f] /\ status' = status
  BY DEF Pops
<1>2. PICK f :
        /\ IsFrame(f) /\ f.callerPc = frames[k].callerPc
        /\ frames' = [SubSeq(frames, 1, k) EXCEPT ![k] = f] /\ status' = status
  BY <1>1
<1> DEFINE S == {frames[j] : j \in DOMAIN frames} \cup {f}
           T == SubSeq(frames, 1, k)
<1>3. frames \in Seq(S)
  BY SeqMonotonic DEF StackInv, IsSeq
<1>4. n \in Nat \ {0} /\ DOMAIN frames = 1 .. n /\ k \in 1 .. n
  BY <1>3, EmptySeq, LenProperties DEF StackInv
<1>5. /\ T \in Seq(S) /\ Len(T) = k
      /\ \A j \in 1 .. k : T[j] = frames[j]
  BY <1>3, <1>4, SubSeqProperties
<1>5a. frames' = [T EXCEPT ![k] = f] /\ f \in S /\ k \in 1 .. Len(T)
  BY <1>2, <1>4, <1>5
<1> HIDE DEF T, S
<1>6. /\ frames' \in Seq(S) /\ Len(frames') = k
      /\ \A j \in 1 .. k : frames'[j] = IF j = k THEN f ELSE T[j]
  BY <1>5, <1>5a, ExceptSeq
<1>7. DOMAIN frames' = 1 .. k
  BY <1>6, LenProperties
<1>8. IsSeq(frames')
  BY <1>6, OwnElements
<1>9. frames' # <<>>
  BY <1>4, <1>6, EmptySeq
<1>10. \A j \in DOMAIN frames' : IsFrame(frames'[j])
  BY <1>2, <1>4, <1>5, <1>6, <1>7 DEF StackInv
<1>11. StackDiscipline'
  BY <1>2, <1>4, <1>5, <1>6, BoundAssumption DEF StackInv, StackDiscipline
<1>12. QED
  BY <1>8, <1>9, <1>10, <1>11 DEF StackInv

LEMMA EmptyKeeps ==
    ASSUME Empties
    PROVE  StackInv'
<1>1. frames' \in Seq({}) /\ Len(frames') = 0
  BY EmptySeq DEF Empties
<1>2. DOMAIN frames' = {}
  BY <1>1, LenProperties
<1>3. IsSeq(frames')
  BY <1>1, OwnElements
<1>4. StackDiscipline'
  BY <1>1, BoundAssumption DEF StackDiscipline
<1>5. QED
  BY <1>2, <1>3, <1>4 DEF StackInv, Empties

LEMMA StartKeeps ==
    ASSUME Starts
    PROVE  StackInv'
<1>1. PICK f : IsFrame(f) /\ frames' = <<f>>
  BY DEF Starts
<1>2. frames' \in Seq({f}) /\ Len(frames') = 1 /\ frames'[1] = f
  BY <1>1
<1>3. DOMAIN frames' = 1 .. 1
  BY <1>2, LenProperties
<1>4. IsSeq(frames')
  BY <1>2, OwnElements
<1>5. \A k \in DOMAIN frames' : IsFrame(frames'[k])
  BY <1>1, <1>2, <1>3
<1>6. StackDiscipline'
  BY <1>2, BoundAssumption DEF StackDiscipline
<1>7. frames' # <<>>
  BY <1>1
<1>8. QED
  BY <1>4, <1>5, <1>6, <1>7 DEF StackInv

----------------------------------------------------------------------------
(* Which move each building block of the instructions makes. *)

Moves == Local \/ Pushes \/ Pops \/ Empties \/ Starts

LEMMA TopIsFrame ==
    ASSUME StackInv, status = "running"
    PROVE  IsFrame(top) /\ Len(frames) \in DOMAIN frames
<1> DEFINE S == {frames[k] : k \in DOMAIN frames}
<1>1. frames \in Seq(S) /\ frames # <<>>
  BY DEF StackInv, IsSeq
<1>2. Len(frames) \in DOMAIN frames
  BY <1>1, EmptySeq, LenProperties
<1>3. QED
  BY <1>2 DEF StackInv, top

LEMMA StepLocal ==
    ASSUME StackInv, status = "running", NEW f, NEW r,
           IsFrame(f), f.callerPc = top.callerPc, Step(f, r)
    PROVE  Local
BY DEF Step, Local

LEMMA JumpLocal ==
    ASSUME StackInv, status = "running", NEW pc, Jump(pc)
    PROVE  Local
<1> DEFINE f == [top EXCEPT !.pc = pc]
<1>1. IsFrame(f) /\ f.callerPc = top.callerPc
  BY TopIsFrame DEF IsFrame
<1>2. QED
  BY <1>1, StepLocal DEF Jump

LEMMA AdvanceLocal ==
    ASSUME StackInv, status = "running", NEW r, Advance(r)
    PROVE  Local
<1> DEFINE f == [top EXCEPT !.pc = @ + 1]
<1>1. IsFrame(f) /\ f.callerPc = top.callerPc
  BY TopIsFrame DEF IsFrame
<1>2. QED
  BY <1>1, StepLocal DEF Advance

LEMMA WriteLocal ==
    ASSUME StackInv, status = "running", NEW v, NEW r, Write(v, r)
    PROVE  Local
<1> DEFINE f == [top EXCEPT !.regs[ins.dst] = v, !.pc = @ + 1]
           regs == [top.regs EXCEPT ![ins.dst] = v]
<1>0. f = [top EXCEPT !.regs = regs, !.pc = top.pc + 1]
  OBVIOUS
<1> HIDE DEF regs, f
<1>1. IsFrame(f) /\ f.callerPc = top.callerPc
  BY <1>0, TopIsFrame DEF IsFrame
<1> USE DEF f
<1>2. QED
  BY <1>1, StepLocal DEF Write

LEMMA ThrowUnwinds ==
    ASSUME StackInv, status = "running", NEW r, NEW exc, throwException(r, exc)
    PROVE  Pops \/ Empties
<1>1. PICK hs : Caught(r, exc, hs) \/ Uncaught(r, exc, hs)
  BY DEF throwException
<1>2. CASE Uncaught(r, exc, hs)
  BY <1>2 DEF Uncaught, Empties
<1>3. CASE Caught(r, exc, hs)
  <2>1. PICK k \in DOMAIN frames : \E h \in hs[k] :
          /\ frames' = [SubSeq(frames, 1, k) EXCEPT ![k] = EnterHandler(@, h, exc)]
          /\ status' = status
    BY <1>3 DEF Caught
  <2>2. PICK h : 
          /\ frames' = [SubSeq(frames, 1, k) EXCEPT ![k] = EnterHandler(@, h, exc)]
          /\ status' = status
    BY <2>1
  <2> DEFINE S == {frames[j] : j \in DOMAIN frames}
             f == EnterHandler(frames[k], h, exc)
  <2>3. frames \in Seq(S) /\ k \in 1 .. Len(frames)
    BY LenProperties DEF StackInv, IsSeq
  <2>4. SubSeq(frames, 1, k)[k] = frames[k]
    BY <2>3, SubSeqProperties
  <2>5. IsFrame(f) /\ f.callerPc = frames[k].callerPc
    <3> DEFINE pc == Methods[frames[k].method].handlers[h].handler
               regs == [i \in DOMAIN frames[k].regs |-> IF i = 0 THEN RefVal(exc) ELSE Bottom]
    <3>1. f = [frames[k] EXCEPT !.pc = pc, !.regs = regs] /\ IsFrame(frames[k])
      BY DEF EnterHandler, StackInv
    <3> HIDE DEF f, pc, regs
    <3>2. QED
      BY <3>1 DEF IsFrame
  <2>6. frames' = [SubSeq(frames, 1, k) EXCEPT ![k] = f]
    BY <2>2, <2>4
  <2>7. QED
    BY <2>2, <2>5, <2>6 DEF Pops
<1>4. QED
  BY <1>1, <1>2, <1>3

LEMMA RaiseUnwinds ==
    ASSUME StackInv, status = "running", NEW r, NEW name, raise(r, name)
    PROVE  Pops \/ Empties
BY ThrowUnwinds DEF raise

(* A pushed frame returns to the instruction that pushed it. *)
LEMMA PushMoves ==
    ASSUME StackInv, status = "running", NEW r, NEW m, NEW locals,
           ins.op \in InvokeOps \cup TriggerOps,
           pushOrOverflow(r, NewFrame(m, locals, top.pc))
    PROVE  Moves
<1> DEFINE f == NewFrame(m, locals, top.pc)
<1>1. IsFrame(f) /\ f.callerPc = top.pc
  BY DEF NewFrame, IsFrame
<1>2. CASE raise(r, "StackOverflowError")
  BY <1>2, RaiseUnwinds DEF Moves
<1>3. CASE Len(frames) < MaxFrames /\ push(r, f)
  BY <1>1, <1>3 DEF push, Pushes, Moves
<1>4. QED
  BY <1>2, <1>3 DEF pushOrOverflow

LEMMA CallMoves ==
    ASSUME StackInv, status = "running", NEW m, ins.op \in InvokeOps, pushCall(m)
    PROVE  Moves
<1> DEFINE args == [k \in 1 .. ins.b |-> reg(ins.a + k - 1)]
<1>1. \/ raise(rt, "NoSuchMethodError")
      \/ pushOrOverflow(rt, NewFrame(m, Locals(m, args), top.pc))
  BY DEF pushCall
<1> HIDE DEF args
<1>2. QED
  BY <1>1, RaiseUnwinds, PushMoves DEF Moves

LEMMA FirstUseMoves ==
    ASSUME StackInv, status = "running", NEW r, NEW cls, ins.op \in TriggerOps,
           FirstUse(r, cls)
    PROVE  Moves
BY PushMoves DEF FirstUse, pushClinit

(* Every instruction makes one of the moves. *)
LEMMA ExecuteMoves ==
    ASSUME StackInv, Execute
    PROVE  Moves /\ status = "running"
<1>0. status = "running"
  BY DEF Execute, At, Nop, Produce, Divide, Ldc, Load, Store, Move, Branch,
     Switch, Getfield, Putfield, GetfieldQuick, PutfieldQuick, Getstatic,
     Putstatic, NewArray, Multianewarray, Arraylength, ArrayLoad, ArrayStore,
     Aastore, New, Checkcast, Instanceof, Monitorenter, Monitorexit,
     Invokevirtual, Invokespecial, Invokestatic, Unsupported, Athrow, Return
<1>1. ASSUME Nop PROVE Moves
  BY <1>0, <1>1, AdvanceLocal DEF Moves, Nop
<1>2. ASSUME Produce PROVE Moves
  BY <1>0, <1>2, WriteLocal DEF Moves, Produce
<1>3. ASSUME Divide PROVE Moves
  BY <1>0, <1>3, WriteLocal, RaiseUnwinds DEF Moves, Divide
<1>4. ASSUME Ldc PROVE Moves
  BY <1>0, <1>4, WriteLocal, RaiseUnwinds, FirstUseMoves DEF Moves, Ldc, At,
     TriggerOps
<1>5. ASSUME Load PROVE Moves
  BY <1>0, <1>5, WriteLocal DEF Moves, Load
<1>6. ASSUME Store PROVE Moves
  <2> DEFINE locals == [top.locals EXCEPT ![ins.imm] = reg(ins.a)]
             f == [top EXCEPT !.locals = locals, !.pc = @ + 1]
  <2>1. Step(f, rt)
    BY <1>6 DEF Store
  <2>0. f = [top EXCEPT !.locals = locals, !.pc = top.pc + 1]
    OBVIOUS
  <2> HIDE DEF locals, f
  <2>2. IsFrame(f) /\ f.callerPc = top.callerPc
    BY <1>0, <2>0, TopIsFrame DEF IsFrame
  <2>3. QED
    BY <1>0, <2>1, <2>2, StepLocal DEF Moves
<1>7. ASSUME Move PROVE Moves
  BY <1>0, <1>7, WriteLocal DEF Moves, Move
<1>8. ASSUME Branch PROVE Moves
  BY <1>0, <1>8, JumpLocal, AdvanceLocal DEF Moves, Branch
<1>9. ASSUME Switch PROVE Moves
  BY <1>0, <1>9, JumpLocal DEF Moves, Switch
<1>10. ASSUME Getfield PROVE Moves
  BY <1>0, <1>10, WriteLocal, RaiseUnwinds DEF Moves, Getfield, GetSlot
<1>11. ASSUME Putfield PROVE Moves
  BY <1>0, <1>11, AdvanceLocal, RaiseUnwinds DEF Moves, Putfield, PutSlot
<1>12. ASSUME GetfieldQuick PROVE Moves
  BY <1>0, <1>12, WriteLocal, RaiseUnwinds DEF Moves, GetfieldQuick
<1>13. ASSUME PutfieldQuick PROVE Moves
  BY <1>0, <1>13, AdvanceLocal, RaiseUnwinds DEF Moves, PutfieldQuick, PutSlot
<1>14. ASSUME Getstatic PROVE Moves
  BY <1>0, <1>14, WriteLocal, FirstUseMoves DEF Moves, Getstatic, At, TriggerOps
<1>15. ASSUME Putstatic PROVE Moves
  BY <1>0, <1>15, AdvanceLocal, RaiseUnwinds, FirstUseMoves DEF Moves,
     Putstatic, At, TriggerOps
<1>16. ASSUME NewArray PROVE Moves
  BY <1>0, <1>16, WriteLocal, RaiseUnwinds DEF Moves, NewArray
<1>17. ASSUME Multianewarray PROVE Moves
  BY <1>0, <1>17, WriteLocal, RaiseUnwinds DEF Moves, Multianewarray
<1>18. ASSUME Arraylength PROVE Moves
  BY <1>0, <1>18, WriteLocal, RaiseUnwinds DEF Moves, Arraylength
<1>19. ASSUME ArrayLoad PROVE Moves
  BY <1>0, <1>19, WriteLocal, RaiseUnwinds DEF Moves, ArrayLoad, ElementTrap
<1>20. ASSUME ArrayStore PROVE Moves
  BY <1>0, <1>20, AdvanceLocal, RaiseUnwinds DEF Moves, ArrayStore, ElementTrap,
     PutElem
<1>21. ASSUME Aastore PROVE Moves
  BY <1>0, <1>21, AdvanceLocal, RaiseUnwinds DEF Moves, Aastore, ElementTrap,
     PutElem
<1>22. ASSUME New PROVE Moves
  BY <1>0, <1>22, WriteLocal, FirstUseMoves DEF Moves, New, At, TriggerOps
<1>23. ASSUME Checkcast PROVE Moves
  BY <1>0, <1>23, WriteLocal, RaiseUnwinds DEF Moves, Checkcast
<1>24. ASSUME Instanceof PROVE Moves
  BY <1>0, <1>24, WriteLocal DEF Moves, Instanceof
<1>25. ASSUME Monitorenter PROVE Moves
  <2> DEFINE o == reg(ins.a).obj
             monitors == <<o>> \o top.monitors
             f == [top EXCEPT !.monitors = monitors, !.pc = @ + 1]
  <2>1. raise(rt, "NullPointerException") \/ Step(f, monitorenter(rt, o))
    BY <1>25 DEF Monitorenter
  <2>0. f = [top EXCEPT !.monitors = monitors, !.pc = top.pc + 1]
    OBVIOUS
  <2> HIDE DEF monitors, f
  <2>2. IsFrame(f) /\ f.callerPc = top.callerPc
    BY <1>0, <2>0, TopIsFrame DEF IsFrame
  <2>3. QED
    BY <1>0, <2>1, <2>2, StepLocal, RaiseUnwinds DEF Moves
<1>26. ASSUME Monitorexit PROVE Moves
  <2> DEFINE o == reg(ins.a).obj
             monitors == Without(top.monitors, o)
             f == [top EXCEPT !.monitors = monitors, !.pc = @ + 1]
  <2>1. (\E name : raise(rt, name)) \/ Step(f, monitorexit(rt, o))
    BY <1>26 DEF Monitorexit
  <2>0. f = [top EXCEPT !.monitors = monitors, !.pc = top.pc + 1]
    OBVIOUS
  <2> HIDE DEF monitors, f
  <2>2. IsFrame(f) /\ f.callerPc = top.callerPc
    BY <1>0, <2>0, TopIsFrame DEF IsFrame
  <2>3. QED
    BY <1>0, <2>1, <2>2, StepLocal, RaiseUnwinds DEF Moves
<1>27. ASSUME Invokevirtual PROVE Moves
  BY <1>0, <1>27, AdvanceLocal, RaiseUnwinds, CallMoves DEF Moves,
     Invokevirtual, At, InvokeOps, VirtualMiss, execBuiltin
<1>28. ASSUME Invokespecial PROVE Moves
  BY <1>0, <1>28, RaiseUnwinds, CallMoves DEF Moves, Invokespecial, At,
     InvokeOps
<1>29. ASSUME Invokestatic PROVE Moves
  BY <1>0, <1>29, RaiseUnwinds, CallMoves, FirstUseMoves DEF Moves,
     Invokestatic, At, InvokeOps, TriggerOps
<1>30. ASSUME Unsupported PROVE Moves
  BY <1>0, <1>30, RaiseUnwinds DEF Moves, Unsupported
<1>31. ASSUME Athrow PROVE Moves
  BY <1>0, <1>31, RaiseUnwinds, ThrowUnwinds DEF Moves, Athrow
<1>32. ASSUME Return PROVE Moves
  <2> DEFINE n == Len(frames)
             v == IF ins.op = "return" THEN Bottom ELSE reg(ins.a)
             S == {frames[j] : j \in DOMAIN frames}
             f == Resumed(frames[n - 1], top.method, v)
  <2>1. frames \in Seq(S) /\ n \in Nat /\ DOMAIN frames = 1 .. n
    BY LenProperties DEF StackInv, IsSeq
  <2>2. CASE n = 1
    BY <1>32, <2>2 DEF Return, Moves, Empties
  <2>3. CASE n > 1
    <3>0. n # 1
      BY <2>1, <2>3
    <3>1. /\ frames' = [SubSeq(frames, 1, n - 1) EXCEPT
                           ![n - 1] = Resumed(@, top.method, v)]
          /\ status' = status
      BY <1>32, <3>0, Zenon DEF Return
    <3>2. n - 1 \in DOMAIN frames /\ SubSeq(frames, 1, n - 1)[n - 1] = frames[n - 1]
      BY <2>1, <2>3, SubSeqProperties
    <3>3. IsFrame(f) /\ f.callerPc = frames[n - 1].callerPc
      <4>1. PICK regs, pc : f = [frames[n - 1] EXCEPT !.regs = regs, !.pc = pc]
        BY DEF Resumed
      <4>2. IsFrame(frames[n - 1])
        BY <3>2 DEF StackInv
      <4> HIDE DEF f
      <4>3. QED
        BY <4>1, <4>2 DEF IsFrame
    <3>4. frames' = [SubSeq(frames, 1, n - 1) EXCEPT ![n - 1] = f]
      BY <3>1, <3>2
    <3>5. QED
      BY <3>1, <3>2, <3>3, <3>4 DEF Moves, Pops
  <2>4. QED
    BY <1>32, <2>1, <2>2, <2>3 DEF Return
<1>33. QED
  BY <1>0, <1>1, <1>2, <1>3, <1>4, <1>5, <1>6, <1>7, <1>8, <1>9, <1>10, <1>11,
     <1>12, <1>13, <1>14, <1>15, <1>16, <1>17, <1>18, <1>19, <1>20, <1>21,
     <1>22, <1>23, <1>24, <1>25, <1>26, <1>27, <1>28, <1>29, <1>30, <1>31, <1>32
     DEF Execute

(* run() and resume() push one frame or none. *)
LEMMA ClientMoves ==
    ASSUME StackInv, Run \/ Refused \/ Resume
    PROVE  Empties \/ Starts
<1>1. ASSUME NEW r, NEW name, Refuse(r, name) PROVE Empties
  BY <1>1 DEF Refuse, Empties
<1>2. ASSUME NEW r, NEW f, IsFrame(f), Start(r, f) PROVE Starts
  BY <1>2 DEF Start, Starts
<1>3. ASSUME Refused PROVE Empties
  BY <1>1, <1>3 DEF Refused
<1>4. ASSUME Run PROVE Empties \/ Starts
  <2>1. PICK m, args :
          LET f == NewFrame(m, Locals(m, args), 0) IN
          \/ \E r : Start(r, f)
          \/ \E r, lock : Locked(r, f, lock)
          \/ \E r, name : Refuse(r, name)
    BY <1>4 DEF Run
  <2> DEFINE f == NewFrame(m, Locals(m, args), 0)
  <2>2. IsFrame(f)
    BY DEF NewFrame, IsFrame
  <2> HIDE DEF f
  <2>3. ASSUME NEW r, NEW lock, Locked(r, f, lock) PROVE Starts
    <3> DEFINE g == [f EXCEPT !.monitors = <<lock>>]
    <3>1. IsFrame(g)
      BY <2>2 DEF IsFrame
    <3>2. QED
      BY <1>2, <2>3, <3>1 DEF Locked
  <2>4. QED
    BY <1>1, <1>2, <2>1, <2>2, <2>3 DEF f
<1>5. ASSUME Resume PROVE Empties \/ Starts
  <2>1. ASSUME NEW f, IsFrame(f) PROVE IsFrame(Padded(f))
    <3>1. PICK regs, locals : Padded(f) = [f EXCEPT !.locals = locals, !.regs = regs]
      BY DEF Padded
    <3>2. QED
      BY <2>1, <3>1 DEF IsFrame
  <2>2. PICK f \in {Padded(g) : g \in ResumeFrames} :
          \/ Start(rt, f)
          \/ frames' = <<>> /\ status' # "running"
          \/ \E h, exc : frames' = <<EnterHandler(f, h, exc)>>
    BY <1>5 DEF Resume
  <2>3. IsFrame(f)
    BY <2>1, ResumeAssumption
  <2>4. ASSUME NEW h, NEW exc PROVE IsFrame(EnterHandler(f, h, exc))
    <3>1. PICK regs, pc : EnterHandler(f, h, exc) = [f EXCEPT !.pc = pc, !.regs = regs]
      BY DEF EnterHandler
    <3>2. QED
      BY <2>3, <3>1 DEF IsFrame
  <2>5. QED
    BY <1>2, <2>2, <2>3, <2>4 DEF Starts, Empties
<1>6. QED
  BY <1>3, <1>4, <1>5

----------------------------------------------------------------------------
(* While a callee runs its caller stays at the instruction that pushed it,  *)
(* and the stack never exceeds the limit: for every program the verifier    *)
(* accepts, every limit and every sequence of calls of run() and resume().  *)
THEOREM StackDisciplined == Spec => []StackDiscipline
<1>1. Init => StackInv
  <2> SUFFICES ASSUME Init PROVE StackInv
    OBVIOUS
  <2>1. frames \in Seq({}) /\ Len(frames) = 0 /\ status # "running"
    BY EmptySeq DEF Init
  <2>2. IsSeq(frames)
    BY <2>1, OwnElements
  <2>2a. DOMAIN frames = {}
    BY <2>1, LenProperties
  <2>3. StackDiscipline
    BY <2>1, BoundAssumption DEF StackDiscipline
  <2>4. QED
    BY <2>1, <2>2, <2>2a, <2>3 DEF StackInv
<1>2. StackInv /\ [Next]_vars => StackInv'
  <2> SUFFICES ASSUME StackInv, [Next]_vars PROVE StackInv'
    OBVIOUS
  <2>1. CASE Execute
    BY <2>1, ExecuteMoves, LocalKeeps, PushKeeps, PopKeeps, EmptyKeeps, StartKeeps
       DEF Moves
  <2>2. CASE Run \/ Refused \/ Resume
    BY <2>2, ClientMoves, EmptyKeeps, StartKeeps
  <2>3. CASE UNCHANGED vars
    BY <2>3 DEF vars, StackInv, StackDiscipline
  <2>4. QED
    BY <2>1, <2>2, <2>3 DEF Next
<1>3. StackInv => StackDiscipline
  BY DEF StackInv
<1>4. QED
  BY <1>1, <1>2, <1>3, PTL DEF Spec

=============================================================================
