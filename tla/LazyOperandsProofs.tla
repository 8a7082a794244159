------------------------- MODULE LazyOperandsProofs -------------------------
(***************************************************************************)
(* Straight-line register code is correct for every number of locals,      *)
(* every set of values and every limit: the simulated stack stays          *)
(* consistent, spill slots are stable, and the operands and locals behave  *)
(* as WebAssembly's.                                                       *)
(***************************************************************************)
EXTENDS LazyOperands, SimulatedStackProofs

(* The inductive invariant.  Each of RefCounts, OriginsExact,               *)
(* SpillSlotsPartitioned and RegistersContiguous needs the others: a count  *)
(* tells which borrows are live, and only live borrows own a slot.          *)
IInv == TypeOK /\ StackInv(sim)

(* slot_value as a function of the regions it reads.                        *)
Read(consts, regs, sp, lcls, b) ==
  CASE b.region = "Const"    -> consts[b.index + 1]
    [] b.region = "Register" -> regs[b.index]
    [] b.region = "Spill"    -> sp[b.index]
    [] b.region = "Slot"     -> lcls[b.index]

(* Reading through a location of each kind.                                 *)
LEMMA ReadForm ==
  ASSUME NEW c, NEW r, NEW sp, NEW l, NEW i
  PROVE  /\ Read(c, r, sp, l, Loc("Const", i)) = c[i + 1]
         /\ Read(c, r, sp, l, Loc("Register", i)) = r[i]
         /\ Read(c, r, sp, l, Loc("Spill", i)) = sp[i]
         /\ Read(c, r, sp, l, Loc("Slot", i)) = l[i]
BY DEF Read, Loc

(* Every slot of a consistent stack reads a value: registers, spill slots,  *)
(* locals and constants named by the lowering exist in the frame.           *)
LEMMA ReadType ==
  ASSUME NEW s, StackInv(s), NEW i \in Positions(s),
         NEW r \in [RegisterIndex -> Val], NEW sp \in [SpillIndex -> Val],
         NEW l \in [Locals -> Val]
  PROVE  Read(s.consts, r, sp, l, location(s, s.stack[i])) \in Val
<1>1. s.consts \in Seq(Val) /\ s.allocation_len \in Nat /\ s.curr_register_index \in Nat
  BY SimStackFields DEF StackInv
<1>2. s.allocation_len <= MAX_SPILLS /\ s.curr_register_index <= MAX_REGISTER_SLOTS
  BY <1>1, LimitsAssumption, SimStackFields DEF StackInv, SpillsOK, RegistersOK
<1>3. ASSUME NEW c \in 0 .. Len(s.consts) - 1,
             location(s, s.stack[i]) = Loc("Const", c)
      PROVE  Read(s.consts, r, sp, l, location(s, s.stack[i])) \in Val
  <2>1. s.consts[c + 1] \in Val
    BY <1>1
  <2> QED BY <1>3, <2>1, ReadForm
<1>4. ASSUME NEW k \in LocalsCount .. s.curr_register_index - 1,
             location(s, s.stack[i]) = Loc("Register", k)
      PROVE  Read(s.consts, r, sp, l, location(s, s.stack[i])) \in Val
  <2>1. k \in RegisterIndex
    BY <1>1, <1>2, LimitsAssumption DEF RegisterIndex
  <2>2. r[k] \in Val
    BY <2>1
  <2> QED BY <1>4, <2>2, ReadForm
<1>5. ASSUME NEW k \in 0 .. s.allocation_len - 1,
             location(s, s.stack[i]) = Loc("Spill", k)
      PROVE  Read(s.consts, r, sp, l, location(s, s.stack[i])) \in Val
  <2>1. k \in SpillIndex
    BY <1>1, <1>2, LimitsAssumption DEF SpillIndex
  <2>2. sp[k] \in Val
    BY <2>1
  <2> QED BY <1>5, <2>2, ReadForm
<1>6. ASSUME NEW k \in Locals,
             location(s, s.stack[i]) = Loc("Slot", k)
      PROVE  Read(s.consts, r, sp, l, location(s, s.stack[i])) \in Val
  <2>1. l[k] \in Val
    OBVIOUS
  <2> QED BY <1>6, <2>1, ReadForm
<1> QED BY <1>3, <1>4, <1>5, <1>6, LocationCases

(* slot_value in this state.                                                *)
LEMMA SlotValueRead ==
  ASSUME NEW sp, NEW b
  PROVE  slot_value(sp, b) = Read(sim.consts, registers, sp, locals, b)
BY DEF slot_value, Read

-----------------------------------------------------------------------------
(* The instruction that writes a spill slot keeps the region well typed and *)
(* leaves every other slot alone.                                           *)
LEMMA LocalSpillShape ==
  ASSUME IInv, NEW x \in Locals, LocalSpill(x), ~set_lazy(sim, x).failed
  PROVE  /\ spills' \in [SpillIndex -> Val]
         /\ borrowed(sim, x) =>
              /\ reserved(sim) \in SpillIndex
              /\ spills' = [spills EXCEPT ![reserved(sim)] = locals[x]]
         /\ ~borrowed(sim, x) => spills' = spills
<1>1. borrowed(sim, x) => reserved(sim) \in SpillIndex
  BY SetLazyFrame, LimitsAssumption DEF IInv, SpillIndex
<1>2. locals[x] \in Val /\ spills \in [SpillIndex -> Val]
  BY DEF IInv, TypeOK
<1> QED BY <1>1, <1>2 DEF LocalSpill

(* The operand LocalSet and LocalTee read is a value.                       *)
LEMMA SpilledArgType ==
  ASSUME IInv, NEW x \in Locals, LocalSpill(x), ~set_lazy(sim, x).failed,
         Height(sim) > 0
  PROVE  /\ slot_value(spills', location(set_lazy(sim, x), Top(set_lazy(sim, x)))) \in Val
         /\ set_lazy(sim, x).stack = sim.stack
<1> DEFINE s == set_lazy(sim, x)
<1>1. StackInv(s)
  BY SetLazyInv DEF IInv
<1>2. s.stack = sim.stack /\ s.consts = sim.consts
  BY SetLazyFrame DEF IInv
<1> HIDE DEF s
<1>3. Len(s.stack) \in Positions(s)
  BY <1>1, <1>2, SimStackFields DEF StackInv, Height, Positions
<1>4. spills' \in [SpillIndex -> Val]
  BY LocalSpillShape
<1>5. registers \in [RegisterIndex -> Val] /\ locals \in [Locals -> Val]
  BY DEF IInv, TypeOK
<1>6. Read(s.consts, registers, spills', locals, location(s, s.stack[Len(s.stack)])) \in Val
  BY <1>1, <1>3, <1>4, <1>5, ReadType
<1> QED BY <1>2, <1>6, SlotValueRead DEF Top, s

(* The initial state is consistent.                                         *)
LEMMA InitInv == Init => IInv
<1> SUFFICES ASSUME Init PROVE IInv
  OBVIOUS
<1>1. StackInv(sim) /\ sim \in SimStack
  BY NewStackInv DEF Init, StackInv
<1>2. /\ locals \in [Locals -> Val]
      /\ registers \in [RegisterIndex -> Val]
      /\ spills \in [SpillIndex -> Val]
      /\ arg \in Val
  BY BoundsAssumption DEF Init
<1> QED BY <1>1, <1>2 DEF IInv, TypeOK

(* Every step keeps the simulated stack consistent and the frame well       *)
(* typed.                                                                   *)
LEMMA StepInv == IInv /\ [Next]_vars => IInv'
<1> SUFFICES ASSUME IInv, [Next]_vars PROVE IInv'
  OBVIOUS
<1> USE DEF IInv
<1>0. TypeOK /\ StackInv(sim)
  OBVIOUS
<1>1. ASSUME NEW v \in Val, ConstOp(v) PROVE IInv'
  <2>1. StackInv(sim')
    BY <1>0, <1>1, PushConstInv DEF ConstOp
  <2> QED BY <2>1, <1>0, <1>1 DEF ConstOp, TypeOK, StackInv
<1>2. ASSUME NEW v \in Val, Push(v) PROVE IInv'
  <2>1. StackInv(sim')
    BY <1>0, <1>2, PushRegisterInv DEF Push
  <2>2. registers' \in [RegisterIndex -> Val]
    BY <1>0, <1>2 DEF Push, TypeOK
  <2> QED BY <2>1, <2>2, <1>0, <1>2 DEF Push, TypeOK, StackInv
<1>3. CASE Pop
  <2>1. Len(sim.stack) > 0 /\ StackInv(sim')
    BY <1>0, <1>3, PopInv DEF Pop, Height
  <2>2. Len(sim.stack) \in Positions(sim)
    BY <2>1, <1>0, SimStackFields DEF StackInv, Positions
  <2>3. arg' \in Val
    BY <2>2, <1>0, <1>3, ReadType, SlotValueRead DEF Pop, Top, TypeOK
  <2> QED BY <2>1, <2>3, <1>0, <1>3 DEF Pop, TypeOK, StackInv
<1>4. ASSUME NEW x \in Locals, LocalGet(x) PROVE IInv'
  <2>1. StackInv(sim')
    BY <1>0, <1>4, PushLocalInv DEF LocalGet
  <2> QED BY <2>1, <1>0, <1>4 DEF LocalGet, TypeOK, StackInv
<1>5. ASSUME NEW x \in Locals, LocalSet(x) \/ LocalTee(x) PROVE IInv'
  <2> DEFINE s == set_lazy(sim, x)
  <2>1. /\ LocalSpill(x) /\ ~s.failed /\ Height(sim) > 0
        /\ arg' = slot_value(spills', location(s, Top(s)))
        /\ locals' = [locals EXCEPT ![x] = arg']
        /\ registers' = registers
        /\ sim' = s \/ sim' = pop(s)
    BY <1>5 DEF LocalSet, LocalTee
  <2>2. spills' \in [SpillIndex -> Val]
    BY <2>1, LocalSpillShape
  <2>3. arg' \in Val /\ s.stack = sim.stack
    BY <2>1, SpilledArgType
  <2>4. StackInv(s)
    BY <1>0, <2>1, SetLazyInv
  <2> HIDE DEF s
  <2>5. StackInv(sim')
    BY <2>1, <2>3, <2>4, PopInv DEF Height
  <2>6. locals' \in [Locals -> Val] /\ registers' \in [RegisterIndex -> Val]
    BY <1>0, <2>1, <2>3 DEF TypeOK
  <2> QED BY <2>2, <2>3, <2>5, <2>6 DEF TypeOK, StackInv
<1>6. ASSUME NEW x \in Locals, SpillLive(x) PROVE IInv'
  <2>1. spills' \in [SpillIndex -> Val]
    BY <1>6, LocalSpillShape DEF SpillLive
  <2>2. StackInv(sim')
    BY <1>0, <1>6, SetLazyInv DEF SpillLive
  <2> QED BY <2>1, <2>2, <1>0, <1>6 DEF SpillLive, TypeOK, StackInv
<1>7. CASE RegisterFrameTooLarge
  <2>1. StackInv(sim')
    BY <1>0, <1>7, FailInv DEF RegisterFrameTooLarge
  <2> QED BY <2>1, <1>0, <1>7 DEF RegisterFrameTooLarge, TypeOK, StackInv
<1>8. CASE UNCHANGED vars
  BY <1>0, <1>8 DEF vars, TypeOK, StackInv
<1> QED BY <1>1, <1>2, <1>3, <1>4, <1>5, <1>6, <1>7, <1>8 DEF Next

(* Type correctness and all four invariants of the simulated stack, for     *)
(* every reachable state.                                                   *)
THEOREM Invariance == Spec => []IInv
BY InitInv, StepInv, PTL DEF Spec

(* The frame stays well typed: no emitted instruction reads outside a       *)
(* region.                                                                  *)
THEOREM TypeCorrect == Spec => []TypeOK
<1>1. IInv => TypeOK
  BY DEF IInv
<1> QED BY <1>1, Invariance, PTL

(* Reference counts are exact.                                              *)
THEOREM RefCountsExact == Spec => []RefCounts
<1>1. IInv => RefCounts
  BY DEF IInv, StackInv, RefCounts
<1> QED BY <1>1, Invariance, PTL

(* The origin table lists exactly the unspilled live borrows.               *)
THEOREM OriginsAreExact == Spec => []OriginsExact
<1>1. IInv => OriginsExact
  BY DEF IInv, StackInv, OriginsExact
<1> QED BY <1>1, Invariance, PTL

(* Spill slots are neither shared, nor freed twice, nor leaked.             *)
THEOREM SpillSlotsArePartitioned == Spec => []SpillSlotsPartitioned
<1>1. IInv => SpillSlotsPartitioned
  BY DEF IInv, StackInv, SpillSlotsPartitioned
<1> QED BY <1>1, Invariance, PTL

(* The operand registers in use are contiguous and in stack order.          *)
THEOREM RegistersAreContiguous == Spec => []RegistersContiguous
<1>1. IInv => RegistersContiguous
  BY DEF IInv, StackInv, RegistersContiguous
<1> QED BY <1>1, Invariance, PTL

-----------------------------------------------------------------------------
(* set_lazy moves only the borrow of x, which is not spilled yet; the slot  *)
(* it takes belongs to no spilled borrow.                                   *)
LEMMA SetLazyKeepsSpilled ==
  ASSUME NEW s, StackInv(s), NEW x \in Locals, NEW p, p = set_lazy(s, x), ~p.failed
  PROVE  /\ Entries(p) = Entries(s)
         /\ \A f \in Entries(s) : SpilledLive(s, f) =>
              /\ p.entries[f].spilled
              /\ p.entries[f].index = s.entries[f].index
              /\ borrowed(s, x) => s.entries[f].index # reserved(s)
<1>1. CASE borrowed(s, x)
  <2> DEFINE e == s.origin[x]
             k == reserved(s)
  <2>1. e = s.origin[x] /\ k = reserved(s)
    OBVIOUS
  <2> HIDE DEF e, k
  <2>2. /\ e \in Entries(s) /\ ~s.entries[e].spilled
        /\ Len(p.entries) = Len(s.entries)
        /\ \A f \in Entries(s) :
             /\ f # e => p.entries[f].spilled = s.entries[f].spilled
             /\ f # e => p.entries[f].index = s.entries[f].index
        /\ \A f \in Entries(s) : SpilledLive(s, f) => s.entries[f].index # k
    BY <1>1, <2>1, SetLazyShape
  <2>3. \A f \in Entries(s) : SpilledLive(s, f) => f # e
    BY <2>2 DEF SpilledLive
  <2>4. ASSUME NEW f \in Entries(s), SpilledLive(s, f)
        PROVE  /\ p.entries[f].spilled
               /\ p.entries[f].index = s.entries[f].index
               /\ s.entries[f].index # reserved(s)
    <3>1. f # e /\ s.entries[f].spilled
      BY <2>3, <2>4 DEF SpilledLive
    <3> QED BY <3>1, <2>1, <2>2, <2>4
  <2>5. Entries(p) = Entries(s)
    BY <2>2 DEF Entries
  <2> QED BY <2>4, <2>5
<1>2. CASE ~borrowed(s, x)
  <2>1. p = s
    BY <1>2 DEF set_lazy
  <2> QED BY <1>2, <2>1 DEF SpilledLive
<1> QED BY <1>1, <1>2

(* What SpillsAreStable says of one step and one borrow.                    *)
SlotKept(e) ==
  /\ sim'.entries[e].spilled
  /\ sim'.entries[e].index = sim.entries[e].index
  /\ spills'[sim.entries[e].index] = spills[sim.entries[e].index]

(* A step that redirects the borrow of x writes a slot nobody reads.        *)
LEMMA SpillStepKept ==
  ASSUME IInv, NEW x \in Locals, LocalSpill(x), ~set_lazy(sim, x).failed,
         NEW e \in Entries(sim), SpilledLive(sim, e)
  PROVE  /\ e \in Entries(set_lazy(sim, x))
         /\ set_lazy(sim, x).entries[e].spilled
         /\ set_lazy(sim, x).entries[e].index = sim.entries[e].index
         /\ spills'[sim.entries[e].index] = spills[sim.entries[e].index]
<1>1. StackInv(sim)
  BY DEF IInv
<1>2. /\ e \in Entries(set_lazy(sim, x))
      /\ set_lazy(sim, x).entries[e].spilled
      /\ set_lazy(sim, x).entries[e].index = sim.entries[e].index
      /\ borrowed(sim, x) => sim.entries[e].index # reserved(sim)
  BY <1>1, SetLazyKeepsSpilled
<1>3. spills'[sim.entries[e].index] = spills[sim.entries[e].index]
  <2>1. sim.entries[e].index \in SpillIndex
    <3>1. sim.entries \in Seq(LazyEntry) /\ sim.allocation_len \in Nat
      BY <1>1, SimStackFields DEF StackInv
    <3>4. sim.entries[e] \in LazyEntry
      BY <3>1 DEF Entries
    <3>2. sim.entries[e].index \in Nat
      BY <3>4 DEF LazyEntry
    <3>3. sim.entries[e].index < sim.allocation_len /\ sim.allocation_len <= MAX_SPILLS
      BY <1>1 DEF StackInv, SpillsOK
    <3> QED BY <3>1, <3>2, <3>3, LimitsAssumption DEF SpillIndex
  <2>2. spills \in [SpillIndex -> Val]
    BY DEF IInv, TypeOK
  <2> QED BY <1>2, <2>1, <2>2, LocalSpillShape
<1> QED BY <1>2, <1>3

(* Every step of the specification keeps the spilled borrows where they     *)
(* are, and their slots unwritten.                                          *)
LEMMA StepStable ==
  ASSUME IInv, [Next]_vars, NEW e \in Entries(sim), SpilledLive(sim, e)
  PROVE  SlotKept(e)
<1>0. StackInv(sim) /\ sim.entries[e].spilled
  BY DEF IInv, SpilledLive
<1>1. ASSUME NEW v \in Val, ConstOp(v) PROVE SlotKept(e)
  <2>1. sim'.entries = sim.entries /\ spills' = spills
    BY <1>0, <1>1, PushConstFrame DEF ConstOp
  <2> QED BY <1>0, <2>1 DEF SlotKept
<1>2. ASSUME NEW v \in Val, Push(v) PROVE SlotKept(e)
  <2>1. sim'.entries = sim.entries /\ spills' = spills
    BY <1>0, <1>2, PushRegisterFrame DEF Push
  <2> QED BY <1>0, <2>1 DEF SlotKept
<1>3. CASE Pop
  <2>1. /\ sim'.entries[e].spilled = sim.entries[e].spilled
        /\ sim'.entries[e].index = sim.entries[e].index
        /\ spills' = spills
    <3>1. sim' = pop(sim) /\ Len(sim.stack) > 0 /\ spills' = spills
      BY <1>3 DEF Pop, Height
    <3> QED BY ZenonT(60), <1>0, <3>1, PopFrame
  <2> QED BY <1>0, <2>1 DEF SlotKept
<1>4. ASSUME NEW x \in Locals, LocalGet(x) PROVE SlotKept(e)
  <2>1. /\ sim'.entries[e].spilled = sim.entries[e].spilled
        /\ sim'.entries[e].index = sim.entries[e].index
        /\ spills' = spills
    <3>1. sim' = push_local(sim, x) /\ spills' = spills
      BY <1>4 DEF LocalGet
    <3>2. \A f \in Entries(sim) :
            /\ push_local(sim, x).entries[f].spilled = sim.entries[f].spilled
            /\ push_local(sim, x).entries[f].index = sim.entries[f].index
      BY <1>0, PushLocalFrame
    <3> QED BY <3>1, <3>2
  <2> QED BY <1>0, <2>1 DEF SlotKept
<1>5. ASSUME NEW x \in Locals, LocalSet(x) PROVE SlotKept(e)
  <2> DEFINE s == set_lazy(sim, x)
  <2>1. LocalSpill(x) /\ ~s.failed /\ sim' = pop(s) /\ Len(sim.stack) > 0
    BY <1>5 DEF LocalSet, Height
  <2>2. /\ e \in Entries(s) /\ s.entries[e].spilled
        /\ s.entries[e].index = sim.entries[e].index
        /\ spills'[sim.entries[e].index] = spills[sim.entries[e].index]
    BY <2>1, SpillStepKept
  <2>3. StackInv(s) /\ s.stack = sim.stack
    BY <1>0, <2>1, SetLazyInv, SetLazyFrame
  <2> HIDE DEF s
  <2>4. /\ sim'.entries[e].spilled = s.entries[e].spilled
        /\ sim'.entries[e].index = s.entries[e].index
    BY ZenonT(60), <2>1, <2>2, <2>3, PopFrame
  <2> QED BY <2>2, <2>4 DEF SlotKept
<1>6. ASSUME NEW x \in Locals, LocalTee(x) \/ SpillLive(x) PROVE SlotKept(e)
  <2>1. LocalSpill(x) /\ ~set_lazy(sim, x).failed /\ sim' = set_lazy(sim, x)
    BY <1>6 DEF LocalTee, SpillLive
  <2> QED BY <2>1, SpillStepKept DEF SlotKept
<1>7. CASE RegisterFrameTooLarge
  <2>1. sim'.entries = sim.entries /\ spills' = spills
    BY <1>0, <1>7, FailInv DEF RegisterFrameTooLarge
  <2> QED BY <1>0, <2>1 DEF SlotKept
<1>8. CASE UNCHANGED vars
  BY <1>0, <1>8 DEF vars, SlotKept
<1> QED BY <1>1, <1>2, <1>3, <1>4, <1>5, <1>6, <1>7, <1>8 DEF Next

(* Spill slots are stable: no step rewrites the slot of a live spilled      *)
(* borrow or moves the borrow elsewhere.                                    *)
THEOREM SpillsStable == Spec => SpillsAreStable
<1>1. IInv /\ [Next]_vars =>
        [\A e \in Entries(sim) : SpilledLive(sim, e) /\ Live(sim', e) =>
           /\ sim'.entries[e].spilled
           /\ sim'.entries[e].index = sim.entries[e].index
           /\ spills'[sim.entries[e].index] = spills[sim.entries[e].index]]_vars
  BY StepStable DEF SlotKept
<1> QED BY <1>1, Invariance, PTL DEF Spec, SpillsAreStable

-----------------------------------------------------------------------------
(* A stack of n + 1 values that agrees with o below the top is o with the   *)
(* top appended.                                                            *)
LEMMA AppendShape ==
  ASSUME NEW n \in Nat, NEW o \in Seq(Val), Len(o) = n, NEW q \in Seq(Val),
         Len(q) = n + 1, \A i \in 1 .. n : q[i] = o[i]
  PROVE  q = Append(o, q[n + 1])
<1>1. Append(o, q[n + 1]) \in Seq(Val) /\ Len(Append(o, q[n + 1])) = n + 1
  OBVIOUS
<1>2. ASSUME NEW i \in 1 .. n + 1 PROVE q[i] = Append(o, q[n + 1])[i]
  <2>1. CASE i = n + 1
    BY <2>1
  <2>2. CASE i # n + 1
    <3>1. i \in 1 .. n
      BY <2>2
    <3> QED BY <3>1
  <2> QED BY <2>1, <2>2
<1> QED BY <1>1, <1>2

(* A stack that agrees with o and is one shorter is o without its top.      *)
LEMMA FrontShape ==
  ASSUME NEW n \in Nat, n > 0, NEW o \in Seq(Val), Len(o) = n, NEW q \in Seq(Val),
         Len(q) = n - 1, \A i \in 1 .. n - 1 : q[i] = o[i]
  PROVE  q = SubSeq(o, 1, n - 1)
<1>1. SubSeq(o, 1, n - 1) \in Seq(Val) /\ Len(SubSeq(o, 1, n - 1)) = n - 1
  OBVIOUS
<1>2. ASSUME NEW i \in 1 .. n - 1 PROVE q[i] = SubSeq(o, 1, n - 1)[i]
  OBVIOUS
<1> QED BY <1>1, <1>2

(* The operands of a consistent state are a sequence of values.             *)
LEMMA OperandsShape ==
  ASSUME IInv
  PROVE  /\ Operands \in Seq(Val)
         /\ Len(Operands) = Len(sim.stack)
         /\ \A i \in 1 .. Len(sim.stack) : Operands[i] =
              Read(sim.consts, registers, spills, locals, location(sim, sim.stack[i]))
<1>1. StackInv(sim) /\ TypeOK /\ Len(sim.stack) \in Nat
  BY SimStackFields DEF IInv, StackInv
<1>2. ASSUME NEW i \in 1 .. Len(sim.stack)
      PROVE  slot_value(spills, location(sim, sim.stack[i])) \in Val
  BY <1>1, ReadType, SlotValueRead DEF TypeOK, Positions
<1>3. Operands \in [1 .. Len(sim.stack) -> Val]
  BY <1>2 DEF Operands
<1>4. Operands \in Seq(Val) /\ Len(Operands) = Len(sim.stack)
  BY <1>1, <1>3
<1>5. ASSUME NEW i \in 1 .. Len(sim.stack)
      PROVE  Operands[i] =
              Read(sim.consts, registers, spills, locals, location(sim, sim.stack[i]))
  BY SlotValueRead DEF Operands
<1> QED BY <1>4, <1>5

(* The same after a step.                                                   *)
LEMMA OperandsShapePrimed ==
  ASSUME IInv'
  PROVE  /\ Operands' \in Seq(Val)
         /\ Len(Operands') = Len(sim'.stack)
         /\ \A i \in 1 .. Len(sim'.stack) : Operands'[i] =
              Read(sim'.consts, registers', spills', locals', location(sim', sim'.stack[i]))
<1>1. (IInv => /\ Operands \in Seq(Val)
               /\ Len(Operands) = Len(sim.stack)
               /\ \A i \in 1 .. Len(sim.stack) : Operands[i] =
                    Read(sim.consts, registers, spills, locals, location(sim, sim.stack[i])))'
  BY OperandsShape, PTL
<1> QED BY <1>1

(* Two frames hold the same in the one cell that location b names.          *)
Agree(b, c1, r1, sp1, l1, c2, r2, sp2, l2) ==
  /\ \A c \in 1 .. Len(c1) : c2[c] = c1[c]
  /\ \A r \in RegisterIndex : b = Loc("Register", r) => r2[r] = r1[r]
  /\ \A k \in SpillIndex : b = Loc("Spill", k) => sp2[k] = sp1[k]
  /\ \A y \in Locals : b = Loc("Slot", y) => l2[y] = l1[y]

(* A read depends only on the one cell its location names.                  *)
LEMMA ReadAgree ==
  ASSUME NEW s, StackInv(s), NEW i \in Positions(s),
         NEW b, b = location(s, s.stack[i]),
         NEW c2, NEW r1, NEW r2, NEW sp1, NEW sp2, NEW l1, NEW l2,
         Agree(b, s.consts, r1, sp1, l1, c2, r2, sp2, l2)
  PROVE  Read(c2, r2, sp2, l2, b) = Read(s.consts, r1, sp1, l1, b)
<1> DEFINE Goal == Read(c2, r2, sp2, l2, b) = Read(s.consts, r1, sp1, l1, b)
<1>1. s.consts \in Seq(Val) /\ s.allocation_len \in Nat /\ s.curr_register_index \in Nat
  BY SimStackFields DEF StackInv
<1>2. s.allocation_len <= MAX_SPILLS /\ s.curr_register_index <= MAX_REGISTER_SLOTS
  BY <1>1, LimitsAssumption, SimStackFields DEF StackInv, SpillsOK, RegistersOK
<1>3. ASSUME NEW c \in 0 .. Len(s.consts) - 1, b = Loc("Const", c) PROVE Goal
  <2>1. c2[c + 1] = s.consts[c + 1]
    BY <1>1 DEF Agree
  <2> QED BY <1>3, <2>1, ReadForm
<1>4. ASSUME NEW k \in LocalsCount .. s.curr_register_index - 1, b = Loc("Register", k)
      PROVE  Goal
  <2>1. k \in RegisterIndex
    BY <1>1, <1>2, LimitsAssumption DEF RegisterIndex
  <2>2. r2[k] = r1[k]
    BY <1>4, <2>1 DEF Agree
  <2> QED BY <1>4, <2>2, ReadForm
<1>5. ASSUME NEW k \in 0 .. s.allocation_len - 1, b = Loc("Spill", k) PROVE Goal
  <2>1. k \in SpillIndex
    BY <1>1, <1>2, LimitsAssumption DEF SpillIndex
  <2>2. sp2[k] = sp1[k]
    BY <1>5, <2>1 DEF Agree
  <2> QED BY <1>5, <2>2, ReadForm
<1>6. ASSUME NEW k \in Locals, b = Loc("Slot", k) PROVE Goal
  <2>1. l2[k] = l1[k]
    BY <1>6 DEF Agree
  <2> QED BY <1>6, <2>1, ReadForm
<1> QED BY <1>3, <1>4, <1>5, <1>6, LocationCases

(* Redirecting the borrow of x and then changing x keeps what every operand *)
(* reads: this is the reason for spilling.                                  *)
LEMMA SpillKeepsOperands ==
  ASSUME IInv, NEW x \in Locals, LocalSpill(x), NEW s, s = set_lazy(sim, x), ~s.failed,
         NEW l2, \A y \in Locals : y # x => l2[y] = locals[y],
         NEW i \in Positions(sim)
  PROVE  Read(s.consts, registers, spills', l2, location(s, s.stack[i])) =
         Read(sim.consts, registers, spills, locals, location(sim, sim.stack[i]))
<1> DEFINE b == location(sim, sim.stack[i])
<1>1. StackInv(sim) /\ spills \in [SpillIndex -> Val]
  BY DEF IInv, TypeOK
<1>2. /\ s.stack = sim.stack
      /\ s.consts = sim.consts
      /\ IF b = Loc("Slot", x)
         THEN borrowed(sim, x) /\ location(s, s.stack[i]) = Loc("Spill", reserved(sim))
         ELSE /\ location(s, s.stack[i]) = b
              /\ borrowed(sim, x) => b # Loc("Spill", reserved(sim))
  BY <1>1, SetLazyFrame
<1>3. /\ borrowed(sim, x) =>
           /\ reserved(sim) \in SpillIndex
           /\ spills' = [spills EXCEPT ![reserved(sim)] = locals[x]]
      /\ ~borrowed(sim, x) => spills' = spills
  BY LocalSpillShape
<1>4. b = location(sim, sim.stack[i])
  OBVIOUS
<1> HIDE DEF b
<1>5. CASE b = Loc("Slot", x)
  <2>1. spills'[reserved(sim)] = locals[x]
    BY <1>1, <1>2, <1>3, <1>5
  <2>2. Read(sim.consts, registers, spills, locals, b) = locals[x]
    BY <1>5, ReadForm
  <2>3. Read(s.consts, registers, spills', l2, location(s, s.stack[i])) =
          spills'[reserved(sim)]
    BY <1>2, <1>5, ReadForm
  <2> QED BY <2>1, <2>2, <2>3, <1>4
<1>6. CASE b # Loc("Slot", x)
  <2>1. \A k \in SpillIndex : b = Loc("Spill", k) => spills'[k] = spills[k]
    BY <1>1, <1>2, <1>3, <1>6
  <2>2. \A y \in Locals : b = Loc("Slot", y) => l2[y] = locals[y]
    BY <1>6
  <2>3. Read(sim.consts, registers, spills', l2, b) =
        Read(sim.consts, registers, spills, locals, b)
    <3>1. Agree(b, sim.consts, registers, spills, locals, sim.consts, registers, spills', l2)
      BY <2>1, <2>2 DEF Agree
    <3> QED BY <3>1, <1>1, <1>4, ReadAgree
  <2> QED BY <1>2, <1>4, <1>6, <2>3
<1> QED BY <1>5, <1>6

-----------------------------------------------------------------------------
(* A push that keeps every operand below the new top is a WebAssembly push  *)
(* of what the new top reads.                                               *)
LEMMA PushOperands ==
  ASSUME IInv, IInv', Len(sim'.stack) = Len(sim.stack) + 1,
         \A i \in Positions(sim) :
           Read(sim'.consts, registers', spills', locals', location(sim', sim'.stack[i])) =
           Read(sim.consts, registers, spills, locals, location(sim, sim.stack[i]))
  PROVE  Operands' = Append(Operands,
           Read(sim'.consts, registers', spills', locals',
                location(sim', sim'.stack[Len(sim.stack) + 1])))
<1> DEFINE o == Operands
           q == Operands'
           n == Len(sim.stack)
           v == Read(sim'.consts, registers', spills', locals',
                     location(sim', sim'.stack[Len(sim.stack) + 1]))
<1>1. n \in Nat /\ o \in Seq(Val) /\ Len(o) = n
  BY OperandsShape, SimStackFields DEF IInv, StackInv
<1>2. q \in Seq(Val) /\ Len(q) = n + 1
  BY OperandsShapePrimed
<1>3. ASSUME NEW i \in 1 .. n PROVE q[i] = o[i]
  <2>1. i \in 1 .. Len(sim.stack) /\ i \in 1 .. Len(sim'.stack) /\ i \in Positions(sim)
    BY <1>1 DEF Positions
  <2> QED BY <2>1, OperandsShape, OperandsShapePrimed
<1>4. q[n + 1] = v
  <2>1. n + 1 \in 1 .. Len(sim'.stack)
    BY <1>1
  <2> QED BY <2>1, OperandsShapePrimed
<1> HIDE DEF o, q, n, v
<1>5. q = Append(o, q[n + 1])
  BY <1>1, <1>2, <1>3, AppendShape
<1>6. q = Append(o, v)
  BY <1>4, <1>5
<1> QED BY <1>6 DEF o, q, n, v

(* A pop that keeps every operand below the top is a WebAssembly pop.       *)
LEMMA PopOperands ==
  ASSUME IInv, IInv', Len(sim.stack) > 0, Len(sim'.stack) = Len(sim.stack) - 1,
         \A i \in 1 .. Len(sim.stack) - 1 :
           Read(sim'.consts, registers', spills', locals', location(sim', sim'.stack[i])) =
           Read(sim.consts, registers, spills, locals, location(sim, sim.stack[i]))
  PROVE  /\ Operands # <<>>
         /\ Len(Operands) = Len(sim.stack)
         /\ Operands' = SubSeq(Operands, 1, Len(Operands) - 1)
         /\ Operands[Len(Operands)] =
              Read(sim.consts, registers, spills, locals,
                   location(sim, sim.stack[Len(sim.stack)]))
<1> DEFINE o == Operands
           q == Operands'
           n == Len(sim.stack)
<1>1. n \in Nat /\ n > 0 /\ o \in Seq(Val) /\ Len(o) = n
  BY OperandsShape, SimStackFields DEF IInv, StackInv
<1>2. q \in Seq(Val) /\ Len(q) = n - 1
  BY OperandsShapePrimed
<1>3. ASSUME NEW i \in 1 .. n - 1 PROVE q[i] = o[i]
  <2>1. i \in 1 .. Len(sim.stack) /\ i \in 1 .. Len(sim'.stack)
    BY <1>1
  <2> QED BY <2>1, OperandsShape, OperandsShapePrimed
<1>4. o[n] = Read(sim.consts, registers, spills, locals, location(sim, sim.stack[n]))
  <2>1. n \in 1 .. Len(sim.stack)
    BY <1>1
  <2> QED BY <2>1, OperandsShape
<1> HIDE DEF o, q, n
<1>5. q = SubSeq(o, 1, n - 1)
  BY <1>1, <1>2, <1>3, FrontShape
<1>6. o # <<>> /\ Len(o) = n
  BY <1>1
<1> QED BY <1>4, <1>5, <1>6 DEF o, q, n

(* A step that keeps the height and every operand keeps the operand stack.  *)
LEMMA SameOperands ==
  ASSUME IInv, IInv', Len(sim'.stack) = Len(sim.stack),
         \A i \in Positions(sim) :
           Read(sim'.consts, registers', spills', locals', location(sim', sim'.stack[i])) =
           Read(sim.consts, registers, spills, locals, location(sim, sim.stack[i]))
  PROVE  Operands' = Operands
<1>1. Operands \in Seq(Val) /\ Operands' \in Seq(Val) /\ Len(Operands') = Len(Operands)
  BY OperandsShape, OperandsShapePrimed
<1>2. ASSUME NEW i \in 1 .. Len(Operands) PROVE Operands'[i] = Operands[i]
  BY OperandsShape, OperandsShapePrimed DEF Positions
<1> QED BY <1>1, <1>2

(* Every step of the lowering and its register code is a WebAssembly step   *)
(* or leaves the operands, the locals and the last argument alone.          *)
LEMMA StepRefines ==
  ASSUME IInv, IInv', [Next]_vars
  PROVE  [Wasm!Next]_(Wasm!vars)
<1> DEFINE Old(i) == Read(sim.consts, registers, spills, locals, location(sim, sim.stack[i]))
           New(i) == Read(sim'.consts, registers', spills', locals',
                          location(sim', sim'.stack[i]))
<1>0. StackInv(sim) /\ TypeOK /\ Len(sim.stack) \in Nat
  BY SimStackFields DEF IInv, StackInv
<1>1. ASSUME NEW v \in Val, ConstOp(v) PROVE Wasm!Push(v)
  <2>1. sim' = push_const(sim, v) /\ ~sim'.failed
        /\ UNCHANGED <<locals, registers, spills, arg>>
    BY <1>1 DEF ConstOp
  <2>2. /\ Len(sim'.stack) = Len(sim.stack) + 1
        /\ \A i \in 1 .. Len(sim.consts) : sim'.consts[i] = sim.consts[i]
        /\ \A i \in Positions(sim) :
             /\ sim'.stack[i] = sim.stack[i]
             /\ location(sim', sim'.stack[i]) = location(sim, sim.stack[i])
        /\ \E id \in 0 .. Len(sim'.consts) - 1 :
             /\ location(sim', sim'.stack[Len(sim.stack) + 1]) = Loc("Const", id)
             /\ sim'.consts[id + 1] = v
    BY SMTT(30), <1>0, <2>1, PushConstFrame
  <2>3. ASSUME NEW i \in Positions(sim) PROVE New(i) = Old(i)
    <3> DEFINE b == location(sim, sim.stack[i])
    <3>1. b = location(sim, sim.stack[i])
      OBVIOUS
    <3> HIDE DEF b
    <3>2. Agree(b, sim.consts, registers, spills, locals,
                sim'.consts, registers, spills, locals)
      BY <2>1, <2>2 DEF Agree
    <3>3. Read(sim'.consts, registers, spills, locals, b) =
          Read(sim.consts, registers, spills, locals, b)
      BY <1>0, <3>1, <3>2, ReadAgree
    <3> QED BY <2>1, <2>2, <3>1, <3>3
  <2>4. New(Len(sim.stack) + 1) = v
    BY <2>2, ReadForm
  <2>5. Operands' = Append(Operands, v)
    BY <2>2, <2>3, <2>4, PushOperands
  <2> QED BY <2>1, <2>5 DEF Wasm!Push
<1>2. ASSUME NEW v \in Val, Push(v) PROVE Wasm!Push(v)
  <2> DEFINE c == sim.curr_register_index
  <2>1. sim' = push_register(sim) /\ ~sim'.failed
        /\ registers' = [registers EXCEPT ![c] = v]
        /\ UNCHANGED <<locals, spills, arg>>
    BY <1>2 DEF Push
  <2>2. /\ Len(sim'.stack) = Len(sim.stack) + 1
        /\ sim'.consts = sim.consts
        /\ \A i \in Positions(sim) :
             /\ sim'.stack[i] = sim.stack[i]
             /\ location(sim', sim'.stack[i]) = location(sim, sim.stack[i])
             /\ location(sim, sim.stack[i]) # Loc("Register", c)
        /\ location(sim', sim'.stack[Len(sim.stack) + 1]) = Loc("Register", c)
        /\ c \in RegisterIndex
    BY <1>0, <2>1, PushRegisterFrame DEF RegisterIndex
  <2>3. registers \in [RegisterIndex -> Val]
    BY <1>0 DEF TypeOK
  <2> HIDE DEF c
  <2>4. ASSUME NEW i \in Positions(sim) PROVE New(i) = Old(i)
    <3> DEFINE b == location(sim, sim.stack[i])
    <3>1. b = location(sim, sim.stack[i])
      OBVIOUS
    <3> HIDE DEF b
    <3>2. Agree(b, sim.consts, registers, spills, locals,
                sim.consts, registers', spills, locals)
      BY <2>1, <2>2, <2>3, <3>1 DEF Agree
    <3>3. Read(sim.consts, registers', spills, locals, b) =
          Read(sim.consts, registers, spills, locals, b)
      BY <1>0, <3>1, <3>2, ReadAgree
    <3> QED BY <2>1, <2>2, <3>1, <3>3
  <2>5. New(Len(sim.stack) + 1) = v
    <3>1. registers'[c] = v
      BY <2>1, <2>2, <2>3
    <3>2. New(Len(sim.stack) + 1) = registers'[c]
      BY <2>2, ReadForm
    <3> QED BY <3>1, <3>2
  <2>6. Operands' = Append(Operands, v)
    BY <2>2, <2>4, <2>5, PushOperands
  <2> QED BY <2>1, <2>6 DEF Wasm!Push
<1>3. ASSUME Pop PROVE Wasm!Pop
  <2>1. sim' = pop(sim) /\ Len(sim.stack) > 0
        /\ arg' = slot_value(spills, location(sim, sim.stack[Len(sim.stack)]))
        /\ UNCHANGED <<locals, registers, spills>>
    BY <1>3 DEF Pop, Height, Top
  <2>2. /\ Len(sim'.stack) = Len(sim.stack) - 1
        /\ sim'.consts = sim.consts
        /\ \A i \in 1 .. Len(sim.stack) - 1 :
             location(sim', sim'.stack[i]) = location(sim, sim.stack[i])
    BY <1>0, <2>1, PopFrame
  <2>3. \A i \in 1 .. Len(sim.stack) - 1 : New(i) = Old(i)
    BY <2>1, <2>2
  <2>4. /\ Operands # <<>>
        /\ Operands' = SubSeq(Operands, 1, Len(Operands) - 1)
        /\ Operands[Len(Operands)] = Old(Len(sim.stack))
    BY <2>1, <2>2, <2>3, PopOperands
  <2>5. arg' = Operands[Len(Operands)]
    BY <2>1, <2>4, SlotValueRead
  <2> QED BY <2>1, <2>4, <2>5 DEF Wasm!Pop
<1>4. ASSUME NEW x \in Locals, LocalGet(x) PROVE Wasm!LocalGet(x)
  <2>1. sim' = push_local(sim, x) /\ UNCHANGED <<locals, registers, spills, arg>>
    BY <1>4 DEF LocalGet
  <2>2. /\ Len(sim'.stack) = Len(sim.stack) + 1
        /\ sim'.consts = sim.consts
        /\ \A i \in Positions(sim) :
             /\ sim'.stack[i] = sim.stack[i]
             /\ location(sim', sim'.stack[i]) = location(sim, sim.stack[i])
        /\ location(sim', sim'.stack[Len(sim.stack) + 1]) = Loc("Slot", x)
    BY <1>0, <2>1, PushLocalFrame
  <2>3. \A i \in Positions(sim) : New(i) = Old(i)
    BY <2>1, <2>2
  <2>4. New(Len(sim.stack) + 1) = locals[x]
    BY <2>1, <2>2, ReadForm
  <2>5. Operands' = Append(Operands, locals[x])
    BY <2>2, <2>3, <2>4, PushOperands
  <2> QED BY <2>1, <2>5 DEF Wasm!LocalGet, Wasm!Push
<1>5. ASSUME NEW x \in Locals, LocalSet(x) PROVE Wasm!LocalSet(x)
  <2> DEFINE s == set_lazy(sim, x)
             n == Len(sim.stack)
  <2>1. /\ n > 0 /\ LocalSpill(x) /\ ~s.failed /\ sim' = pop(s)
        /\ arg' = slot_value(spills', location(s, s.stack[Len(s.stack)]))
        /\ locals' = [locals EXCEPT ![x] = arg']
        /\ registers' = registers
    BY <1>5 DEF LocalSet, Height, Top
  <2>2. StackInv(s) /\ s.stack = sim.stack /\ s.consts = sim.consts
    BY <1>0, <2>1, SetLazyInv, SetLazyFrame
  <2>3. s = set_lazy(sim, x)
    OBVIOUS
  <2> HIDE DEF s
  <2>4. /\ Len(sim'.stack) = Len(s.stack) - 1
        /\ sim'.consts = s.consts
        /\ \A i \in 1 .. Len(s.stack) - 1 :
             location(sim', sim'.stack[i]) = location(s, s.stack[i])
    BY ZenonT(30), <2>1, <2>2, PopFrame
  <2>5. \A y \in Locals : y # x => locals'[y] = locals[y]
    BY <1>0, <2>1 DEF TypeOK
  <2>6. ASSUME NEW i \in 1 .. n - 1 PROVE New(i) = Old(i)
    <3>1. i \in Positions(sim) /\ i \in 1 .. Len(s.stack) - 1
      BY <1>0, <2>2 DEF Positions
    <3>2. Read(s.consts, registers, spills', locals', location(s, s.stack[i])) = Old(i)
      <4> DEFINE l2 == locals'
      <4>1. \A y \in Locals : y # x => l2[y] = locals[y]
        BY <2>5
      <4>2. LocalSpill(x) /\ ~s.failed
        BY <2>1
      <4> HIDE DEF l2
      <4>3. Read(s.consts, registers, spills', l2, location(s, s.stack[i])) =
            Read(sim.consts, registers, spills, locals, location(sim, sim.stack[i]))
        BY <2>3, <3>1, <4>1, <4>2, SpillKeepsOperands
      <4> QED BY <4>3 DEF l2
    <3> QED BY <2>1, <2>4, <3>1, <3>2
  <2>7. arg' = Old(n)
    <3>1. n \in Positions(sim) /\ Len(s.stack) = n
      BY <1>0, <2>1, <2>2 DEF Positions
    <3>2. \A y \in Locals : y # x => locals[y] = locals[y]
      OBVIOUS
    <3>3. Read(s.consts, registers, spills', locals, location(s, s.stack[n])) = Old(n)
      BY <2>1, <2>3, <3>1, <3>2, SpillKeepsOperands
    <3>4. arg' = Read(sim.consts, registers, spills', locals, location(s, s.stack[n]))
      BY <2>1, <3>1, SlotValueRead
    <3> QED BY <2>2, <3>3, <3>4
  <2>8. /\ Operands # <<>>
        /\ Operands' = SubSeq(Operands, 1, Len(Operands) - 1)
        /\ Operands[Len(Operands)] = Old(n)
    BY <2>1, <2>2, <2>4, <2>6, PopOperands
  <2> QED BY <2>1, <2>7, <2>8 DEF Wasm!LocalSet
<1>6. ASSUME NEW x \in Locals, LocalTee(x) \/ SpillLive(x)
      PROVE  Operands' = Operands
  <2>1. /\ LocalSpill(x) /\ sim' = set_lazy(sim, x) /\ ~sim'.failed
        /\ \A y \in Locals : y # x => locals'[y] = locals[y]
        /\ registers' = registers
    BY <1>0, <1>6 DEF LocalTee, SpillLive, TypeOK
  <2>2. Len(sim'.stack) = Len(sim.stack)
    BY <1>0, <2>1, SetLazyFrame
  <2>3. ASSUME NEW i \in Positions(sim) PROVE New(i) = Old(i)
    <3>1. Read(sim'.consts, registers, spills', locals', location(sim', sim'.stack[i])) = Old(i)
      BY <2>1, SpillKeepsOperands
    <3> QED BY <2>1, <3>1
  <2> QED BY <2>2, <2>3, SameOperands
<1>7. ASSUME NEW x \in Locals, LocalTee(x) PROVE Wasm!LocalTee(x)
  <2> DEFINE s == set_lazy(sim, x)
             n == Len(sim.stack)
  <2>1. /\ n > 0 /\ LocalSpill(x) /\ ~s.failed
        /\ arg' = slot_value(spills', location(s, s.stack[Len(s.stack)]))
        /\ locals' = [locals EXCEPT ![x] = arg']
    BY <1>7 DEF LocalTee, Height, Top
  <2>2. s.stack = sim.stack /\ s.consts = sim.consts
    BY <1>0, <2>1, SetLazyFrame
  <2>3. s = set_lazy(sim, x)
    OBVIOUS
  <2> HIDE DEF s
  <2>4. n \in Positions(sim) /\ Len(s.stack) = n
    BY <1>0, <2>1, <2>2 DEF Positions
  <2>5. \A y \in Locals : y # x => locals[y] = locals[y]
    OBVIOUS
  <2>6. Read(s.consts, registers, spills', locals, location(s, s.stack[n])) = Old(n)
    BY <2>1, <2>3, <2>4, <2>5, SpillKeepsOperands
  <2>7. arg' = Read(sim.consts, registers, spills', locals, location(s, s.stack[n]))
    BY <2>1, <2>4, SlotValueRead
  <2>8. arg' = Old(n)
    BY <2>2, <2>6, <2>7
  <2>9. Operands # <<>> /\ Operands[Len(Operands)] = Old(n)
    BY <1>0, <2>1, OperandsShape
  <2> QED BY <1>6, <1>7, <2>1, <2>8, <2>9 DEF Wasm!LocalTee
<1>8. CASE RegisterFrameTooLarge
  <2>1. /\ sim' = Fail(sim)
        /\ UNCHANGED <<locals, registers, spills, arg>>
    BY <1>8 DEF RegisterFrameTooLarge
  <2>2. sim'.stack = sim.stack /\ sim'.entries = sim.entries /\ sim'.consts = sim.consts
    BY <1>0, <2>1, FailInv
  <2>3. ASSUME NEW i \in Positions(sim) PROVE New(i) = Old(i)
    <3>1. location(sim', sim.stack[i]) = location(sim, sim.stack[i])
      BY <2>2, <1>0, SameLocation
    <3> QED BY <2>1, <2>2, <3>1
  <2>4. Operands' = Operands
    BY <2>2, <2>3, SameOperands
  <2> QED BY <2>1, <2>4 DEF Wasm!vars
<1>9. ASSUME NEW x \in Locals, SpillLive(x) PROVE UNCHANGED Wasm!vars
  BY <1>6, <1>9 DEF SpillLive, Wasm!vars
<1>10. CASE UNCHANGED vars
  BY <1>10 DEF vars, Wasm!vars, Operands, slot_value
<1> HIDE DEF Old, New
<1> QED BY <1>1, <1>2, <1>3, <1>4, <1>5, <1>7, <1>8, <1>9, <1>10
        DEF Next, Wasm!Next, Locals

(* Straight-line register code implements WebAssembly's operand stack and   *)
(* locals.                                                                  *)
THEOREM Refinement == Spec => ImplementsWasm
<1>1. Init => Wasm!Init
  BY DEF Init, Wasm!Init, Operands, NewStack, Locals
<1>2. IInv /\ IInv' /\ [Next]_vars => [Wasm!Next]_(Wasm!vars)
  BY StepRefines
<1> QED BY <1>1, <1>2, Invariance, PTL DEF Spec, Wasm!Spec, ImplementsWasm
=============================================================================
