------------------------ MODULE SimulatedStackProofs ------------------------
(***************************************************************************)
(* Every operation of the simulated stack preserves its invariants, for    *)
(* every number of locals, every limit and every stack.                    *)
(***************************************************************************)
EXTENDS SimulatedStack, FiniteSetTheorems, TLAPS

StackInv(s) ==
  /\ s \in SimStack
  /\ RefCountsOK(s)
  /\ OriginsOK(s)
  /\ SpillsOK(s)
  /\ RegistersOK(s)

-----------------------------------------------------------------------------
(* The record each operation returns, component by component.               *)

(* The type of each field of a simulated stack.                             *)
LEMMA SimStackFields ==
  ASSUME NEW s \in SimStack
  PROVE  /\ s.stack \in Seq(StackSlot)
         /\ s.curr_register_index \in Nat
         /\ s.max_registers \in Nat
         /\ s.entries \in Seq(LazyEntry)
         /\ s.origin \in [Locals -> Nat]
         /\ s.allocation_len \in Nat
         /\ s.free_slots \in Seq(Nat)
         /\ s.consts \in Seq(Val)
         /\ s.failed \in BOOLEAN
BY DEF SimStack

(* pop_lazy changes one count; the last reference releases the origin or    *)
(* the spill slot.                                                          *)
LEMMA PopLazyShape ==
  ASSUME NEW s \in SimStack, NEW e \in Entries(s), NEW p, p = pop_lazy(s, e),
         s.entries[e].ref_count > 0,
         s.entries[e].ref_count = 1 /\ ~s.entries[e].spilled => s.entries[e].index \in Locals
  PROVE  /\ p \in SimStack
         /\ p.stack = s.stack
         /\ p.curr_register_index = s.curr_register_index
         /\ p.max_registers = s.max_registers
         /\ p.consts = s.consts
         /\ p.failed = s.failed
         /\ p.allocation_len = s.allocation_len
         /\ Len(p.entries) = Len(s.entries)
         /\ \A f \in Entries(s) :
              /\ p.entries[f].spilled = s.entries[f].spilled
              /\ p.entries[f].index = s.entries[f].index
              /\ f # e => p.entries[f].ref_count = s.entries[f].ref_count
         /\ p.entries[e].ref_count = s.entries[e].ref_count - 1
         /\ p.free_slots = IF s.entries[e].ref_count = 1 /\ s.entries[e].spilled
                           THEN Append(s.free_slots, s.entries[e].index)
                           ELSE s.free_slots
         /\ p.origin = IF s.entries[e].ref_count = 1 /\ ~s.entries[e].spilled
                       THEN [s.origin EXCEPT ![s.entries[e].index] = NoEntry]
                       ELSE s.origin
<1> DEFINE d == [s.entries EXCEPT ![e] =
                   [s.entries[e] EXCEPT !.ref_count = s.entries[e].ref_count - 1]]
<1>1. s.entries[e] \in LazyEntry
  BY SimStackFields DEF Entries
<1>2. [s.entries[e] EXCEPT !.ref_count = s.entries[e].ref_count - 1] \in LazyEntry
  BY <1>1 DEF LazyEntry
<1>3. d \in Seq(LazyEntry) /\ Len(d) = Len(s.entries)
  BY <1>1, <1>2, SimStackFields DEF Entries
<1>4. \A f \in Entries(s) :
        /\ d[f].spilled = s.entries[f].spilled
        /\ d[f].index = s.entries[f].index
        /\ d[f].ref_count = IF f = e THEN s.entries[f].ref_count - 1
                            ELSE s.entries[f].ref_count
  BY SMTT(60), <1>1, SimStackFields DEF Entries, LazyEntry
<1>5. CASE s.entries[e].ref_count # 1
  <2>1. p = [s EXCEPT !.entries = d]
    BY <1>5 DEF pop_lazy
  <2> QED BY <2>1, <1>3, <1>4, <1>5 DEF SimStack, Entries
<1>6. CASE s.entries[e].ref_count = 1 /\ s.entries[e].spilled
  <2>1. p = [[s EXCEPT !.entries = d] EXCEPT
               !.free_slots = Append(s.free_slots, s.entries[e].index)]
    BY <1>6 DEF pop_lazy
  <2>2. Append(s.free_slots, s.entries[e].index) \in Seq(Nat)
    BY <1>1, SimStackFields DEF LazyEntry
  <2> QED BY ZenonT(60), <2>1, <2>2, <1>3, <1>4, <1>6 DEF SimStack, Entries
<1>7. CASE s.entries[e].ref_count = 1 /\ ~s.entries[e].spilled
  <2>1. p = [[s EXCEPT !.entries = d] EXCEPT
               !.origin = [s.origin EXCEPT ![s.entries[e].index] = NoEntry]]
    BY <1>7 DEF pop_lazy
  <2>2. [s.origin EXCEPT ![s.entries[e].index] = NoEntry] \in [Locals -> Nat]
    BY SimStackFields DEF NoEntry
  <2> QED BY ZenonT(30), <2>1, <2>2, <1>3, <1>4, <1>7 DEF SimStack, Entries
<1> QED BY <1>5, <1>6, <1>7

-----------------------------------------------------------------------------
(* Finite sets of stack positions.                                          *)

(* The stack positions that share an entry can be counted.                  *)
LEMMA BorrowersFinite ==
  ASSUME NEW s \in SimStack, NEW e
  PROVE  /\ IsFiniteSet(Borrowers(s, e))
         /\ Cardinality(Borrowers(s, e)) \in Nat
<1>1. IsFiniteSet(1 .. Len(s.stack))
  BY FS_Interval, SimStackFields
<1> QED BY <1>1, FS_Subset, FS_CardinalityType DEF Borrowers, Positions

(* A stack slot is determined by its variant and its id.                    *)
LEMMA SlotForm ==
  ASSUME NEW r \in StackSlot
  PROVE  /\ r.kind = "Local" => r = Local(r.id)
         /\ r.kind = "Const" => r = Const(r.id)
         /\ r.kind = "Register" => r = Register(r.id)
BY DEF StackSlot, Local, Const, Register

(* Any entry that some slot names is live, and only those.                  *)
LEMMA LiveOnStack ==
  ASSUME NEW s \in SimStack, RefCountsOK(s), NEW i \in Positions(s),
         s.stack[i].kind = "Local"
  PROVE  /\ s.stack[i].id \in Entries(s)
         /\ s.stack[i] = Local(s.stack[i].id)
         /\ Live(s, s.stack[i].id)
<1> DEFINE e == s.stack[i].id
<1>1. e \in Entries(s)
  BY DEF RefCountsOK
<1>2. s.stack[i] = Local(e)
  <2>1. s.stack[i] \in StackSlot
    BY SimStackFields DEF Positions
  <2> QED BY <2>1, SlotForm
<1>3. i \in Borrowers(s, e)
  BY <1>2 DEF Borrowers
<1>4. Cardinality(Borrowers(s, e)) > 0
  BY <1>3, BorrowersFinite, FS_EmptySet
<1> QED BY <1>1, <1>2, <1>4 DEF RefCountsOK, Live

-----------------------------------------------------------------------------
(* pop                                                                      *)

(* Taking the top slot off changes nothing but the stack.                   *)
LEMMA BelowShape ==
  ASSUME NEW s \in SimStack, Len(s.stack) > 0
  PROVE  /\ Below(s) \in SimStack
         /\ Len(Below(s).stack) = Len(s.stack) - 1
         /\ \A i \in 1 .. Len(s.stack) - 1 : Below(s).stack[i] = s.stack[i]
         /\ Below(s).curr_register_index = s.curr_register_index
         /\ Below(s).max_registers = s.max_registers
         /\ Below(s).entries = s.entries
         /\ Below(s).origin = s.origin
         /\ Below(s).allocation_len = s.allocation_len
         /\ Below(s).free_slots = s.free_slots
         /\ Below(s).consts = s.consts
         /\ Below(s).failed = s.failed
<1>1. /\ SubSeq(s.stack, 1, Len(s.stack) - 1) \in Seq(StackSlot)
      /\ Len(SubSeq(s.stack, 1, Len(s.stack) - 1)) = Len(s.stack) - 1
      /\ \A i \in 1 .. Len(s.stack) - 1 :
           SubSeq(s.stack, 1, Len(s.stack) - 1)[i] = s.stack[i]
  BY SimStackFields
<1> QED BY <1>1 DEF Below, SimStack

(* Popping leaves every other slot where it was.                            *)
LEMMA PopBorrowers ==
  ASSUME NEW s \in SimStack, Len(s.stack) > 0, NEW p \in SimStack,
         Len(p.stack) = Len(s.stack) - 1,
         \A i \in 1 .. Len(s.stack) - 1 : p.stack[i] = s.stack[i],
         NEW f
  PROVE  /\ Borrowers(p, f) = Borrowers(s, f) \ {Len(s.stack)}
         /\ Cardinality(Borrowers(p, f)) =
              IF Top(s) = Local(f) THEN Cardinality(Borrowers(s, f)) - 1
              ELSE Cardinality(Borrowers(s, f))
<1>1. Len(s.stack) \in Nat /\ Len(p.stack) \in Nat
  BY SimStackFields
<1>2. Borrowers(p, f) = Borrowers(s, f) \ {Len(s.stack)}
  BY <1>1 DEF Borrowers, Positions
<1>3. Top(s) = Local(f) <=> Len(s.stack) \in Borrowers(s, f)
  BY <1>1 DEF Borrowers, Positions, Top
<1>4. CASE Top(s) = Local(f)
  BY <1>2, <1>3, <1>4, BorrowersFinite, FS_RemoveElement
<1>5. CASE Top(s) # Local(f)
  <2>1. Borrowers(p, f) = Borrowers(s, f)
    BY <1>2, <1>3, <1>5
  <2> QED BY <1>2, <1>5, <2>1
<1> QED BY <1>2, <1>4, <1>5

(* After a pop the remaining slots still name entries and constants that    *)
(* exist.                                                                   *)
LEMMA PoppedSlots ==
  ASSUME NEW s \in SimStack, NEW p \in SimStack, Len(s.stack) > 0,
         Len(p.stack) = Len(s.stack) - 1,
         \A i \in 1 .. Len(s.stack) - 1 : p.stack[i] = s.stack[i],
         Len(p.entries) = Len(s.entries), p.consts = s.consts, RefCountsOK(s)
  PROVE  \A i \in Positions(p) :
           /\ p.stack[i].kind = "Local" => p.stack[i].id \in Entries(p)
           /\ p.stack[i].kind = "Const" => p.stack[i].id \in 0 .. Len(p.consts) - 1
<1> SUFFICES ASSUME NEW i \in Positions(p)
             PROVE  /\ p.stack[i].kind = "Local" => p.stack[i].id \in Entries(p)
                    /\ p.stack[i].kind = "Const" => p.stack[i].id \in 0 .. Len(p.consts) - 1
  OBVIOUS
<1>1. i \in 1 .. Len(s.stack) - 1 /\ i \in Positions(s)
  BY SimStackFields DEF Positions
<1> QED BY <1>1 DEF RefCountsOK, Entries

(* Popping a slot that is no register keeps the run of registers.           *)
LEMMA PopKeepsRegisters ==
  ASSUME NEW s \in SimStack, NEW p \in SimStack, Len(s.stack) > 0,
         Len(p.stack) = Len(s.stack) - 1,
         \A i \in 1 .. Len(s.stack) - 1 : p.stack[i] = s.stack[i],
         p.curr_register_index = s.curr_register_index,
         p.max_registers = s.max_registers,
         Top(s).kind # "Register", RegistersOK(s)
  PROVE  RegistersOK(p)
<1>0. Len(s.stack) \in Nat
  BY SimStackFields
<1>1. ASSUME NEW i \in Positions(p)
      PROVE  i \in Positions(s) /\ p.stack[i] = s.stack[i]
  BY <1>0 DEF Positions
<1>2. ASSUME NEW r \in LocalsCount .. p.curr_register_index - 1
      PROVE  \E i \in Positions(p) : p.stack[i] = Register(r)
  <2>1. PICK i \in Positions(s) : s.stack[i] = Register(r)
    BY DEF RegistersOK
  <2>2. i # Len(s.stack)
    BY <2>1 DEF Top, Register
  <2>3. i \in 1 .. Len(s.stack) - 1
    BY <2>2, SimStackFields DEF Positions
  <2> QED BY <2>1, <2>3 DEF Positions
<1>3. \A i \in Positions(p) : IsRegister(p, i) <=> IsRegister(s, i)
  BY <1>1 DEF IsRegister
<1>4. ASSUME NEW i \in Positions(p), NEW j \in Positions(p), i < j,
             IsRegister(p, i), IsRegister(p, j)
      PROVE  p.stack[i].id < p.stack[j].id
  BY <1>1, <1>3, <1>4 DEF RegistersOK
<1>5. ASSUME NEW i \in Positions(p), IsRegister(p, i)
      PROVE  p.stack[i].id \in LocalsCount .. p.curr_register_index - 1
  BY <1>1, <1>3, <1>5 DEF RegistersOK
<1> QED BY <1>2, <1>4, <1>5 DEF RegistersOK

(* pop of a constant only removes the slot.                                 *)
LEMMA PopConst ==
  ASSUME NEW s, StackInv(s), Len(s.stack) > 0, Top(s).kind = "Const"
  PROVE  StackInv(pop(s)) /\ pop(s) = Below(s)
<1> DEFINE p == Below(s)
<1>1. pop(s) = p
  BY DEF pop
<1>2. s \in SimStack
  BY DEF StackInv
<1> HIDE DEF p
<1>3. /\ p \in SimStack
      /\ Len(p.stack) = Len(s.stack) - 1
      /\ \A i \in 1 .. Len(s.stack) - 1 : p.stack[i] = s.stack[i]
      /\ p.curr_register_index = s.curr_register_index
      /\ p.max_registers = s.max_registers
      /\ p.entries = s.entries
      /\ p.origin = s.origin
      /\ p.allocation_len = s.allocation_len
      /\ p.free_slots = s.free_slots
      /\ p.consts = s.consts
      /\ p.failed = s.failed
  BY <1>2, BelowShape DEF p
<1>4. Len(s.stack) \in Nat
  BY <1>2, SimStackFields
<1>5. RefCountsOK(p)
  <2>1. ASSUME NEW f \in Entries(s)
        PROVE  Cardinality(Borrowers(p, f)) = Cardinality(Borrowers(s, f))
    BY <1>2, <1>3, PopBorrowers DEF Local
  <2>2. \A f \in Entries(p) : p.entries[f].ref_count = Cardinality(Borrowers(p, f))
    BY <1>3, <2>1 DEF RefCountsOK, StackInv, Entries
  <2> QED BY <1>2, <1>3, <2>2, PoppedSlots DEF RefCountsOK, StackInv
<1>6. OriginsOK(p)
  BY <1>3 DEF OriginsOK, StackInv, Entries, Live, borrowed
<1>7. SpillsOK(p)
  BY <1>3 DEF SpillsOK, StackInv, Entries, SpilledLive, Live
<1>8. RegistersOK(p)
  BY <1>2, <1>3, PopKeepsRegisters DEF StackInv
<1> QED BY <1>1, <1>3, <1>5, <1>6, <1>7, <1>8 DEF StackInv, p

(* pop of a register recedes the index to the register popped.              *)
LEMMA PopRegister ==
  ASSUME NEW s, StackInv(s), Len(s.stack) > 0, Top(s).kind = "Register"
  PROVE  /\ StackInv(pop(s))
         /\ Top(s).id = s.curr_register_index - 1
<1> DEFINE p == pop(s)
<1>1. p = [Below(s) EXCEPT !.curr_register_index = s.curr_register_index - 1]
  BY DEF pop
<1>2. s \in SimStack
  BY DEF StackInv
<1>3. Len(s.stack) \in Nat /\ Len(s.stack) \in Positions(s)
  BY <1>2, SimStackFields DEF Positions
<1>4. Top(s) = Register(Top(s).id) /\ IsRegister(s, Len(s.stack)) /\ Top(s).id \in Nat
  <2>1. Top(s) \in StackSlot
    BY <1>2, <1>3, SimStackFields DEF Top, Positions
  <2> QED BY <2>1, SlotForm DEF IsRegister, Top, StackSlot
<1>5. Top(s).id \in LocalsCount .. s.curr_register_index - 1
  BY <1>3, <1>4 DEF StackInv, RegistersOK, Top
<1>6. s.curr_register_index - 1 \in Nat /\ LocalsCount <= s.curr_register_index - 1
  BY <1>2, <1>5, LimitsAssumption, SimStackFields
<1>7. Top(s).id = s.curr_register_index - 1
  <2>1. PICK j \in Positions(s) : s.stack[j] = Register(s.curr_register_index - 1)
    BY SMTT(60), <1>2, <1>6, LimitsAssumption, SimStackFields DEF StackInv, RegistersOK
  <2>2. j < Len(s.stack) => s.curr_register_index - 1 < Top(s).id
    BY <2>1, <1>3, <1>4 DEF StackInv, RegistersOK, IsRegister, Register, Top
  <2>3. j = Len(s.stack)
    BY <2>2, <1>2, <1>3, <1>5, LimitsAssumption, SimStackFields DEF Positions
  <2> QED BY <2>1, <2>3 DEF Top, Register
<1>8. /\ p \in SimStack
      /\ Len(p.stack) = Len(s.stack) - 1
      /\ \A i \in 1 .. Len(s.stack) - 1 : p.stack[i] = s.stack[i]
      /\ p.curr_register_index = s.curr_register_index - 1
      /\ p.max_registers = s.max_registers
      /\ p.entries = s.entries
      /\ p.origin = s.origin
      /\ p.allocation_len = s.allocation_len
      /\ p.free_slots = s.free_slots
      /\ p.consts = s.consts
  <2> DEFINE b == Below(s)
  <2>1. /\ b \in SimStack
        /\ Len(b.stack) = Len(s.stack) - 1
        /\ \A i \in 1 .. Len(s.stack) - 1 : b.stack[i] = s.stack[i]
        /\ b.max_registers = s.max_registers
        /\ b.entries = s.entries
        /\ b.origin = s.origin
        /\ b.allocation_len = s.allocation_len
        /\ b.free_slots = s.free_slots
        /\ b.consts = s.consts
    BY <1>2, BelowShape
  <2> HIDE DEF b, p
  <2>2. p = [b EXCEPT !.curr_register_index = s.curr_register_index - 1]
    BY <1>1 DEF b
  <2> QED BY <2>1, <2>2, <1>6 DEF SimStack
<1> HIDE DEF p
<1>9. RefCountsOK(p)
  <2>1. ASSUME NEW f \in Entries(s)
        PROVE  Cardinality(Borrowers(p, f)) = Cardinality(Borrowers(s, f))
    BY <1>2, <1>8, PopBorrowers DEF Local
  <2>2. \A f \in Entries(p) : p.entries[f].ref_count = Cardinality(Borrowers(p, f))
    BY <1>8, <2>1 DEF RefCountsOK, StackInv, Entries
  <2> QED BY <1>2, <1>8, <2>2, PoppedSlots DEF RefCountsOK, StackInv
<1>10. OriginsOK(p)
  BY <1>8 DEF OriginsOK, StackInv, Entries, Live, borrowed
<1>11. SpillsOK(p)
  BY <1>8 DEF SpillsOK, StackInv, Entries, SpilledLive, Live
<1>12. RegistersOK(p)
  <2>1. s.curr_register_index \in Nat /\ s.max_registers \in Nat
    BY <1>2, SimStackFields
  <2>2. /\ LocalsCount <= p.curr_register_index
        /\ p.curr_register_index <= p.max_registers
        /\ p.max_registers <= MAX_REGISTER_SLOTS
    BY <2>1, <1>6, <1>8, LimitsAssumption DEF StackInv, RegistersOK
  <2>3. ASSUME NEW i \in Positions(p), IsRegister(p, i)
        PROVE  p.stack[i].id \in LocalsCount .. p.curr_register_index - 1
    <3>1. /\ i \in Positions(s) /\ i < Len(s.stack) /\ p.stack[i] = s.stack[i]
          /\ IsRegister(s, i)
      BY <2>3, <1>3, <1>8 DEF Positions, IsRegister
    <3>2. s.stack[i].id < Top(s).id
      BY <3>1, <1>3, <1>4 DEF StackInv, RegistersOK, Top
    <3>3. s.stack[i].id \in LocalsCount .. s.curr_register_index - 1
      BY <3>1 DEF StackInv, RegistersOK
    <3> QED BY <3>1, <3>2, <3>3, <2>1, <1>7, <1>8, LimitsAssumption
  <2>4. ASSUME NEW i \in Positions(p), NEW j \in Positions(p), i < j,
               IsRegister(p, i), IsRegister(p, j)
        PROVE  p.stack[i].id < p.stack[j].id
    <3>1. /\ i \in Positions(s) /\ p.stack[i] = s.stack[i] /\ IsRegister(s, i)
          /\ j \in Positions(s) /\ p.stack[j] = s.stack[j] /\ IsRegister(s, j)
      BY <2>4, <1>3, <1>8 DEF Positions, IsRegister
    <3> QED BY <2>4, <3>1 DEF StackInv, RegistersOK
  <2>5. ASSUME NEW r \in LocalsCount .. p.curr_register_index - 1
        PROVE  \E i \in Positions(p) : p.stack[i] = Register(r)
    <3>1. PICK i \in Positions(s) : s.stack[i] = Register(r)
      BY <2>1, <1>8, LimitsAssumption DEF StackInv, RegistersOK
    <3>2. i # Len(s.stack)
      BY <3>1, <2>1, <1>7, <1>8, LimitsAssumption DEF Top, Register
    <3> QED BY <3>1, <3>2, <1>3, <1>8 DEF Positions
  <2> QED BY <2>2, <2>3, <2>4, <2>5 DEF RegistersOK
<1> QED BY <1>7, <1>8, <1>9, <1>10, <1>11, <1>12 DEF StackInv, p

(* pop of a borrow drops one reference, and the last one releases the       *)
(* origin or the spill slot: no slot is leaked or freed twice.              *)
LEMMA PopLocal ==
  ASSUME NEW s, StackInv(s), Len(s.stack) > 0, Top(s).kind = "Local"
  PROVE  StackInv(pop(s))
<1> DEFINE e == Top(s).id
           b == Below(s)
           p == pop_lazy(b, e)
<1>1. pop(s) = p
  BY DEF pop
<1>2. s \in SimStack
  BY DEF StackInv
<1>3. Len(s.stack) \in Nat /\ Len(s.stack) \in Positions(s)
  BY <1>2, SimStackFields DEF Positions
<1>4. e \in Entries(s) /\ Top(s) = Local(e) /\ Live(s, e)
  BY <1>2, <1>3, LiveOnStack DEF StackInv, Top
<1>5. /\ b \in SimStack
      /\ Len(b.stack) = Len(s.stack) - 1
      /\ \A i \in 1 .. Len(s.stack) - 1 : b.stack[i] = s.stack[i]
      /\ b.curr_register_index = s.curr_register_index
      /\ b.max_registers = s.max_registers
      /\ b.entries = s.entries
      /\ b.origin = s.origin
      /\ b.allocation_len = s.allocation_len
      /\ b.free_slots = s.free_slots
      /\ b.consts = s.consts
  BY <1>2, BelowShape
<1> HIDE DEF b
<1>6. /\ e \in Entries(b)
      /\ b.entries[e].ref_count > 0
      /\ ~b.entries[e].spilled => b.entries[e].index \in Locals
  BY <1>4, <1>5 DEF Entries, Live, StackInv, OriginsOK
<1>7. /\ p \in SimStack
      /\ Len(p.stack) = Len(s.stack) - 1
      /\ \A i \in 1 .. Len(s.stack) - 1 : p.stack[i] = s.stack[i]
      /\ p.curr_register_index = s.curr_register_index
      /\ p.max_registers = s.max_registers
      /\ p.consts = s.consts
      /\ p.allocation_len = s.allocation_len
      /\ Len(p.entries) = Len(s.entries)
      /\ \A f \in Entries(s) :
           /\ p.entries[f].spilled = s.entries[f].spilled
           /\ p.entries[f].index = s.entries[f].index
           /\ f # e => p.entries[f].ref_count = s.entries[f].ref_count
      /\ p.entries[e].ref_count = s.entries[e].ref_count - 1
      /\ p.free_slots = IF s.entries[e].ref_count = 1 /\ s.entries[e].spilled
                        THEN Append(s.free_slots, s.entries[e].index)
                        ELSE s.free_slots
      /\ p.origin = IF s.entries[e].ref_count = 1 /\ ~s.entries[e].spilled
                    THEN [s.origin EXCEPT ![s.entries[e].index] = NoEntry]
                    ELSE s.origin
  <2>0. p = pop_lazy(b, e) /\ b \in SimStack
    BY <1>5
  <2> HIDE DEF e, p
  <2>1. /\ p \in SimStack
        /\ p.stack = b.stack
        /\ p.curr_register_index = b.curr_register_index
        /\ p.max_registers = b.max_registers
        /\ p.consts = b.consts
        /\ p.allocation_len = b.allocation_len
        /\ Len(p.entries) = Len(b.entries)
        /\ \A f \in Entries(b) :
             /\ p.entries[f].spilled = b.entries[f].spilled
             /\ p.entries[f].index = b.entries[f].index
             /\ f # e => p.entries[f].ref_count = b.entries[f].ref_count
        /\ p.entries[e].ref_count = b.entries[e].ref_count - 1
        /\ p.free_slots = IF b.entries[e].ref_count = 1 /\ b.entries[e].spilled
                          THEN Append(b.free_slots, b.entries[e].index)
                          ELSE b.free_slots
        /\ p.origin = IF b.entries[e].ref_count = 1 /\ ~b.entries[e].spilled
                      THEN [b.origin EXCEPT ![b.entries[e].index] = NoEntry]
                      ELSE b.origin
    BY SMTT(60), <2>0, <1>6, PopLazyShape
  <2> QED BY SMTT(60), <2>1, <1>5 DEF Entries
<1> HIDE DEF p, e
<1>8. s.entries[e] \in LazyEntry /\ s.entries[e].ref_count \in Nat \ {0}
  <2>1. s.entries[e] \in LazyEntry
    BY <1>2, <1>4, SimStackFields DEF Entries
  <2> QED BY <2>1, <1>4 DEF Live, LazyEntry
<1>9. RefCountsOK(p)
  <2>1. ASSUME NEW f \in Entries(s)
        PROVE  p.entries[f].ref_count = Cardinality(Borrowers(p, f))
    <3>1. Cardinality(Borrowers(p, f)) =
            IF Top(s) = Local(f) THEN Cardinality(Borrowers(s, f)) - 1
            ELSE Cardinality(Borrowers(s, f))
      BY <1>2, <1>7, PopBorrowers
    <3>2. Top(s) = Local(f) <=> f = e
      BY <1>4 DEF Local
    <3> QED BY <3>1, <3>2, <1>4, <1>7 DEF StackInv, RefCountsOK
  <2>2. \A f \in Entries(p) : p.entries[f].ref_count = Cardinality(Borrowers(p, f))
    BY <1>7, <2>1 DEF Entries
  <2> QED BY <1>2, <1>7, <2>2, PoppedSlots DEF RefCountsOK, StackInv
<1>10. OriginsOK(p)
  <2>1. \A f \in Entries(s) : Live(p, f) => Live(s, f)
    BY <1>7, <1>8 DEF Live
  <2>2. \A f \in Entries(s) : f # e => (Live(p, f) <=> Live(s, f))
    BY <1>7 DEF Live
  <2>3. CASE s.entries[e].ref_count = 1 /\ ~s.entries[e].spilled
    <3>1. s.entries[e].index \in Locals /\ s.origin[s.entries[e].index] = e
      BY <2>3, <1>4 DEF StackInv, OriginsOK
    <3>2. ~Live(p, e)
      BY <2>3, <1>7 DEF Live
    <3>3. \A x \in Locals : p.origin[x] = IF x = s.entries[e].index THEN NoEntry ELSE s.origin[x]
      BY <2>3, <1>2, <1>7, SimStackFields
    <3>4. ASSUME NEW x \in Locals, borrowed(p, x)
          PROVE  /\ p.origin[x] \in Entries(p)
                 /\ Live(p, p.origin[x])
                 /\ ~p.entries[p.origin[x]].spilled
                 /\ p.entries[p.origin[x]].index = x
      <4>1. x # s.entries[e].index /\ p.origin[x] = s.origin[x] /\ borrowed(s, x)
        BY <3>3, <3>4 DEF borrowed
      <4>2. /\ s.origin[x] \in Entries(s)
            /\ Live(s, s.origin[x])
            /\ ~s.entries[s.origin[x]].spilled
            /\ s.entries[s.origin[x]].index = x
        BY <4>1 DEF StackInv, OriginsOK
      <4> QED BY <4>1, <4>2, <2>2, <1>7 DEF Entries
    <3>5. ASSUME NEW f \in Entries(p), Live(p, f), ~p.entries[f].spilled
          PROVE  p.entries[f].index \in Locals /\ p.origin[p.entries[f].index] = f
      <4>1. f \in Entries(s) /\ f # e /\ Live(s, f) /\ ~s.entries[f].spilled
        BY <3>2, <3>5, <2>1, <1>7 DEF Entries
      <4>2. s.entries[f].index \in Locals /\ s.origin[s.entries[f].index] = f
        BY <4>1 DEF StackInv, OriginsOK
      <4> QED BY <4>1, <4>2, <3>1, <3>3, <1>7
    <3> QED BY <3>4, <3>5 DEF OriginsOK
  <2>4. CASE ~(s.entries[e].ref_count = 1 /\ ~s.entries[e].spilled)
    <3>1. p.origin = s.origin
      BY <2>4, <1>7
    <3>2. ~s.entries[e].spilled => Live(p, e)
      BY SMTT(30), <2>4, <1>7, <1>8 DEF Live
    <3>3. ASSUME NEW x \in Locals, borrowed(p, x)
          PROVE  /\ p.origin[x] \in Entries(p)
                 /\ Live(p, p.origin[x])
                 /\ ~p.entries[p.origin[x]].spilled
                 /\ p.entries[p.origin[x]].index = x
      <4>1. /\ s.origin[x] \in Entries(s)
            /\ Live(s, s.origin[x])
            /\ ~s.entries[s.origin[x]].spilled
            /\ s.entries[s.origin[x]].index = x
        BY <3>1, <3>3 DEF StackInv, OriginsOK, borrowed
      <4> DEFINE f == s.origin[x]
      <4>2. p.origin[x] = f /\ f \in Entries(s)
        BY <4>1, <3>1
      <4> HIDE DEF f
      <4>3. ~p.entries[f].spilled /\ p.entries[f].index = x
        BY <4>1, <4>2, <1>7 DEF f
      <4>4. Live(p, f)
        <5>1. Live(s, f) /\ ~s.entries[f].spilled
          BY <4>1 DEF f
        <5> QED BY <5>1, <4>2, <3>2, <2>2
      <4>5. f \in Entries(p)
        BY <4>2, <1>7 DEF Entries
      <4> QED BY <4>2, <4>3, <4>4, <4>5
    <3>4. ASSUME NEW f \in Entries(p), Live(p, f), ~p.entries[f].spilled
          PROVE  p.entries[f].index \in Locals /\ p.origin[p.entries[f].index] = f
      <4>1. f \in Entries(s) /\ Live(s, f) /\ ~s.entries[f].spilled
        BY <3>4, <2>1, <1>7 DEF Entries
      <4>2. s.entries[f].index \in Locals /\ s.origin[s.entries[f].index] = f
        BY <4>1 DEF StackInv, OriginsOK
      <4> QED BY <4>1, <4>2, <3>1, <1>7
    <3> QED BY <3>3, <3>4 DEF OriginsOK
  <2> QED BY <2>3, <2>4
<1>11. SpillsOK(p)
  <2>1. \A f \in Entries(s) : SpilledLive(p, f) => SpilledLive(s, f)
    BY <1>7, <1>8 DEF Live, SpilledLive
  <2>2. \A f \in Entries(s) : f # e => (SpilledLive(p, f) <=> SpilledLive(s, f))
    BY <1>7 DEF Live, SpilledLive
  <2>3. CASE s.entries[e].ref_count = 1 /\ s.entries[e].spilled
    <3> DEFINE n == Len(s.free_slots)
               k == s.entries[e].index
    <3>1. /\ n \in Nat /\ k \in Nat
          /\ DOMAIN p.free_slots = 1 .. n + 1
          /\ DOMAIN s.free_slots = 1 .. n
          /\ \A i \in 1 .. n : p.free_slots[i] = s.free_slots[i]
          /\ p.free_slots[n + 1] = k
      <4>1. k \in Nat /\ s.free_slots \in Seq(Nat) /\ n \in Nat
        BY <1>2, <1>8, SimStackFields DEF LazyEntry
      <4>2. p.free_slots = Append(s.free_slots, k)
        BY <2>3, <1>7
      <4> QED BY <4>1, <4>2
    <3>2. SpilledLive(s, e) /\ ~SpilledLive(p, e)
      BY <2>3, <1>4, <1>7 DEF SpilledLive, Live
    <3>3. /\ k < s.allocation_len
          /\ \A i \in 1 .. n : s.free_slots[i] # k
          /\ \A f \in Entries(s) : SpilledLive(s, f) /\ s.entries[f].index = k => f = e
      BY <3>1, <3>2, <1>4 DEF StackInv, SpillsOK
    <3> HIDE DEF n, k
    <3>4. p.allocation_len <= MAX_SPILLS
      BY <1>7 DEF StackInv, SpillsOK
    <3>5. \A i, j \in DOMAIN p.free_slots : p.free_slots[i] = p.free_slots[j] => i = j
      BY <3>1, <3>3 DEF StackInv, SpillsOK
    <3>6. \A i \in DOMAIN p.free_slots : p.free_slots[i] < p.allocation_len
      BY <3>1, <3>3, <1>7 DEF StackInv, SpillsOK
    <3>7. ASSUME NEW f \in Entries(p), SpilledLive(p, f)
          PROVE  /\ p.entries[f].index < p.allocation_len
                 /\ \A i \in DOMAIN p.free_slots : p.free_slots[i] # p.entries[f].index
                 /\ \A g \in Entries(p) :
                      SpilledLive(p, g) /\ p.entries[g].index = p.entries[f].index => g = f
      <4>1. f \in Entries(s) /\ f # e /\ SpilledLive(s, f)
        BY <3>2, <3>7, <2>1, <1>7 DEF Entries
      <4>2. s.entries[f].index # k
        BY <4>1, <3>3
      <4> QED BY SMTT(60), <4>1, <4>2, <3>1, <2>1, <1>7 DEF StackInv, SpillsOK, Entries
    <3>8. ASSUME NEW m \in 0 .. p.allocation_len - 1
          PROVE  \/ \E i \in DOMAIN p.free_slots : p.free_slots[i] = m
                 \/ \E f \in Entries(p) : SpilledLive(p, f) /\ p.entries[f].index = m
      <4>1. CASE \E i \in 1 .. n : s.free_slots[i] = m
        <5>1. PICK i \in 1 .. n : s.free_slots[i] = m
          BY <4>1
        <5>2. i \in DOMAIN p.free_slots /\ p.free_slots[i] = m
          BY <5>1, <3>1
        <5> QED BY <5>2
      <4>2. CASE m = k
        BY <4>2, <3>1
      <4>3. CASE m # k /\ \E f \in Entries(s) : SpilledLive(s, f) /\ s.entries[f].index = m
        BY <4>3, <2>2, <1>7 DEF Entries, k
      <4>4. \/ \E i \in 1 .. n : s.free_slots[i] = m
            \/ \E f \in Entries(s) : SpilledLive(s, f) /\ s.entries[f].index = m
        BY <3>1, <1>7 DEF StackInv, SpillsOK
      <4> QED BY <4>1, <4>2, <4>3, <4>4
    <3> QED BY <3>4, <3>5, <3>6, <3>7, <3>8 DEF SpillsOK
  <2>4. CASE ~(s.entries[e].ref_count = 1 /\ s.entries[e].spilled)
    <3>1. p.free_slots = s.free_slots
      BY <2>4, <1>7
    <3>2. SpilledLive(p, e) <=> SpilledLive(s, e)
      BY <2>4, <1>4, <1>7, <1>8 DEF Live, SpilledLive
    <3>3. \A f \in Entries(s) : SpilledLive(p, f) <=> SpilledLive(s, f)
      BY <3>2, <2>2
    <3>4. /\ p.allocation_len <= MAX_SPILLS
          /\ \A i, j \in DOMAIN p.free_slots : p.free_slots[i] = p.free_slots[j] => i = j
          /\ \A i \in DOMAIN p.free_slots : p.free_slots[i] < p.allocation_len
      <4>1. /\ s.allocation_len <= MAX_SPILLS
            /\ \A i, j \in DOMAIN s.free_slots : s.free_slots[i] = s.free_slots[j] => i = j
            /\ \A i \in DOMAIN s.free_slots : s.free_slots[i] < s.allocation_len
        BY DEF StackInv, SpillsOK
      <4>2. p.allocation_len = s.allocation_len
        BY <1>7
      <4> QED BY <4>1, <4>2, <3>1
    <3>5. ASSUME NEW f \in Entries(p), SpilledLive(p, f)
          PROVE  /\ p.entries[f].index < p.allocation_len
                 /\ \A i \in DOMAIN p.free_slots : p.free_slots[i] # p.entries[f].index
                 /\ \A g \in Entries(p) :
                      SpilledLive(p, g) /\ p.entries[g].index = p.entries[f].index => g = f
      <4>1. f \in Entries(s) /\ SpilledLive(s, f) /\ Entries(p) = Entries(s)
        BY <3>3, <3>5, <1>7 DEF Entries
      <4>2. /\ s.entries[f].index < s.allocation_len
            /\ \A i \in DOMAIN s.free_slots : s.free_slots[i] # s.entries[f].index
            /\ \A g \in Entries(s) :
                 SpilledLive(s, g) /\ s.entries[g].index = s.entries[f].index => g = f
        BY <4>1 DEF StackInv, SpillsOK
      <4> QED BY <4>1, <4>2, <3>1, <3>3, <1>7
    <3>6. ASSUME NEW m \in 0 .. p.allocation_len - 1
          PROVE  \/ \E i \in DOMAIN p.free_slots : p.free_slots[i] = m
                 \/ \E f \in Entries(p) : SpilledLive(p, f) /\ p.entries[f].index = m
      <4>1. \/ \E i \in DOMAIN s.free_slots : s.free_slots[i] = m
            \/ \E f \in Entries(s) : SpilledLive(s, f) /\ s.entries[f].index = m
        BY <1>7 DEF StackInv, SpillsOK
      <4> QED BY <4>1, <3>1, <3>3, <1>7 DEF Entries
    <3> QED BY <3>4, <3>5, <3>6 DEF SpillsOK
  <2> QED BY <2>3, <2>4
<1>12. RegistersOK(p)
  BY <1>2, <1>4, <1>7, PopKeepsRegisters DEF StackInv, Local
<1> QED BY <1>1, <1>7, <1>9, <1>10, <1>11, <1>12 DEF StackInv

(* The simulated stack stays consistent when its top is popped, whatever    *)
(* the top is: the last reference to a borrow frees what it held.           *)
LEMMA PopInv ==
  ASSUME NEW s, StackInv(s), Len(s.stack) > 0
  PROVE  StackInv(pop(s))
<1>1. Top(s) \in StackSlot
  BY SimStackFields DEF StackInv, Top
<1> QED BY <1>1, PopConst, PopRegister, PopLocal DEF StackSlot

-----------------------------------------------------------------------------
(* push_const, push_register, push_local                                    *)

(* A raw push changes nothing but the stack.                                *)
LEMMA PushedShape ==
  ASSUME NEW s \in SimStack, NEW slot \in StackSlot, NEW p, p = pushed(s, slot)
  PROVE  /\ p \in SimStack
         /\ Len(p.stack) = Len(s.stack) + 1
         /\ \A i \in Positions(s) : p.stack[i] = s.stack[i]
         /\ p.stack[Len(s.stack) + 1] = slot
         /\ p.curr_register_index = s.curr_register_index
         /\ p.max_registers = s.max_registers
         /\ p.entries = s.entries
         /\ p.origin = s.origin
         /\ p.allocation_len = s.allocation_len
         /\ p.free_slots = s.free_slots
         /\ p.consts = s.consts
         /\ p.failed = s.failed
<1>1. /\ Append(s.stack, slot) \in Seq(StackSlot)
      /\ Len(Append(s.stack, slot)) = Len(s.stack) + 1
      /\ \A i \in 1 .. Len(s.stack) : Append(s.stack, slot)[i] = s.stack[i]
      /\ Append(s.stack, slot)[Len(s.stack) + 1] = slot
  BY SimStackFields
<1> QED BY <1>1 DEF pushed, SimStack, Positions

(* The positions of p are those of s and one more.                          *)
LEMMA PushPositions ==
  ASSUME NEW s \in SimStack, NEW p \in SimStack, Len(p.stack) = Len(s.stack) + 1
  PROVE  /\ Len(s.stack) \in Nat
         /\ Positions(p) = Positions(s) \cup {Len(s.stack) + 1}
         /\ Len(s.stack) + 1 \notin Positions(s)
         /\ \A i \in Positions(s) : i < Len(s.stack) + 1
BY SimStackFields DEF Positions

(* A push adds one borrower to the entry it names and none to the others.   *)
LEMMA PushBorrowers ==
  ASSUME NEW s \in SimStack, NEW p \in SimStack, NEW slot, NEW f,
         Len(p.stack) = Len(s.stack) + 1,
         \A i \in Positions(s) : p.stack[i] = s.stack[i],
         p.stack[Len(s.stack) + 1] = slot
  PROVE  Cardinality(Borrowers(p, f)) =
           IF slot = Local(f) THEN Cardinality(Borrowers(s, f)) + 1
           ELSE Cardinality(Borrowers(s, f))
<1>1. CASE slot = Local(f)
  <2>1. Borrowers(p, f) = Borrowers(s, f) \cup {Len(s.stack) + 1}
    BY <1>1, PushPositions DEF Borrowers
  <2>2. Len(s.stack) + 1 \notin Borrowers(s, f)
    BY PushPositions DEF Borrowers
  <2> QED BY ZenonT(60), <1>1, <2>1, <2>2, BorrowersFinite, FS_AddElement
<1>2. CASE slot # Local(f)
  <2>1. Borrowers(p, f) = Borrowers(s, f)
    BY <1>2, PushPositions DEF Borrowers
  <2> QED BY <1>2, <2>1
<1> QED BY <1>1, <1>2

(* Pushing a slot that is no register keeps the run of registers.           *)
LEMMA PushKeepsRegisters ==
  ASSUME NEW s \in SimStack, NEW p \in SimStack, NEW slot \in StackSlot,
         Len(p.stack) = Len(s.stack) + 1,
         \A i \in Positions(s) : p.stack[i] = s.stack[i],
         p.stack[Len(s.stack) + 1] = slot,
         p.curr_register_index = s.curr_register_index,
         p.max_registers = s.max_registers,
         slot.kind # "Register", RegistersOK(s)
  PROVE  RegistersOK(p)
<1>1. ASSUME NEW i \in Positions(p), IsRegister(p, i)
      PROVE  i \in Positions(s) /\ IsRegister(s, i) /\ p.stack[i] = s.stack[i]
  BY <1>1, PushPositions DEF IsRegister
<1>2. ASSUME NEW i \in Positions(p), IsRegister(p, i)
      PROVE  p.stack[i].id \in LocalsCount .. p.curr_register_index - 1
  BY <1>1, <1>2 DEF RegistersOK
<1>3. ASSUME NEW i \in Positions(p), NEW j \in Positions(p), i < j,
             IsRegister(p, i), IsRegister(p, j)
      PROVE  p.stack[i].id < p.stack[j].id
  <2>1. /\ i \in Positions(s) /\ IsRegister(s, i) /\ p.stack[i] = s.stack[i]
        /\ j \in Positions(s) /\ IsRegister(s, j) /\ p.stack[j] = s.stack[j]
    BY <1>1, <1>3
  <2> QED BY <1>3, <2>1 DEF RegistersOK
<1>4. ASSUME NEW r \in LocalsCount .. p.curr_register_index - 1
      PROVE  \E i \in Positions(p) : p.stack[i] = Register(r)
  <2>1. PICK i \in Positions(s) : s.stack[i] = Register(r)
    BY DEF RegistersOK
  <2> QED BY <2>1, PushPositions
<1> QED BY <1>2, <1>3, <1>4 DEF RegistersOK

(* What push_const returns: a constant slot whose interned value is v,      *)
(* whether or not it was interned before.                                   *)
LEMMA PushConstShape ==
  ASSUME NEW s \in SimStack, NEW v \in Val, NEW p, p = push_const(s, v), ~p.failed
  PROVE  /\ p \in SimStack
         /\ Len(p.stack) = Len(s.stack) + 1
         /\ \A i \in Positions(s) : p.stack[i] = s.stack[i]
         /\ p.stack[Len(s.stack) + 1] = Const(const_id(s, v))
         /\ Const(const_id(s, v)) \in StackSlot
         /\ const_id(s, v) \in 0 .. Len(p.consts) - 1
         /\ p.consts[const_id(s, v) + 1] = v
         /\ p.curr_register_index = s.curr_register_index
         /\ p.max_registers = s.max_registers
         /\ p.entries = s.entries
         /\ p.origin = s.origin
         /\ p.allocation_len = s.allocation_len
         /\ p.free_slots = s.free_slots
         /\ Len(p.consts) >= Len(s.consts)
         /\ \A i \in 1 .. Len(s.consts) : p.consts[i] = s.consts[i]
<1> DEFINE id == const_id(s, v)
<1>0. s.consts \in Seq(Val) /\ Len(s.consts) \in Nat /\ DOMAIN s.consts = 1 .. Len(s.consts)
  BY SimStackFields
<1>1. PICK c : /\ c = IF interned(s, v) THEN s
                      ELSE IF Len(s.consts) >= MAX_CONSTS THEN Fail(s)
                      ELSE [s EXCEPT !.consts = Append(s.consts, v)]
               /\ p = pushed(c, Const(id))
  BY DEF push_const
<1>2. CASE interned(s, v)
  <2>1. c = s /\ id \in Nat /\ id + 1 \in 1 .. Len(s.consts) /\ s.consts[id + 1] = v
    <3>1. PICK k \in DOMAIN s.consts : s.consts[k] = v
      BY <1>2 DEF interned
    <3> DEFINE j == CHOOSE i \in DOMAIN s.consts : s.consts[i] = v
    <3>2. j \in DOMAIN s.consts /\ s.consts[j] = v
      BY <3>1
    <3>3. id = j - 1
      BY <1>2 DEF const_id
    <3> HIDE DEF j, id
    <3>4. id + 1 = j /\ id \in Nat
      BY <1>0, <3>2, <3>3
    <3> QED BY <1>0, <1>1, <1>2, <3>2, <3>4
  <2> HIDE DEF id
  <2>2. id \in Nat
    BY <2>1, <1>0
  <2>3. Const(id) \in StackSlot
    BY <2>2 DEF Const, StackSlot
  <2>4. p = pushed(s, Const(id))
    BY <1>1, <2>1
  <2>5. /\ p \in SimStack
        /\ Len(p.stack) = Len(s.stack) + 1
        /\ \A i \in Positions(s) : p.stack[i] = s.stack[i]
        /\ p.stack[Len(s.stack) + 1] = Const(id)
        /\ p.curr_register_index = s.curr_register_index
        /\ p.max_registers = s.max_registers
        /\ p.entries = s.entries
        /\ p.origin = s.origin
        /\ p.allocation_len = s.allocation_len
        /\ p.free_slots = s.free_slots
        /\ p.consts = s.consts
    BY <2>3, <2>4, PushedShape
  <2>6. /\ id \in 0 .. Len(p.consts) - 1
        /\ p.consts[id + 1] = v
        /\ Len(p.consts) >= Len(s.consts)
        /\ \A i \in 1 .. Len(s.consts) : p.consts[i] = s.consts[i]
    BY <1>0, <2>1, <2>2, <2>5
  <2> QED BY <2>3, <2>5, <2>6 DEF id
<1>3. CASE ~interned(s, v) /\ Len(s.consts) < MAX_CONSTS
  <2>1. c = [s EXCEPT !.consts = Append(s.consts, v)]
    BY <1>0, <1>1, <1>3, LimitsAssumption
  <2>2. id = Len(s.consts)
    BY <1>3 DEF const_id
  <2> HIDE DEF id
  <2>3. Const(id) \in StackSlot
    BY <2>2, <1>0 DEF Const, StackSlot
  <2>4. /\ Append(s.consts, v) \in Seq(Val)
        /\ Len(Append(s.consts, v)) = Len(s.consts) + 1
        /\ \A i \in 1 .. Len(s.consts) : Append(s.consts, v)[i] = s.consts[i]
        /\ Append(s.consts, v)[Len(s.consts) + 1] = v
    BY <1>0
  <2>5. /\ c \in SimStack
        /\ c.consts = Append(s.consts, v)
        /\ c.stack = s.stack
        /\ c.curr_register_index = s.curr_register_index
        /\ c.max_registers = s.max_registers
        /\ c.entries = s.entries
        /\ c.origin = s.origin
        /\ c.allocation_len = s.allocation_len
        /\ c.free_slots = s.free_slots
    BY <2>1, <2>4 DEF SimStack
  <2>6. /\ p \in SimStack
        /\ Len(p.stack) = Len(s.stack) + 1
        /\ \A i \in Positions(s) : p.stack[i] = s.stack[i]
        /\ p.stack[Len(s.stack) + 1] = Const(id)
        /\ p.curr_register_index = s.curr_register_index
        /\ p.max_registers = s.max_registers
        /\ p.entries = s.entries
        /\ p.origin = s.origin
        /\ p.allocation_len = s.allocation_len
        /\ p.free_slots = s.free_slots
        /\ p.consts = Append(s.consts, v)
    <3>1. /\ p \in SimStack
          /\ Len(p.stack) = Len(c.stack) + 1
          /\ \A i \in Positions(c) : p.stack[i] = c.stack[i]
          /\ p.stack[Len(c.stack) + 1] = Const(id)
          /\ p.curr_register_index = c.curr_register_index
          /\ p.max_registers = c.max_registers
          /\ p.entries = c.entries
          /\ p.origin = c.origin
          /\ p.allocation_len = c.allocation_len
          /\ p.free_slots = c.free_slots
          /\ p.consts = c.consts
      <4>1. p = pushed(c, Const(id)) /\ c \in SimStack
        BY <1>1, <2>5
      <4> QED BY <4>1, <2>3, PushedShape
    <3> QED BY <2>5, <3>1 DEF Positions
  <2>7. /\ id \in 0 .. Len(p.consts) - 1
        /\ p.consts[id + 1] = v
        /\ Len(p.consts) >= Len(s.consts)
        /\ \A i \in 1 .. Len(s.consts) : p.consts[i] = s.consts[i]
    BY <1>0, <2>2, <2>4, <2>6
  <2> QED BY <2>3, <2>6, <2>7 DEF id
<1>4. CASE ~interned(s, v) /\ Len(s.consts) >= MAX_CONSTS
  <2>1. c = Fail(s)
    BY <1>1, <1>4
  <2>2. p.failed
    BY <1>1, <2>1 DEF Fail, pushed, SimStack
  <2> QED BY <2>2
<1> QED BY <1>0, <1>2, <1>3, <1>4, LimitsAssumption

(* push_const keeps the stack consistent.                                   *)
LEMMA PushConstInv ==
  ASSUME NEW s, StackInv(s), NEW v \in Val, ~push_const(s, v).failed
  PROVE  StackInv(push_const(s, v))
<1> DEFINE p == push_const(s, v)
           slot == Const(const_id(s, v))
<1>1. s \in SimStack /\ p = push_const(s, v) /\ ~p.failed
  BY DEF StackInv
<1> HIDE DEF p
<1>2. /\ p \in SimStack
      /\ Len(p.stack) = Len(s.stack) + 1
      /\ \A i \in Positions(s) : p.stack[i] = s.stack[i]
      /\ p.stack[Len(s.stack) + 1] = slot
      /\ slot \in StackSlot
      /\ const_id(s, v) \in 0 .. Len(p.consts) - 1
      /\ p.curr_register_index = s.curr_register_index
      /\ p.max_registers = s.max_registers
      /\ p.entries = s.entries
      /\ p.origin = s.origin
      /\ p.allocation_len = s.allocation_len
      /\ p.free_slots = s.free_slots
      /\ Len(p.consts) >= Len(s.consts)
  BY <1>1, PushConstShape
<1>3. slot.kind = "Const" /\ slot.id = const_id(s, v)
  BY DEF Const
<1> HIDE DEF slot
<1>4. RefCountsOK(p)
  <2>1. ASSUME NEW f \in Entries(p)
        PROVE  p.entries[f].ref_count = Cardinality(Borrowers(p, f))
    <3>1. slot # Local(f)
      BY <1>3 DEF Local
    <3>2. Cardinality(Borrowers(p, f)) = Cardinality(Borrowers(s, f))
      BY <3>1, <1>1, <1>2, PushBorrowers
    <3> QED BY <3>2, <1>2 DEF StackInv, RefCountsOK, Entries
  <2>2. ASSUME NEW i \in Positions(p)
        PROVE  /\ p.stack[i].kind = "Local" => p.stack[i].id \in Entries(p)
               /\ p.stack[i].kind = "Const" => p.stack[i].id \in 0 .. Len(p.consts) - 1
    <3>1. CASE i \in Positions(s)
      <4>1. Len(p.consts) \in Nat /\ Len(s.consts) \in Nat
        BY <1>1, <1>2, SimStackFields
      <4> QED BY SMTT(60), <4>1, <3>1, <1>2 DEF StackInv, RefCountsOK, Entries
    <3>2. CASE i = Len(s.stack) + 1
      BY <3>2, <1>2, <1>3
    <3> QED BY <3>1, <3>2, <1>1, <1>2, PushPositions
  <2> QED BY <2>1, <2>2 DEF RefCountsOK
<1>5. OriginsOK(p)
  BY <1>2 DEF OriginsOK, StackInv, Entries, Live, borrowed
<1>6. SpillsOK(p)
  BY <1>2 DEF SpillsOK, StackInv, Entries, SpilledLive, Live
<1>7. RegistersOK(p)
  BY <1>1, <1>2, <1>3, PushKeepsRegisters DEF StackInv
<1> QED BY <1>2, <1>4, <1>5, <1>6, <1>7 DEF StackInv, p

(* What push returns for a register: the next index, inside the limit.      *)
LEMMA PushRegisterShape ==
  ASSUME NEW s \in SimStack, NEW p, p = push_register(s), ~p.failed, RegistersOK(s)
  PROVE  /\ p \in SimStack
         /\ Len(p.stack) = Len(s.stack) + 1
         /\ \A i \in Positions(s) : p.stack[i] = s.stack[i]
         /\ p.stack[Len(s.stack) + 1] = Register(s.curr_register_index)
         /\ p.curr_register_index = s.curr_register_index + 1
         /\ p.curr_register_index <= p.max_registers
         /\ p.max_registers <= MAX_REGISTER_SLOTS
         /\ p.entries = s.entries
         /\ p.origin = s.origin
         /\ p.allocation_len = s.allocation_len
         /\ p.free_slots = s.free_slots
         /\ p.consts = s.consts
<1> DEFINE a == advanced_register_index(s)
           slot == Register(s.curr_register_index)
<1>0. /\ s.curr_register_index \in Nat /\ s.max_registers \in Nat
      /\ s.curr_register_index <= s.max_registers
      /\ s.max_registers <= MAX_REGISTER_SLOTS
  BY SimStackFields DEF RegistersOK
<1>1. p = pushed(a, slot)
  BY DEF push_register
<1>2. slot \in StackSlot
  BY <1>0 DEF Register, StackSlot
<1>3. ASSUME NEW c \in Nat, NEW m \in Nat, c = s.curr_register_index + 1,
             c <= m, m <= MAX_REGISTER_SLOTS,
             a = [s EXCEPT !.curr_register_index = c, !.max_registers = m]
      PROVE  /\ p \in SimStack
             /\ Len(p.stack) = Len(s.stack) + 1
             /\ \A i \in Positions(s) : p.stack[i] = s.stack[i]
             /\ p.stack[Len(s.stack) + 1] = slot
             /\ p.curr_register_index = c
             /\ p.max_registers = m
             /\ p.entries = s.entries
             /\ p.origin = s.origin
             /\ p.allocation_len = s.allocation_len
             /\ p.free_slots = s.free_slots
             /\ p.consts = s.consts
  <2> HIDE DEF a, slot
  <2>1. /\ a \in SimStack
        /\ a.stack = s.stack
        /\ a.curr_register_index = c
        /\ a.max_registers = m
        /\ a.entries = s.entries
        /\ a.origin = s.origin
        /\ a.allocation_len = s.allocation_len
        /\ a.free_slots = s.free_slots
        /\ a.consts = s.consts
    BY <1>3 DEF SimStack
  <2>2. /\ p \in SimStack
        /\ Len(p.stack) = Len(a.stack) + 1
        /\ \A i \in Positions(a) : p.stack[i] = a.stack[i]
        /\ p.stack[Len(a.stack) + 1] = slot
        /\ p.curr_register_index = a.curr_register_index
        /\ p.max_registers = a.max_registers
        /\ p.entries = a.entries
        /\ p.origin = a.origin
        /\ p.allocation_len = a.allocation_len
        /\ p.free_slots = a.free_slots
        /\ p.consts = a.consts
    BY SMTT(60), <1>1, <1>2, <2>1, PushedShape
  <2> QED BY <2>1, <2>2 DEF Positions
<1>4. CASE s.curr_register_index + 1 <= s.max_registers
  <2>1. a = [s EXCEPT !.curr_register_index = s.curr_register_index + 1]
    BY <1>4 DEF advanced_register_index
  <2>2. a = [s EXCEPT !.curr_register_index = s.curr_register_index + 1,
                      !.max_registers = s.max_registers]
    BY <2>1 DEF SimStack
  <2> HIDE DEF a, slot
  <2>3. PICK c, m : /\ c = s.curr_register_index + 1 /\ m = s.max_registers
                    /\ c \in Nat /\ m \in Nat /\ c <= m /\ m <= MAX_REGISTER_SLOTS
                    /\ a = [s EXCEPT !.curr_register_index = c, !.max_registers = m]
    <3>1. s.curr_register_index + 1 \in Nat
      BY <1>0
    <3> QED BY <1>0, <1>4, <2>2, <3>1
  <2>4. /\ p \in SimStack
        /\ Len(p.stack) = Len(s.stack) + 1
        /\ \A i \in Positions(s) : p.stack[i] = s.stack[i]
        /\ p.stack[Len(s.stack) + 1] = slot
        /\ p.curr_register_index = c
        /\ p.max_registers = m
        /\ p.entries = s.entries
        /\ p.origin = s.origin
        /\ p.allocation_len = s.allocation_len
        /\ p.free_slots = s.free_slots
        /\ p.consts = s.consts
    BY <1>3, <2>3
  <2> QED BY <2>3, <2>4 DEF slot
<1>6. CASE s.curr_register_index + 1 > s.max_registers /\ s.max_registers < MAX_REGISTER_SLOTS
  <2>1. a = [s EXCEPT !.curr_register_index = s.curr_register_index + 1,
                      !.max_registers = s.max_registers + 1]
    BY <1>0, <1>6, LimitsAssumption DEF advanced_register_index
  <2> HIDE DEF a, slot
  <2>2. /\ s.curr_register_index + 1 \in Nat
        /\ s.max_registers + 1 \in Nat
        /\ s.curr_register_index + 1 <= s.max_registers + 1
        /\ s.max_registers + 1 <= MAX_REGISTER_SLOTS
    BY <1>0, <1>6, LimitsAssumption
  <2>3. PICK c, m : /\ c = s.curr_register_index + 1 /\ m = s.max_registers + 1
                    /\ c \in Nat /\ m \in Nat /\ c <= m /\ m <= MAX_REGISTER_SLOTS
                    /\ a = [s EXCEPT !.curr_register_index = c, !.max_registers = m]
    BY <2>1, <2>2
  <2>4. /\ p \in SimStack
        /\ Len(p.stack) = Len(s.stack) + 1
        /\ \A i \in Positions(s) : p.stack[i] = s.stack[i]
        /\ p.stack[Len(s.stack) + 1] = slot
        /\ p.curr_register_index = c
        /\ p.max_registers = m
        /\ p.entries = s.entries
        /\ p.origin = s.origin
        /\ p.allocation_len = s.allocation_len
        /\ p.free_slots = s.free_slots
        /\ p.consts = s.consts
    BY <1>3, <2>3
  <2> QED BY <2>3, <2>4 DEF slot
<1>5. CASE s.curr_register_index + 1 > s.max_registers /\ s.max_registers >= MAX_REGISTER_SLOTS
  <2>1. a = Fail(s)
    BY <1>0, <1>5, LimitsAssumption DEF advanced_register_index
  <2>2. p.failed
    BY <1>1, <2>1 DEF Fail, pushed, SimStack
  <2> QED BY <2>2
<1> QED BY <1>0, <1>4, <1>5, <1>6, LimitsAssumption

(* push of a register keeps the stack consistent: the run of registers      *)
(* grows by one.                                                            *)
LEMMA PushRegisterInv ==
  ASSUME NEW s, StackInv(s), ~push_register(s).failed
  PROVE  StackInv(push_register(s))
<1> DEFINE p == push_register(s)
           c == s.curr_register_index
<1>1. s \in SimStack /\ p = push_register(s) /\ ~p.failed /\ RegistersOK(s)
  BY DEF StackInv
<1> HIDE DEF p
<1>2. /\ p \in SimStack
      /\ Len(p.stack) = Len(s.stack) + 1
      /\ \A i \in Positions(s) : p.stack[i] = s.stack[i]
      /\ p.stack[Len(s.stack) + 1] = Register(c)
      /\ p.curr_register_index = c + 1
      /\ p.curr_register_index <= p.max_registers
      /\ p.max_registers <= MAX_REGISTER_SLOTS
      /\ p.entries = s.entries
      /\ p.origin = s.origin
      /\ p.allocation_len = s.allocation_len
      /\ p.free_slots = s.free_slots
      /\ p.consts = s.consts
  BY <1>1, PushRegisterShape
<1>3. c \in Nat /\ LocalsCount \in Nat /\ LocalsCount <= c
  BY <1>1, SimStackFields, LimitsAssumption DEF RegistersOK
<1> HIDE DEF c
<1>4. RefCountsOK(p)
  <2>1. ASSUME NEW f \in Entries(p)
        PROVE  p.entries[f].ref_count = Cardinality(Borrowers(p, f))
    <3>1. Register(c) # Local(f)
      BY DEF Local, Register
    <3>2. Cardinality(Borrowers(p, f)) = Cardinality(Borrowers(s, f))
      BY <3>1, <1>1, <1>2, PushBorrowers
    <3> QED BY <3>2, <1>2 DEF StackInv, RefCountsOK, Entries
  <2>2. ASSUME NEW i \in Positions(p)
        PROVE  /\ p.stack[i].kind = "Local" => p.stack[i].id \in Entries(p)
               /\ p.stack[i].kind = "Const" => p.stack[i].id \in 0 .. Len(p.consts) - 1
    <3>1. CASE i \in Positions(s)
      BY <3>1, <1>2 DEF StackInv, RefCountsOK, Entries
    <3>2. CASE i = Len(s.stack) + 1
      BY <3>2, <1>2 DEF Register
    <3> QED BY <3>1, <3>2, <1>1, <1>2, PushPositions
  <2> QED BY <2>1, <2>2 DEF RefCountsOK
<1>5. OriginsOK(p)
  BY <1>2 DEF OriginsOK, StackInv, Entries, Live, borrowed
<1>6. SpillsOK(p)
  BY <1>2 DEF SpillsOK, StackInv, Entries, SpilledLive, Live
<1>7. RegistersOK(p)
  <2>1. ASSUME NEW i \in Positions(p), IsRegister(p, i)
        PROVE  /\ p.stack[i].id \in LocalsCount .. p.curr_register_index - 1
               /\ i = Len(s.stack) + 1 => p.stack[i].id = c
               /\ i # Len(s.stack) + 1 =>
                    /\ i \in Positions(s) /\ IsRegister(s, i) /\ p.stack[i] = s.stack[i]
                    /\ p.stack[i].id \in LocalsCount .. c - 1
    <3>1. CASE i \in Positions(s)
      <4>1. IsRegister(s, i) /\ p.stack[i] = s.stack[i]
        BY <2>1, <3>1, <1>2 DEF IsRegister
      <4>2. s.stack[i].id \in LocalsCount .. c - 1
        BY <4>1, <3>1, <1>1 DEF RegistersOK, c
      <4>3. i # Len(s.stack) + 1
        BY <3>1, <1>1, <1>2, PushPositions
      <4> QED BY <4>1, <4>2, <4>3, <3>1, <1>2, <1>3
    <3>2. CASE i = Len(s.stack) + 1
      BY <3>2, <1>2, <1>3 DEF Register
    <3> QED BY <3>1, <3>2, <1>1, <1>2, PushPositions
  <2>2. ASSUME NEW i \in Positions(p), NEW j \in Positions(p), i < j,
               IsRegister(p, i), IsRegister(p, j)
        PROVE  p.stack[i].id < p.stack[j].id
    <3>1. i # Len(s.stack) + 1
      BY <2>2, <1>1, <1>2, SimStackFields DEF Positions
    <3>2. CASE j = Len(s.stack) + 1
      <4>1. p.stack[i].id \in LocalsCount .. c - 1
        BY <3>1, <2>1, <2>2
      <4>2. p.stack[j].id = c
        BY <3>2, <2>1, <2>2
      <4> QED BY <4>1, <4>2, <1>3
    <3>3. CASE j # Len(s.stack) + 1
      <4>1. /\ i \in Positions(s) /\ IsRegister(s, i) /\ p.stack[i] = s.stack[i]
            /\ j \in Positions(s) /\ IsRegister(s, j) /\ p.stack[j] = s.stack[j]
        BY <3>1, <3>3, <2>1, <2>2
      <4> QED BY <4>1, <2>2, <1>1 DEF RegistersOK
    <3> QED BY <3>2, <3>3
  <2>3. ASSUME NEW r \in LocalsCount .. p.curr_register_index - 1
        PROVE  \E i \in Positions(p) : p.stack[i] = Register(r)
    <3>1. CASE r = c
      BY <3>1, <1>1, <1>2, PushPositions
    <3>2. CASE r # c
      <4>1. r \in LocalsCount .. c - 1
        BY <3>2, <1>2, <1>3
      <4>2. PICK i \in Positions(s) : s.stack[i] = Register(r)
        BY <4>1, <1>1 DEF RegistersOK, c
      <4> QED BY <4>2, <1>1, <1>2, PushPositions
    <3> QED BY <3>1, <3>2
  <2>4. LocalsCount <= p.curr_register_index
    BY <1>2, <1>3
  <2> QED BY <2>1, <2>2, <2>3, <2>4, <1>2 DEF RegistersOK
<1> QED BY <1>2, <1>4, <1>5, <1>6, <1>7 DEF StackInv, p

(* push_lazy shares the live borrow of x, or starts a new one.              *)
LEMMA PushLazyShape ==
  ASSUME NEW s \in SimStack, OriginsOK(s), NEW x \in Locals,
         NEW l, l = push_lazy(s, x), NEW e, e = borrow(s, x)
  PROVE  /\ l \in SimStack
         /\ l.stack = s.stack
         /\ l.curr_register_index = s.curr_register_index
         /\ l.max_registers = s.max_registers
         /\ l.consts = s.consts
         /\ l.failed = s.failed
         /\ l.allocation_len = s.allocation_len
         /\ l.free_slots = s.free_slots
         /\ e \in Entries(l)
         /\ Entries(l) = Entries(s) \cup {e}
         /\ Len(l.entries) >= Len(s.entries)
         /\ \A f \in Entries(s) :
              /\ l.entries[f].spilled = s.entries[f].spilled
              /\ l.entries[f].index = s.entries[f].index
              /\ f # e => l.entries[f].ref_count = s.entries[f].ref_count
         /\ l.entries[e].index = x /\ ~l.entries[e].spilled
         /\ l.entries[e].ref_count = IF e \in Entries(s) THEN s.entries[e].ref_count + 1 ELSE 1
         /\ \A y \in Locals : l.origin[y] = IF y = x THEN e ELSE s.origin[y]
         /\ e \in Nat \ {0}
         /\ e \in Entries(s) => s.origin[x] = e
         /\ e \notin Entries(s) => s.origin[x] = NoEntry
<1>0. /\ s.entries \in Seq(LazyEntry) /\ Len(s.entries) \in Nat
      /\ s.origin \in [Locals -> Nat] /\ x \in Nat
  BY SimStackFields, LimitsAssumption DEF Locals
<1>1. CASE s.origin[x] # NoEntry
  <2> DEFINE n == [s.entries[e] EXCEPT !.ref_count = s.entries[e].ref_count + 1]
             d == [s.entries EXCEPT ![e] = n]
  <2>1. e = s.origin[x] /\ e \in Entries(s) /\ ~s.entries[e].spilled /\ s.entries[e].index = x
    BY <1>1 DEF borrow, OriginsOK, borrowed
  <2>2. l = [s EXCEPT !.entries = d]
    BY <1>1, <2>1 DEF push_lazy
  <2>3. s.entries[e] \in LazyEntry
    BY <1>0, <2>1 DEF Entries
  <2>4. /\ n \in LazyEntry
        /\ n.spilled = s.entries[e].spilled
        /\ n.index = s.entries[e].index
        /\ n.ref_count = s.entries[e].ref_count + 1
    BY <2>3 DEF LazyEntry
  <2> HIDE DEF n
  <2>5. /\ d \in Seq(LazyEntry) /\ Len(d) = Len(s.entries)
        /\ \A f \in Entries(s) : d[f] = IF f = e THEN n ELSE s.entries[f]
    BY <1>0, <2>1, <2>4 DEF Entries
  <2> HIDE DEF d
  <2>6. /\ l \in SimStack
        /\ l.stack = s.stack
        /\ l.curr_register_index = s.curr_register_index
        /\ l.max_registers = s.max_registers
        /\ l.consts = s.consts
        /\ l.failed = s.failed
        /\ l.allocation_len = s.allocation_len
        /\ l.free_slots = s.free_slots
        /\ l.entries = d
        /\ l.origin = s.origin
    BY <2>2, <2>5 DEF SimStack
  <2>7. Entries(l) = Entries(s)
    BY <2>5, <2>6 DEF Entries
  <2>8. e \in Nat \ {0}
    BY <1>0, <2>1 DEF Entries
  <2> QED BY <1>0, <2>1, <2>4, <2>5, <2>6, <2>7, <2>8
<1>2. CASE s.origin[x] = NoEntry
  <2> DEFINE n == [spilled |-> FALSE, index |-> x, ref_count |-> 1]
             d == Append(s.entries, n)
             o == [s.origin EXCEPT ![x] = e]
  <2>1. e = Len(s.entries) + 1 /\ e \in Nat \ {0} /\ e \notin Entries(s)
    BY <1>0, <1>2 DEF borrow, Entries
  <2>2. l = [s EXCEPT !.entries = d, !.origin = o]
    BY <1>2, <2>1 DEF push_lazy
  <2>3. n \in LazyEntry /\ ~n.spilled /\ n.index = x /\ n.ref_count = 1
    BY <1>0 DEF LazyEntry
  <2> HIDE DEF n
  <2>4. /\ d \in Seq(LazyEntry) /\ Len(d) = Len(s.entries) + 1
        /\ \A f \in Entries(s) : d[f] = s.entries[f]
        /\ d[e] = n
    BY <1>0, <2>1, <2>3 DEF Entries
  <2>5. /\ o \in [Locals -> Nat]
        /\ \A y \in Locals : o[y] = IF y = x THEN e ELSE s.origin[y]
    BY <1>0, <2>1
  <2> HIDE DEF d, o
  <2>6. /\ l \in SimStack
        /\ l.stack = s.stack
        /\ l.curr_register_index = s.curr_register_index
        /\ l.max_registers = s.max_registers
        /\ l.consts = s.consts
        /\ l.failed = s.failed
        /\ l.allocation_len = s.allocation_len
        /\ l.free_slots = s.free_slots
        /\ l.entries = d
        /\ l.origin = o
    BY <2>2, <2>4, <2>5 DEF SimStack
  <2>7. Entries(l) = Entries(s) \cup {e}
    BY <1>0, <2>1, <2>4, <2>6 DEF Entries
  <2> QED BY <1>0, <1>2, <2>1, <2>3, <2>4, <2>5, <2>6, <2>7
<1> QED BY <1>1, <1>2

(* push_local keeps the stack consistent, whether it shares a live borrow   *)
(* or allocates an entry.                                                   *)
LEMMA PushLocalInv ==
  ASSUME NEW s, StackInv(s), NEW x \in Locals
  PROVE  StackInv(push_local(s, x))
<1> DEFINE l == push_lazy(s, x)
           e == borrow(s, x)
           slot == Local(e)
           p == push_local(s, x)
<1>1. s \in SimStack /\ OriginsOK(s) /\ RefCountsOK(s) /\ p = pushed(l, slot)
  BY DEF StackInv, push_local
<1>2. l = push_lazy(s, x) /\ e = borrow(s, x)
  OBVIOUS
<1> HIDE DEF l, e, p
<1>3. /\ l \in SimStack
      /\ l.stack = s.stack
      /\ l.curr_register_index = s.curr_register_index
      /\ l.max_registers = s.max_registers
      /\ l.consts = s.consts
      /\ l.failed = s.failed
      /\ l.allocation_len = s.allocation_len
      /\ l.free_slots = s.free_slots
      /\ e \in Entries(l)
      /\ Entries(l) = Entries(s) \cup {e}
      /\ Len(l.entries) >= Len(s.entries)
      /\ \A f \in Entries(s) :
           /\ l.entries[f].spilled = s.entries[f].spilled
           /\ l.entries[f].index = s.entries[f].index
           /\ f # e => l.entries[f].ref_count = s.entries[f].ref_count
      /\ l.entries[e].index = x /\ ~l.entries[e].spilled
      /\ l.entries[e].ref_count = IF e \in Entries(s) THEN s.entries[e].ref_count + 1 ELSE 1
      /\ \A y \in Locals : l.origin[y] = IF y = x THEN e ELSE s.origin[y]
      /\ e \in Nat \ {0}
      /\ e \in Entries(s) => s.origin[x] = e
      /\ e \notin Entries(s) => s.origin[x] = NoEntry
  BY <1>1, <1>2, PushLazyShape
<1>4. slot \in StackSlot /\ slot.kind = "Local" /\ slot.id = e
  BY <1>3 DEF Local, StackSlot
<1> HIDE DEF slot
<1>5. /\ p \in SimStack
      /\ Len(p.stack) = Len(s.stack) + 1
      /\ \A i \in Positions(s) : p.stack[i] = s.stack[i]
      /\ p.stack[Len(s.stack) + 1] = slot
      /\ p.curr_register_index = s.curr_register_index
      /\ p.max_registers = s.max_registers
      /\ p.entries = l.entries
      /\ p.origin = l.origin
      /\ p.allocation_len = s.allocation_len
      /\ p.free_slots = s.free_slots
      /\ p.consts = s.consts
      /\ Entries(p) = Entries(s) \cup {e}
  <2>1. p = pushed(l, slot) /\ l \in SimStack /\ slot \in StackSlot
    BY <1>1, <1>3, <1>4
  <2>2. /\ p \in SimStack
        /\ Len(p.stack) = Len(l.stack) + 1
        /\ \A i \in Positions(l) : p.stack[i] = l.stack[i]
        /\ p.stack[Len(l.stack) + 1] = slot
        /\ p.curr_register_index = l.curr_register_index
        /\ p.max_registers = l.max_registers
        /\ p.entries = l.entries
        /\ p.origin = l.origin
        /\ p.allocation_len = l.allocation_len
        /\ p.free_slots = l.free_slots
        /\ p.consts = l.consts
    BY <2>1, PushedShape
  <2>3. Positions(l) = Positions(s) /\ Entries(p) = Entries(l)
    BY <1>3, <2>2 DEF Positions, Entries
  <2> QED BY <1>3, <2>2, <2>3
<1>6. ASSUME NEW f \in Entries(s)
      PROVE  s.entries[f].ref_count \in Nat
  <2>1. s.entries[f] \in LazyEntry
    BY <1>1, SimStackFields DEF Entries
  <2> QED BY <2>1 DEF LazyEntry
<1>7. RefCountsOK(p)
  <2>1. ASSUME NEW f \in Entries(p)
        PROVE  p.entries[f].ref_count = Cardinality(Borrowers(p, f))
    <3>1. Cardinality(Borrowers(p, f)) =
            IF slot = Local(f) THEN Cardinality(Borrowers(s, f)) + 1
            ELSE Cardinality(Borrowers(s, f))
      BY <1>1, <1>5, PushBorrowers
    <3>2. slot = Local(f) <=> f = e
      BY DEF Local, slot
    <3>3. CASE f \in Entries(s)
      <4>1. s.entries[f].ref_count = Cardinality(Borrowers(s, f))
        BY <3>3, <1>1 DEF RefCountsOK
      <4>2. CASE f = e
        BY <4>1, <4>2, <3>1, <3>2, <3>3, <1>3, <1>5
      <4>3. CASE f # e
        BY <4>1, <4>3, <3>1, <3>2, <3>3, <1>3, <1>5
      <4> QED BY <4>2, <4>3
    <3>4. CASE f = e /\ f \notin Entries(s)
      <4>1. Borrowers(s, f) = {}
        <5>1. ASSUME NEW i \in Positions(s), s.stack[i] = Local(f)
              PROVE  FALSE
          BY <5>1, <3>4, <1>1 DEF RefCountsOK, Local
        <5> QED BY <5>1 DEF Borrowers
      <4> QED BY <4>1, <3>1, <3>2, <3>4, <1>3, <1>5, FS_EmptySet
    <3> QED BY <3>3, <3>4, <1>5
  <2>2. ASSUME NEW i \in Positions(p)
        PROVE  /\ p.stack[i].kind = "Local" => p.stack[i].id \in Entries(p)
               /\ p.stack[i].kind = "Const" => p.stack[i].id \in 0 .. Len(p.consts) - 1
    <3>1. CASE i \in Positions(s)
      BY <3>1, <1>1, <1>5 DEF RefCountsOK
    <3>2. CASE i = Len(s.stack) + 1
      BY <3>2, <1>4, <1>5
    <3> QED BY <3>1, <3>2, <1>1, <1>5, PushPositions
  <2> QED BY <2>1, <2>2 DEF RefCountsOK
<1>8. /\ \A f \in Entries(s) : f # e => (Live(p, f) <=> Live(s, f))
      /\ Live(p, e)
  <2>1. \A f \in Entries(s) : f # e => (Live(p, f) <=> Live(s, f))
    BY <1>3, <1>5 DEF Live
  <2>2. p.entries[e].ref_count = IF e \in Entries(s) THEN s.entries[e].ref_count + 1 ELSE 1
    BY <1>3, <1>5
  <2>3. p.entries[e].ref_count > 0
    BY <2>2, <1>6
  <2> QED BY <2>1, <2>3 DEF Live
<1>9. OriginsOK(p)
  <2>1. ASSUME NEW y \in Locals, borrowed(p, y)
        PROVE  /\ p.origin[y] \in Entries(p)
               /\ Live(p, p.origin[y])
               /\ ~p.entries[p.origin[y]].spilled
               /\ p.entries[p.origin[y]].index = y
    <3>1. CASE y = x
      BY <3>1, <1>3, <1>5, <1>8
    <3>2. CASE y # x
      <4>1. p.origin[y] = s.origin[y] /\ borrowed(s, y)
        BY <3>2, <2>1, <1>3, <1>5 DEF borrowed
      <4>2. /\ s.origin[y] \in Entries(s)
            /\ Live(s, s.origin[y])
            /\ ~s.entries[s.origin[y]].spilled
            /\ s.entries[s.origin[y]].index = y
        BY <4>1, <1>1 DEF OriginsOK
      <4>3. s.origin[y] # e
        BY <4>2, <3>2, <1>3
      <4> QED BY ZenonT(30), <4>1, <4>2, <4>3, <1>3, <1>5, <1>8
    <3> QED BY <3>1, <3>2
  <2>2. ASSUME NEW f \in Entries(p), Live(p, f), ~p.entries[f].spilled
        PROVE  p.entries[f].index \in Locals /\ p.origin[p.entries[f].index] = f
    <3>1. CASE f = e
      BY <3>1, <1>3, <1>5
    <3>2. CASE f # e
      <4>1. f \in Entries(s) /\ Live(s, f) /\ ~s.entries[f].spilled
        BY <3>2, <2>2, <1>3, <1>5, <1>8
      <4>2. s.entries[f].index \in Locals /\ s.origin[s.entries[f].index] = f
        BY <4>1, <1>1 DEF OriginsOK
      <4>3. s.entries[f].index # x
        BY <4>1, <4>2, <3>2, <1>3 DEF NoEntry, Entries
      <4> QED BY ZenonT(30), <4>1, <4>2, <4>3, <1>3, <1>5
    <3> QED BY <3>1, <3>2
  <2> QED BY <2>1, <2>2 DEF OriginsOK
<1>10. SpillsOK(p)
  <2>1. \A f \in Entries(p) : SpilledLive(p, f) =>
          f \in Entries(s) /\ SpilledLive(s, f) /\ p.entries[f].index = s.entries[f].index
    BY <1>3, <1>5, <1>8 DEF SpilledLive
  <2>2. \A f \in Entries(s) : SpilledLive(s, f) =>
          f \in Entries(p) /\ SpilledLive(p, f) /\ p.entries[f].index = s.entries[f].index
    BY <1>3, <1>5, <1>8 DEF SpilledLive
  <2>3. SpillsOK(s)
    BY DEF StackInv
  <2>4. /\ p.allocation_len <= MAX_SPILLS
        /\ \A i, j \in DOMAIN p.free_slots : p.free_slots[i] = p.free_slots[j] => i = j
        /\ \A i \in DOMAIN p.free_slots : p.free_slots[i] < p.allocation_len
    BY <2>3, <1>5 DEF SpillsOK
  <2>5. ASSUME NEW f \in Entries(p), SpilledLive(p, f)
        PROVE  /\ p.entries[f].index < p.allocation_len
               /\ \A i \in DOMAIN p.free_slots : p.free_slots[i] # p.entries[f].index
               /\ \A g \in Entries(p) :
                    SpilledLive(p, g) /\ p.entries[g].index = p.entries[f].index => g = f
    BY <2>1, <2>3, <2>5, <1>5 DEF SpillsOK
  <2>6. ASSUME NEW m \in 0 .. p.allocation_len - 1
        PROVE  \/ \E i \in DOMAIN p.free_slots : p.free_slots[i] = m
               \/ \E f \in Entries(p) : SpilledLive(p, f) /\ p.entries[f].index = m
    <3>1. \/ \E i \in DOMAIN s.free_slots : s.free_slots[i] = m
          \/ \E f \in Entries(s) : SpilledLive(s, f) /\ s.entries[f].index = m
      BY <2>3, <1>5 DEF SpillsOK
    <3> QED BY <3>1, <2>2, <1>5
  <2> QED BY <2>4, <2>5, <2>6 DEF SpillsOK
<1>11. RegistersOK(p)
  BY <1>1, <1>4, <1>5, PushKeepsRegisters DEF StackInv
<1> QED BY <1>5, <1>7, <1>9, <1>10, <1>11 DEF StackInv, p

-----------------------------------------------------------------------------
(* set_lazy                                                                 *)

(* The reserved slot is one nobody holds, and it leaves the free list.      *)
LEMMA ReserveShape ==
  ASSUME NEW s \in SimStack, SpillsOK(s), NEW r, r = reserve_slot(s), ~r.failed,
         NEW k, k = reserved(s)
  PROVE  /\ r \in SimStack
         /\ r.stack = s.stack
         /\ r.curr_register_index = s.curr_register_index
         /\ r.max_registers = s.max_registers
         /\ r.entries = s.entries
         /\ r.origin = s.origin
         /\ r.consts = s.consts
         /\ k \in Nat /\ k < r.allocation_len /\ r.allocation_len <= MAX_SPILLS
         /\ s.allocation_len <= r.allocation_len
         /\ \A m \in 0 .. r.allocation_len - 1 : m < s.allocation_len \/ m = k
         /\ Len(r.free_slots) <= Len(s.free_slots)
         /\ \A i \in DOMAIN r.free_slots :
              /\ i \in DOMAIN s.free_slots
              /\ r.free_slots[i] = s.free_slots[i]
              /\ r.free_slots[i] # k
         /\ \A i \in DOMAIN s.free_slots : s.free_slots[i] # k => i \in DOMAIN r.free_slots
         /\ \A e \in Entries(s) : SpilledLive(s, e) => s.entries[e].index # k
<1> DEFINE n == Len(s.free_slots)
<1>0. /\ s.free_slots \in Seq(Nat) /\ n \in Nat /\ DOMAIN s.free_slots = 1 .. n
      /\ s.allocation_len \in Nat
  BY SimStackFields
<1>1. CASE s.free_slots # <<>>
  <2> DEFINE f == SubSeq(s.free_slots, 1, n - 1)
  <2>1. n \in Nat \ {0} /\ k = s.free_slots[n] /\ k \in Nat
    BY <1>0, <1>1 DEF reserved
  <2>2. r = [s EXCEPT !.free_slots = f]
    BY <1>1 DEF reserve_slot
  <2>3. /\ f \in Seq(Nat) /\ Len(f) = n - 1 /\ DOMAIN f = 1 .. n - 1
        /\ \A i \in 1 .. n - 1 : f[i] = s.free_slots[i]
    BY SMTT(60), <1>0, <2>1
  <2> HIDE DEF f
  <2>4. /\ r \in SimStack
        /\ r.stack = s.stack
        /\ r.curr_register_index = s.curr_register_index
        /\ r.max_registers = s.max_registers
        /\ r.entries = s.entries
        /\ r.origin = s.origin
        /\ r.consts = s.consts
        /\ r.allocation_len = s.allocation_len
        /\ r.free_slots = f
    BY <2>2, <2>3 DEF SimStack
  <2>5. k < s.allocation_len /\ s.allocation_len <= MAX_SPILLS
    BY SMTT(30), <1>0, <2>1 DEF SpillsOK
  <2>6. \A i \in 1 .. n - 1 : s.free_slots[i] # k
    <3>1. ASSUME NEW i \in 1 .. n - 1, s.free_slots[i] = k
          PROVE  FALSE
      <4>1. i \in DOMAIN s.free_slots /\ n \in DOMAIN s.free_slots /\ i # n
        BY <1>0, <2>1
      <4> QED BY <4>1, <3>1, <2>1 DEF SpillsOK
    <3> QED BY <3>1
  <2>7. \A e \in Entries(s) : SpilledLive(s, e) => s.entries[e].index # k
    BY <1>0, <2>1 DEF SpillsOK
  <2>8. \A i \in DOMAIN r.free_slots :
              /\ i \in DOMAIN s.free_slots
              /\ r.free_slots[i] = s.free_slots[i]
              /\ r.free_slots[i] # k
    <3>1. \A i \in 1 .. n - 1 : i \in DOMAIN s.free_slots
      BY <1>0
    <3> QED BY <3>1, <2>3, <2>4, <2>6
  <2>9. \A i \in DOMAIN s.free_slots : s.free_slots[i] # k => i \in DOMAIN r.free_slots
    <3>1. \A i \in DOMAIN s.free_slots : s.free_slots[i] # k => i \in 1 .. n - 1
      BY <1>0, <2>1
    <3> QED BY <3>1, <2>3, <2>4
  <2>10. \A m \in 0 .. r.allocation_len - 1 : m < s.allocation_len
    BY <1>0, <2>4
  <2>11. Len(r.free_slots) <= Len(s.free_slots)
    BY <1>0, <2>3, <2>4
  <2>12. s.allocation_len <= r.allocation_len /\ k \in Nat
    BY <1>0, <2>1, <2>4
  <2> QED BY <2>4, <2>5, <2>7, <2>8, <2>9, <2>10, <2>11, <2>12
<1>2. CASE s.free_slots = <<>> /\ s.allocation_len < MAX_SPILLS
  <2> DEFINE a == s.allocation_len + 1
  <2>1. k = s.allocation_len /\ a \in Nat /\ a <= MAX_SPILLS /\ k < a
    BY <1>0, <1>2, LimitsAssumption DEF reserved
  <2>2. r = [s EXCEPT !.allocation_len = a]
    BY <1>0, <1>2, LimitsAssumption DEF reserve_slot
  <2>3. a = s.allocation_len + 1
    OBVIOUS
  <2> HIDE DEF a
  <2>4. /\ r \in SimStack
        /\ r.stack = s.stack
        /\ r.curr_register_index = s.curr_register_index
        /\ r.max_registers = s.max_registers
        /\ r.entries = s.entries
        /\ r.origin = s.origin
        /\ r.consts = s.consts
        /\ r.allocation_len = a
        /\ r.free_slots = s.free_slots
    BY <2>1, <2>2 DEF SimStack
  <2>5. DOMAIN s.free_slots = {}
    BY <1>0, <1>2
  <2>6. \A m \in 0 .. r.allocation_len - 1 : m < s.allocation_len \/ m = k
    BY <1>0, <2>1, <2>3, <2>4
  <2>7. ASSUME NEW e \in Entries(s), SpilledLive(s, e)
        PROVE  s.entries[e].index # k
    <3>1. s.entries[e].index < s.allocation_len
      BY <2>7 DEF SpillsOK
    <3> QED BY <3>1, <1>0, <2>1
  <2>8. s.allocation_len <= r.allocation_len /\ Len(r.free_slots) <= Len(s.free_slots)
    BY <1>0, <2>1, <2>3, <2>4
  <2> QED BY <1>0, <2>1, <2>4, <2>5, <2>6, <2>7, <2>8
<1>3. CASE s.free_slots = <<>> /\ s.allocation_len >= MAX_SPILLS
  <2>1. r = Fail(s)
    BY <1>3 DEF reserve_slot
  <2>2. r.failed
    BY <2>1 DEF Fail, SimStack
  <2> QED BY <2>2
<1> QED BY <1>0, <1>1, <1>2, <1>3, LimitsAssumption

(* What set_lazy does to a borrowed local: its entry moves to a slot no     *)
(* live entry holds, and its origin is cleared.                             *)
LEMMA SetLazyShape ==
  ASSUME NEW s, StackInv(s), NEW x \in Locals, borrowed(s, x),
         NEW p, p = set_lazy(s, x), ~p.failed,
         NEW e, e = s.origin[x], NEW k, k = reserved(s)
  PROVE  /\ p \in SimStack
         /\ p.stack = s.stack
         /\ p.curr_register_index = s.curr_register_index
         /\ p.max_registers = s.max_registers
         /\ p.consts = s.consts
         /\ e \in Entries(s) /\ Live(s, e) /\ ~s.entries[e].spilled /\ s.entries[e].index = x
         /\ Len(p.entries) = Len(s.entries)
         /\ \A f \in Entries(s) :
              /\ p.entries[f].ref_count = s.entries[f].ref_count
              /\ f # e => p.entries[f].spilled = s.entries[f].spilled
              /\ f # e => p.entries[f].index = s.entries[f].index
         /\ p.entries[e].spilled /\ p.entries[e].index = k
         /\ \A y \in Locals : p.origin[y] = IF y = x THEN NoEntry ELSE s.origin[y]
         /\ k \in Nat /\ k < p.allocation_len /\ p.allocation_len <= MAX_SPILLS
         /\ s.allocation_len <= p.allocation_len
         /\ \A m \in 0 .. p.allocation_len - 1 : m < s.allocation_len \/ m = k
         /\ \A i \in DOMAIN p.free_slots :
              /\ i \in DOMAIN s.free_slots
              /\ p.free_slots[i] = s.free_slots[i]
              /\ p.free_slots[i] # k
         /\ \A i \in DOMAIN s.free_slots : s.free_slots[i] # k => i \in DOMAIN p.free_slots
         /\ \A f \in Entries(s) : SpilledLive(s, f) => s.entries[f].index # k
<1> DEFINE r == reserve_slot(s)
           n == [s.entries[e] EXCEPT !.spilled = TRUE, !.index = k]
           d == [s.entries EXCEPT ![e] = n]
           o == [s.origin EXCEPT ![x] = NoEntry]
<1>1. s \in SimStack /\ SpillsOK(s) /\ s.origin \in [Locals -> Nat] /\ s.entries \in Seq(LazyEntry)
  BY SimStackFields DEF StackInv
<1>2. p = [r EXCEPT !.entries = d, !.origin = o]
  BY DEF set_lazy
<1>3. e \in Entries(s) /\ Live(s, e) /\ ~s.entries[e].spilled /\ s.entries[e].index = x
  BY DEF StackInv, OriginsOK
<1>4. ~r.failed
  <2>1. r \in SimStack
    <3>1. /\ s.free_slots \in Seq(Nat) /\ s.allocation_len \in Nat
          /\ s.allocation_len + 1 \in Nat
      BY <1>1, SimStackFields
    <3>2. Fail(s) \in SimStack
      BY <1>1 DEF Fail, SimStack
    <3>3. [s EXCEPT !.allocation_len = s.allocation_len + 1] \in SimStack
      BY <1>1, <3>1 DEF SimStack
    <3>4. CASE s.free_slots # <<>>
      <4>1. SubSeq(s.free_slots, 1, Len(s.free_slots) - 1) \in Seq(Nat)
        BY SMTT(30), <3>1, <3>4
      <4>2. [s EXCEPT !.free_slots = SubSeq(s.free_slots, 1, Len(s.free_slots) - 1)] \in SimStack
        BY <1>1, <4>1 DEF SimStack
      <4> QED BY <3>4, <4>2 DEF reserve_slot
    <3>5. CASE s.free_slots = <<>>
      BY <3>2, <3>3, <3>5 DEF reserve_slot
    <3> QED BY <3>4, <3>5
  <2> HIDE DEF r, d, o
  <2> QED BY <1>2, <2>1 DEF SimStack
<1>5. r = reserve_slot(s)
  OBVIOUS
<1> HIDE DEF r
<1>6. /\ r \in SimStack
      /\ r.stack = s.stack
      /\ r.curr_register_index = s.curr_register_index
      /\ r.max_registers = s.max_registers
      /\ r.consts = s.consts
      /\ k \in Nat /\ k < r.allocation_len /\ r.allocation_len <= MAX_SPILLS
      /\ s.allocation_len <= r.allocation_len
      /\ \A m \in 0 .. r.allocation_len - 1 : m < s.allocation_len \/ m = k
      /\ \A i \in DOMAIN r.free_slots :
           /\ i \in DOMAIN s.free_slots
           /\ r.free_slots[i] = s.free_slots[i]
           /\ r.free_slots[i] # k
      /\ \A i \in DOMAIN s.free_slots : s.free_slots[i] # k => i \in DOMAIN r.free_slots
      /\ \A f \in Entries(s) : SpilledLive(s, f) => s.entries[f].index # k
  BY <1>1, <1>4, <1>5, ReserveShape
<1>7. s.entries[e] \in LazyEntry
  BY <1>1, <1>3 DEF Entries
<1>8. n \in LazyEntry /\ n.spilled /\ n.index = k /\ n.ref_count = s.entries[e].ref_count
  BY <1>6, <1>7 DEF LazyEntry
<1> HIDE DEF n
<1>9. /\ d \in Seq(LazyEntry) /\ Len(d) = Len(s.entries)
      /\ \A f \in Entries(s) : d[f] = IF f = e THEN n ELSE s.entries[f]
  BY <1>1, <1>3, <1>8 DEF Entries
<1>10. /\ o \in [Locals -> Nat]
       /\ \A y \in Locals : o[y] = IF y = x THEN NoEntry ELSE s.origin[y]
  BY <1>1 DEF NoEntry
<1> HIDE DEF d, o
<1>11. /\ p \in SimStack
       /\ p.stack = r.stack
       /\ p.curr_register_index = r.curr_register_index
       /\ p.max_registers = r.max_registers
       /\ p.consts = r.consts
       /\ p.allocation_len = r.allocation_len
       /\ p.free_slots = r.free_slots
       /\ p.entries = d
       /\ p.origin = o
  <2>1. r \in SimStack /\ d \in Seq(LazyEntry) /\ o \in [Locals -> Nat]
    BY <1>6, <1>9, <1>10
  <2> QED BY <2>1, <1>2 DEF SimStack
<1>12. /\ Len(p.entries) = Len(s.entries)
       /\ \A f \in Entries(s) :
            /\ p.entries[f].ref_count = s.entries[f].ref_count
            /\ f # e => p.entries[f].spilled = s.entries[f].spilled
            /\ f # e => p.entries[f].index = s.entries[f].index
       /\ p.entries[e].spilled /\ p.entries[e].index = k
  BY <1>3, <1>8, <1>9, <1>11
<1>13. \A y \in Locals : p.origin[y] = IF y = x THEN NoEntry ELSE s.origin[y]
  BY <1>10, <1>11
<1> QED BY <1>3, <1>6, <1>11, <1>12, <1>13

(* Redirecting a borrow to a spill slot keeps the simulated stack           *)
(* consistent: the slot was free, and the local has no borrow left.         *)
LEMMA SetLazyInv ==
  ASSUME NEW s, StackInv(s), NEW x \in Locals, ~set_lazy(s, x).failed
  PROVE  StackInv(set_lazy(s, x))
<1>1. CASE ~borrowed(s, x)
  BY <1>1 DEF set_lazy
<1>2. CASE borrowed(s, x)
  <2> DEFINE p == set_lazy(s, x)
             e == s.origin[x]
             k == reserved(s)
  <2>1. p = set_lazy(s, x) /\ ~p.failed /\ e = s.origin[x] /\ k = reserved(s)
    OBVIOUS
  <2> HIDE DEF p, e, k
  <2>2. /\ p \in SimStack
        /\ p.stack = s.stack
        /\ p.curr_register_index = s.curr_register_index
        /\ p.max_registers = s.max_registers
        /\ p.consts = s.consts
        /\ e \in Entries(s) /\ Live(s, e) /\ ~s.entries[e].spilled /\ s.entries[e].index = x
        /\ Len(p.entries) = Len(s.entries)
        /\ \A f \in Entries(s) :
             /\ p.entries[f].ref_count = s.entries[f].ref_count
             /\ f # e => p.entries[f].spilled = s.entries[f].spilled
             /\ f # e => p.entries[f].index = s.entries[f].index
        /\ p.entries[e].spilled /\ p.entries[e].index = k
        /\ \A y \in Locals : p.origin[y] = IF y = x THEN NoEntry ELSE s.origin[y]
        /\ k \in Nat /\ k < p.allocation_len /\ p.allocation_len <= MAX_SPILLS
        /\ s.allocation_len <= p.allocation_len
        /\ \A m \in 0 .. p.allocation_len - 1 : m < s.allocation_len \/ m = k
        /\ \A i \in DOMAIN p.free_slots :
             /\ i \in DOMAIN s.free_slots
             /\ p.free_slots[i] = s.free_slots[i]
             /\ p.free_slots[i] # k
        /\ \A i \in DOMAIN s.free_slots : s.free_slots[i] # k => i \in DOMAIN p.free_slots
        /\ \A f \in Entries(s) : SpilledLive(s, f) => s.entries[f].index # k
    BY <1>2, <2>1, SetLazyShape
  <2>3. Positions(p) = Positions(s) /\ Entries(p) = Entries(s)
    BY <2>2 DEF Positions, Entries
  <2>4. \A f : Borrowers(p, f) = Borrowers(s, f)
    BY <2>2, <2>3 DEF Borrowers
  <2>5. RefCountsOK(p)
    BY <2>2, <2>3, <2>4 DEF StackInv, RefCountsOK
  <2>6. RegistersOK(p)
    BY <2>2, <2>3 DEF StackInv, RegistersOK, IsRegister
  <2>7. \A f \in Entries(s) : Live(p, f) <=> Live(s, f)
    BY <2>2 DEF Live
  <2>8. OriginsOK(p)
    <3>1. ASSUME NEW y \in Locals, borrowed(p, y)
          PROVE  /\ p.origin[y] \in Entries(p)
                 /\ Live(p, p.origin[y])
                 /\ ~p.entries[p.origin[y]].spilled
                 /\ p.entries[p.origin[y]].index = y
      <4>1. y # x /\ p.origin[y] = s.origin[y] /\ borrowed(s, y)
        BY <3>1, <2>2 DEF borrowed
      <4>2. /\ s.origin[y] \in Entries(s)
            /\ Live(s, s.origin[y])
            /\ ~s.entries[s.origin[y]].spilled
            /\ s.entries[s.origin[y]].index = y
        BY <4>1 DEF StackInv, OriginsOK
      <4>3. s.origin[y] # e
        BY <4>1, <4>2, <2>2
      <4> QED BY <4>1, <4>2, <4>3, <2>2, <2>3, <2>7
    <3>2. ASSUME NEW f \in Entries(p), Live(p, f), ~p.entries[f].spilled
          PROVE  p.entries[f].index \in Locals /\ p.origin[p.entries[f].index] = f
      <4>1. f \in Entries(s) /\ f # e /\ Live(s, f) /\ ~s.entries[f].spilled
        BY <3>2, <2>2, <2>3, <2>7
      <4>2. s.entries[f].index \in Locals /\ s.origin[s.entries[f].index] = f
        BY <4>1 DEF StackInv, OriginsOK
      <4>3. s.entries[f].index # x
        BY <4>1, <4>2 DEF e
      <4> QED BY <4>1, <4>2, <4>3, <2>2
    <3> QED BY <3>1, <3>2 DEF OriginsOK
  <2>9. SpillsOK(p)
    <3>1. \A f \in Entries(s) : f # e => (SpilledLive(p, f) <=> SpilledLive(s, f))
      BY <2>2, <2>7 DEF SpilledLive
    <3>2. SpilledLive(p, e)
      BY <2>2, <2>7 DEF SpilledLive
    <3>3. SpillsOK(s) /\ s.allocation_len \in Nat /\ p.allocation_len \in Nat
      BY <2>2, SimStackFields DEF StackInv
    <3>4. \A i, j \in DOMAIN p.free_slots : p.free_slots[i] = p.free_slots[j] => i = j
      BY <3>3, <2>2 DEF SpillsOK
    <3>5. ASSUME NEW i \in DOMAIN p.free_slots
          PROVE  p.free_slots[i] < p.allocation_len
      <4>1. s.free_slots[i] < s.allocation_len /\ p.free_slots[i] = s.free_slots[i]
        BY <3>3, <2>2 DEF SpillsOK
      <4>2. s.free_slots[i] \in Nat
        BY SMTT(60), <2>2, SimStackFields DEF StackInv
      <4> QED BY <4>1, <4>2, <3>3, <2>2
    <3>6. ASSUME NEW f \in Entries(p), SpilledLive(p, f)
          PROVE  /\ p.entries[f].index < p.allocation_len
                 /\ \A i \in DOMAIN p.free_slots : p.free_slots[i] # p.entries[f].index
                 /\ \A g \in Entries(p) :
                      SpilledLive(p, g) /\ p.entries[g].index = p.entries[f].index => g = f
      <4>1. CASE f = e
        <5>1. ASSUME NEW g \in Entries(p), SpilledLive(p, g), p.entries[g].index = k
              PROVE  g = e
          BY <5>1, <3>1, <2>2, <2>3
        <5> QED BY <4>1, <5>1, <2>2
      <4>2. CASE f # e
        <5>1. f \in Entries(s) /\ SpilledLive(s, f) /\ p.entries[f].index = s.entries[f].index
          BY <4>2, <3>1, <3>6, <2>2, <2>3
        <5>2. /\ s.entries[f].index < s.allocation_len
              /\ \A i \in DOMAIN s.free_slots : s.free_slots[i] # s.entries[f].index
              /\ \A g \in Entries(s) :
                   SpilledLive(s, g) /\ s.entries[g].index = s.entries[f].index => g = f
          BY <5>1, <3>3 DEF SpillsOK
        <5>3. s.entries[f].index # k
          BY <5>1, <2>2
        <5>4. s.entries[f].index \in Nat
          <6>1. s.entries[f] \in LazyEntry
            BY <5>1, SimStackFields DEF StackInv, Entries
          <6> QED BY <6>1 DEF LazyEntry
        <5>5. p.entries[f].index < p.allocation_len
          BY <5>1, <5>2, <5>4, <3>3, <2>2
        <5>6. \A i \in DOMAIN p.free_slots : p.free_slots[i] # p.entries[f].index
          BY <5>1, <5>2, <2>2
        <5>7. ASSUME NEW g \in Entries(p), SpilledLive(p, g),
                     p.entries[g].index = p.entries[f].index
              PROVE  g = f
          <6>1. g # e
            BY <5>1, <5>3, <5>7, <2>2
          <6> QED BY <6>1, <5>1, <5>2, <5>7, <3>1, <2>2, <2>3
        <5> QED BY <5>5, <5>6, <5>7
      <4> QED BY <4>1, <4>2
    <3>7. ASSUME NEW m \in 0 .. p.allocation_len - 1
          PROVE  \/ \E i \in DOMAIN p.free_slots : p.free_slots[i] = m
                 \/ \E f \in Entries(p) : SpilledLive(p, f) /\ p.entries[f].index = m
      <4>1. CASE m = k
        BY <4>1, <3>2, <2>2, <2>3
      <4>2. CASE m # k
        <5>1. m \in 0 .. s.allocation_len - 1
          BY <4>2, <3>3, <2>2
        <5>2. CASE \E i \in DOMAIN s.free_slots : s.free_slots[i] = m
          BY <4>2, <5>2, <2>2
        <5>3. CASE \E f \in Entries(s) : SpilledLive(s, f) /\ s.entries[f].index = m
          <6>1. PICK f \in Entries(s) : SpilledLive(s, f) /\ s.entries[f].index = m
            BY <5>3
          <6>2. f # e
            BY <6>1, <2>2 DEF SpilledLive
          <6> QED BY <6>1, <6>2, <3>1, <2>2, <2>3
        <5> QED BY <5>1, <5>2, <5>3, <3>3 DEF SpillsOK
      <4> QED BY <4>1, <4>2
    <3> QED BY <3>3, <3>4, <3>5, <3>6, <3>7, <2>2 DEF SpillsOK
  <2> QED BY <2>2, <2>5, <2>6, <2>8, <2>9 DEF StackInv, p
<1> QED BY <1>1, <1>2

-----------------------------------------------------------------------------
(* A new simulated stack is consistent.                                     *)
LEMMA NewStackInv == StackInv(NewStack)
<1>1. NewStack \in SimStack
  BY LimitsAssumption DEF NewStack, SimStack, NoEntry
<1>2. /\ Entries(NewStack) = {} /\ Positions(NewStack) = {}
      /\ NewStack.allocation_len = 0 /\ DOMAIN NewStack.free_slots = {}
      /\ NewStack.curr_register_index = LocalsCount
      /\ NewStack.max_registers = LocalsCount
      /\ \A x \in Locals : NewStack.origin[x] = NoEntry
  BY DEF NewStack, Entries, Positions
<1>3. RefCountsOK(NewStack) /\ OriginsOK(NewStack)
  BY <1>2 DEF RefCountsOK, OriginsOK, borrowed
<1>4. SpillsOK(NewStack)
  BY <1>2, LimitsAssumption DEF SpillsOK
<1>5. RegistersOK(NewStack)
  BY <1>2, LimitsAssumption DEF RegistersOK
<1> QED BY <1>1, <1>3, <1>4, <1>5 DEF StackInv

(* An error changes no operand.                                             *)
LEMMA FailInv ==
  ASSUME NEW s, StackInv(s)
  PROVE  /\ StackInv(Fail(s))
         /\ Fail(s).stack = s.stack
         /\ Fail(s).entries = s.entries
         /\ Fail(s).consts = s.consts
<1> DEFINE p == Fail(s)
<1>1. /\ p \in SimStack
      /\ p.stack = s.stack
      /\ p.curr_register_index = s.curr_register_index
      /\ p.max_registers = s.max_registers
      /\ p.entries = s.entries
      /\ p.origin = s.origin
      /\ p.allocation_len = s.allocation_len
      /\ p.free_slots = s.free_slots
      /\ p.consts = s.consts
  BY DEF StackInv, Fail, SimStack
<1> HIDE DEF p
<1>2. Positions(p) = Positions(s) /\ Entries(p) = Entries(s)
  BY <1>1 DEF Positions, Entries
<1>3. \A f : Borrowers(p, f) = Borrowers(s, f)
  BY <1>1, <1>2 DEF Borrowers
<1>4. RefCountsOK(p)
  BY <1>1, <1>2, <1>3 DEF StackInv, RefCountsOK
<1>5. OriginsOK(p)
  BY <1>1, <1>2 DEF StackInv, OriginsOK, Live, borrowed
<1>6. SpillsOK(p)
  BY <1>1, <1>2 DEF StackInv, SpillsOK, SpilledLive, Live
<1>7. RegistersOK(p)
  BY <1>1, <1>2 DEF StackInv, RegistersOK, IsRegister
<1> QED BY <1>1, <1>4, <1>5, <1>6, <1>7 DEF StackInv, p

-----------------------------------------------------------------------------
(* Where the slots' values live, before and after each operation.           *)

Loc(region, index) == [region |-> region, index |-> index]

(* Locations are equal exactly when region and index are.                   *)
LEMMA LocIdentity ==
  ASSUME NEW r1, NEW r2, NEW i1, NEW i2
  PROVE  /\ Loc(r1, i1) = Loc(r2, i2) <=> r1 = r2 /\ i1 = i2
         /\ Loc(r1, i1).region = r1 /\ Loc(r1, i1).index = i1
BY DEF Loc

(* The location of each variant of slot.                                    *)
LEMMA LocationForm ==
  ASSUME NEW s, NEW id
  PROVE  /\ location(s, Const(id)) = Loc("Const", id)
         /\ location(s, Register(id)) = Loc("Register", id)
         /\ s.entries[id].spilled =>
              location(s, Local(id)) = Loc("Spill", s.entries[id].index)
         /\ ~s.entries[id].spilled =>
              location(s, Local(id)) = Loc("Slot", s.entries[id].index)
<1>1. location(s, Const(id)) = Loc("Const", id)
  BY DEF location, Const, Loc
<1>2. location(s, Register(id)) = Loc("Register", id)
  BY DEF location, Register, Loc
<1>3. location(s, Local(id)) =
        Loc(IF s.entries[id].spilled THEN "Spill" ELSE "Slot", s.entries[id].index)
  BY DEF location, Local, Loc
<1> QED BY <1>1, <1>2, <1>3

(* Every slot of a consistent stack names a place the frame really has.     *)
LEMMA LocationCases ==
  ASSUME NEW s, StackInv(s), NEW i \in Positions(s)
  PROVE  \/ \E c \in 0 .. Len(s.consts) - 1 :
              s.stack[i] = Const(c) /\ location(s, s.stack[i]) = Loc("Const", c)
         \/ \E r \in LocalsCount .. s.curr_register_index - 1 :
              s.stack[i] = Register(r) /\ location(s, s.stack[i]) = Loc("Register", r)
         \/ \E e \in Entries(s) :
              /\ s.stack[i] = Local(e) /\ SpilledLive(s, e)
              /\ s.entries[e].index \in 0 .. s.allocation_len - 1
              /\ location(s, s.stack[i]) = Loc("Spill", s.entries[e].index)
         \/ \E e \in Entries(s) :
              /\ s.stack[i] = Local(e) /\ Live(s, e) /\ ~s.entries[e].spilled
              /\ s.entries[e].index \in Locals
              /\ s.origin[s.entries[e].index] = e
              /\ location(s, s.stack[i]) = Loc("Slot", s.entries[e].index)
<1>1. s \in SimStack /\ s.stack[i] \in StackSlot
  BY SimStackFields DEF StackInv, Positions
<1>2. CASE s.stack[i].kind = "Const"
  <2>1. s.stack[i].id \in 0 .. Len(s.consts) - 1
    BY <1>2 DEF StackInv, RefCountsOK
  <2>2. s.stack[i] = Const(s.stack[i].id)
    BY <1>1, <1>2, SlotForm
  <2> QED BY <2>1, <2>2, LocationForm
<1>3. CASE s.stack[i].kind = "Register"
  <2>1. s.stack[i].id \in LocalsCount .. s.curr_register_index - 1
    BY <1>3 DEF StackInv, RegistersOK, IsRegister
  <2>2. s.stack[i] = Register(s.stack[i].id)
    BY <1>1, <1>3, SlotForm
  <2> QED BY <2>1, <2>2, LocationForm
<1>4. CASE s.stack[i].kind = "Local"
  <2> DEFINE e == s.stack[i].id
  <2>1. e \in Entries(s) /\ s.stack[i] = Local(e) /\ Live(s, e)
    BY <1>1, <1>4, LiveOnStack DEF StackInv
  <2>2. s.entries[e] \in LazyEntry
    BY <1>1, <2>1, SimStackFields DEF Entries
  <2> HIDE DEF e
  <2>3. CASE s.entries[e].spilled
    <3>1. s.entries[e].index < s.allocation_len
      BY <2>1, <2>3 DEF StackInv, SpillsOK, SpilledLive
    <3>2. s.entries[e].index \in Nat /\ s.allocation_len \in Nat
      BY <1>1, <2>2, SimStackFields DEF LazyEntry
    <3>3. s.entries[e].index \in 0 .. s.allocation_len - 1
      BY <3>1, <3>2
    <3>4. location(s, s.stack[i]) = Loc("Spill", s.entries[e].index)
      BY <2>1, <2>3, LocationForm
    <3> QED BY <2>1, <2>3, <3>3, <3>4 DEF SpilledLive
  <2>4. CASE ~s.entries[e].spilled
    <3>1. location(s, s.stack[i]) = Loc("Slot", s.entries[e].index)
      BY <2>1, <2>4, LocationForm
    <3> QED BY <2>1, <2>4, <3>1 DEF StackInv, OriginsOK
  <2> QED BY <2>3, <2>4
<1> QED BY <1>1, <1>2, <1>3, <1>4 DEF StackSlot

(* Two stacks whose entries agree on where they live resolve a slot alike.  *)
LEMMA SameLocation ==
  ASSUME NEW s, StackInv(s), NEW i \in Positions(s), NEW p,
         \A e \in Entries(s) : /\ p.entries[e].spilled = s.entries[e].spilled
                               /\ p.entries[e].index = s.entries[e].index
  PROVE  location(p, s.stack[i]) = location(s, s.stack[i])
BY LocationCases, LocationForm DEF SpilledLive

(* Popping one reference touches neither the stack, the constants nor where *)
(* any borrow lives.                                                        *)
LEMMA PopLazyFrame ==
  ASSUME NEW s \in SimStack, NEW e \in Entries(s), NEW p, p = pop_lazy(s, e)
  PROVE  /\ p.stack = s.stack
         /\ p.consts = s.consts
         /\ p.failed = s.failed
         /\ \A f \in Entries(s) : /\ p.entries[f].spilled = s.entries[f].spilled
                                  /\ p.entries[f].index = s.entries[f].index
<1> DEFINE d == [s.entries EXCEPT ![e] =
                   [s.entries[e] EXCEPT !.ref_count = s.entries[e].ref_count - 1]]
<1>1. /\ p.stack = s.stack
      /\ p.consts = s.consts
      /\ p.failed = s.failed
      /\ p.entries = d
  BY DEF pop_lazy, SimStack
<1>2. ASSUME NEW f \in Entries(s)
      PROVE  d[f].spilled = s.entries[f].spilled /\ d[f].index = s.entries[f].index
  <2>1. s.entries[f] \in LazyEntry /\ f \in DOMAIN s.entries
    BY SimStackFields DEF Entries
  <2>2. CASE f = e
    BY <2>1, <2>2 DEF LazyEntry
  <2>3. CASE f # e
    BY <2>1, <2>3
  <2> QED BY <2>2, <2>3
<1> QED BY <1>1, <1>2

(* pop moves no other slot's value.                                         *)
LEMMA PopFrame ==
  ASSUME NEW s, StackInv(s), Len(s.stack) > 0, NEW p, p = pop(s)
  PROVE  /\ Len(p.stack) = Len(s.stack) - 1
         /\ p.consts = s.consts
         /\ p.failed = s.failed
         /\ \A i \in 1 .. Len(s.stack) - 1 :
              /\ p.stack[i] = s.stack[i]
              /\ location(p, p.stack[i]) = location(s, s.stack[i])
         /\ \A e \in Entries(s) : /\ p.entries[e].spilled = s.entries[e].spilled
                                  /\ p.entries[e].index = s.entries[e].index
<1> DEFINE b == Below(s)
<1>1. s \in SimStack /\ Len(s.stack) \in Nat /\ Len(s.stack) \in Positions(s)
  BY SimStackFields DEF StackInv, Positions
<1>2. /\ b \in SimStack
      /\ Len(b.stack) = Len(s.stack) - 1
      /\ \A i \in 1 .. Len(s.stack) - 1 : b.stack[i] = s.stack[i]
      /\ b.entries = s.entries
      /\ b.consts = s.consts
      /\ b.failed = s.failed
  BY <1>1, BelowShape
<1>3. /\ p.stack = b.stack
      /\ p.consts = b.consts
      /\ p.failed = b.failed
      /\ \A e \in Entries(s) : /\ p.entries[e].spilled = s.entries[e].spilled
                               /\ p.entries[e].index = s.entries[e].index
  <2>1. CASE Top(s).kind = "Const"
    BY <2>1, <1>2 DEF pop
  <2>2. CASE Top(s).kind = "Register"
    <3>1. p = [b EXCEPT !.curr_register_index = s.curr_register_index - 1]
      BY <2>2 DEF pop
    <3> HIDE DEF b
    <3> QED BY <3>1, <1>2 DEF SimStack
  <2>3. CASE Top(s).kind = "Local"
    <3> DEFINE e == Top(s).id
    <3>1. p = pop_lazy(b, e)
      BY <2>3 DEF pop
    <3>2. e \in Entries(s) /\ Live(s, e)
      BY <2>3, <1>1, LiveOnStack DEF StackInv, Top
    <3> HIDE DEF b, e
    <3>3. /\ e \in Entries(b) /\ b \in SimStack
          /\ b.entries[e].ref_count > 0
          /\ ~b.entries[e].spilled => b.entries[e].index \in Locals
      BY <1>2, <3>2 DEF Entries, Live, StackInv, OriginsOK
    <3>4. /\ p.stack = b.stack
          /\ p.consts = b.consts
          /\ p.failed = b.failed
          /\ \A f \in Entries(b) : /\ p.entries[f].spilled = b.entries[f].spilled
                                   /\ p.entries[f].index = b.entries[f].index
      BY <3>1, <3>3, PopLazyFrame
    <3> QED BY <1>2, <3>4 DEF Entries
  <2>4. Top(s) \in StackSlot
    BY <1>1, SimStackFields DEF Top, Positions
  <2> QED BY <2>1, <2>2, <2>3, <2>4 DEF StackSlot
<1> HIDE DEF b
<1>4. ASSUME NEW i \in 1 .. Len(s.stack) - 1
      PROVE  /\ p.stack[i] = s.stack[i]
             /\ location(p, p.stack[i]) = location(s, s.stack[i])
  <2>1. p.stack[i] = s.stack[i] /\ i \in Positions(s)
    BY <1>1, <1>2, <1>3 DEF Positions
  <2> QED BY <2>1, <1>3, SameLocation
<1> QED BY <1>2, <1>3, <1>4

(* set_lazy moves exactly the values that lived in the local x.             *)
LEMMA SetLazyFrame ==
  ASSUME NEW s, StackInv(s), NEW x \in Locals, NEW p, p = set_lazy(s, x), ~p.failed
  PROVE  /\ p.stack = s.stack
         /\ p.consts = s.consts
         /\ borrowed(s, x) => reserved(s) \in Nat /\ reserved(s) < MAX_SPILLS
         /\ \A i \in Positions(s) :
              IF location(s, s.stack[i]) = Loc("Slot", x)
              THEN borrowed(s, x) /\ location(p, s.stack[i]) = Loc("Spill", reserved(s))
              ELSE /\ location(p, s.stack[i]) = location(s, s.stack[i])
                   /\ borrowed(s, x) => location(s, s.stack[i]) # Loc("Spill", reserved(s))
<1>1. CASE ~borrowed(s, x)
  <2>1. p = s
    BY <1>1 DEF set_lazy
  <2>2. ASSUME NEW i \in Positions(s)
        PROVE  location(s, s.stack[i]) # Loc("Slot", x)
    BY <1>1, LocationCases, LocIdentity, LimitsAssumption DEF borrowed, NoEntry, Entries
  <2> QED BY <1>1, <2>1, <2>2
<1>2. CASE borrowed(s, x)
  <2> DEFINE e == s.origin[x]
             k == reserved(s)
  <2>1. e = s.origin[x] /\ k = reserved(s)
    OBVIOUS
  <2> HIDE DEF e, k
  <2>2. /\ p \in SimStack
        /\ p.stack = s.stack
        /\ p.consts = s.consts
        /\ e \in Entries(s) /\ ~s.entries[e].spilled /\ s.entries[e].index = x
        /\ \A f \in Entries(s) :
             /\ f # e => p.entries[f].spilled = s.entries[f].spilled
             /\ f # e => p.entries[f].index = s.entries[f].index
        /\ p.entries[e].spilled /\ p.entries[e].index = k
        /\ k \in Nat /\ k < p.allocation_len /\ p.allocation_len <= MAX_SPILLS
        /\ \A f \in Entries(s) : SpilledLive(s, f) => s.entries[f].index # k
    BY <1>2, <2>1, SetLazyShape
  <2>3. k < MAX_SPILLS
    BY <2>2, SimStackFields, LimitsAssumption
  <2>4. ASSUME NEW i \in Positions(s)
        PROVE  IF location(s, s.stack[i]) = Loc("Slot", x)
               THEN location(p, s.stack[i]) = Loc("Spill", k)
               ELSE /\ location(p, s.stack[i]) = location(s, s.stack[i])
                    /\ location(s, s.stack[i]) # Loc("Spill", k)
    <3>1. CASE \E c : s.stack[i] = Const(c)
      <4>1. PICK c : s.stack[i] = Const(c)
        BY <3>1
      <4> QED BY <4>1, LocationForm, LocIdentity
    <3>2. CASE \E r : s.stack[i] = Register(r)
      <4>1. PICK r : s.stack[i] = Register(r)
        BY <3>2
      <4> QED BY <4>1, LocationForm, LocIdentity
    <3>3. CASE \E f \in Entries(s) :
                 /\ s.stack[i] = Local(f) /\ SpilledLive(s, f)
                 /\ location(s, s.stack[i]) = Loc("Spill", s.entries[f].index)
      <4>1. PICK f \in Entries(s) :
                 /\ s.stack[i] = Local(f) /\ SpilledLive(s, f)
                 /\ location(s, s.stack[i]) = Loc("Spill", s.entries[f].index)
        BY <3>3
      <4>2. f # e /\ s.entries[f].index # k /\ s.entries[f].spilled
        BY <4>1, <2>2 DEF SpilledLive
      <4>3. p.entries[f].spilled /\ p.entries[f].index = s.entries[f].index
        BY <4>1, <4>2, <2>2
      <4>4. location(p, s.stack[i]) = Loc("Spill", s.entries[f].index)
        BY <4>1, <4>3, LocationForm
      <4> QED BY <4>1, <4>2, <4>4, LocIdentity
    <3>4. CASE \E f \in Entries(s) :
                 /\ s.stack[i] = Local(f) /\ ~s.entries[f].spilled
                 /\ s.origin[s.entries[f].index] = f
                 /\ location(s, s.stack[i]) = Loc("Slot", s.entries[f].index)
      <4>1. PICK f \in Entries(s) :
                 /\ s.stack[i] = Local(f) /\ ~s.entries[f].spilled
                 /\ s.origin[s.entries[f].index] = f
                 /\ location(s, s.stack[i]) = Loc("Slot", s.entries[f].index)
        BY <3>4
      <4>2. CASE f = e
        <5>1. location(p, s.stack[i]) = Loc("Spill", k)
          BY <4>1, <4>2, <2>2, LocationForm
        <5> QED BY <4>1, <4>2, <5>1, <2>2
      <4>3. CASE f # e
        <5>1. s.entries[f].index # x
          BY <4>1, <4>3, <2>1
        <5>2. ~p.entries[f].spilled /\ p.entries[f].index = s.entries[f].index
          BY <4>1, <4>3, <2>2
        <5>3. location(p, s.stack[i]) = Loc("Slot", s.entries[f].index)
          BY <4>1, <5>2, LocationForm
        <5> QED BY <4>1, <5>1, <5>3, LocIdentity
      <4> QED BY <4>2, <4>3
    <3> QED BY <3>1, <3>2, <3>3, <3>4, LocationCases
  <2> QED BY <1>2, <2>2, <2>3, <2>4 DEF k
<1> QED BY <1>1, <1>2

(* A push moves no slot's value; the new slot lives where it should.        *)
LEMMA PushLocalFrame ==
  ASSUME NEW s, StackInv(s), NEW x \in Locals, NEW p, p = push_local(s, x)
  PROVE  /\ Len(p.stack) = Len(s.stack) + 1
         /\ p.consts = s.consts
         /\ p.failed = s.failed
         /\ \A i \in Positions(s) : /\ p.stack[i] = s.stack[i]
                                    /\ location(p, p.stack[i]) = location(s, s.stack[i])
         /\ location(p, p.stack[Len(s.stack) + 1]) = Loc("Slot", x)
         /\ \A e \in Entries(s) : /\ p.entries[e].spilled = s.entries[e].spilled
                                  /\ p.entries[e].index = s.entries[e].index
<1> DEFINE l == push_lazy(s, x)
           e == borrow(s, x)
<1>1. s \in SimStack /\ OriginsOK(s) /\ p = pushed(l, Local(e))
  BY DEF StackInv, push_local
<1>2. l = push_lazy(s, x) /\ e = borrow(s, x)
  OBVIOUS
<1> HIDE DEF l, e
<1>3. /\ l \in SimStack
      /\ l.stack = s.stack
      /\ l.consts = s.consts
      /\ l.failed = s.failed
      /\ \A f \in Entries(s) : /\ l.entries[f].spilled = s.entries[f].spilled
                               /\ l.entries[f].index = s.entries[f].index
      /\ l.entries[e].index = x /\ ~l.entries[e].spilled
      /\ e \in Nat
  BY <1>1, <1>2, PushLazyShape
<1>4. Local(e) \in StackSlot
  BY <1>3 DEF Local, StackSlot
<1>5. /\ Len(p.stack) = Len(l.stack) + 1
      /\ \A i \in Positions(l) : p.stack[i] = l.stack[i]
      /\ p.stack[Len(l.stack) + 1] = Local(e)
      /\ p.entries = l.entries
      /\ p.consts = l.consts
      /\ p.failed = l.failed
  BY <1>1, <1>3, <1>4, PushedShape
<1>6. ASSUME NEW i \in Positions(s)
      PROVE  /\ p.stack[i] = s.stack[i]
             /\ location(p, p.stack[i]) = location(s, s.stack[i])
  <2>1. p.stack[i] = s.stack[i]
    BY <1>3, <1>5 DEF Positions
  <2> QED BY <2>1, <1>3, <1>5, SameLocation
<1>7. location(p, p.stack[Len(s.stack) + 1]) = Loc("Slot", x)
  BY <1>3, <1>5, LocationForm
<1> QED BY <1>3, <1>5, <1>6, <1>7

(* A pushed register is at no location that an operand below it is read     *)
(* from.                                                                    *)
LEMMA PushRegisterFrame ==
  ASSUME NEW s, StackInv(s), NEW p, p = push_register(s), ~p.failed
  PROVE  /\ Len(p.stack) = Len(s.stack) + 1
         /\ p.consts = s.consts
         /\ p.entries = s.entries
         /\ \A i \in Positions(s) :
              /\ p.stack[i] = s.stack[i]
              /\ location(p, p.stack[i]) = location(s, s.stack[i])
              /\ location(s, s.stack[i]) # Loc("Register", s.curr_register_index)
         /\ location(p, p.stack[Len(s.stack) + 1]) = Loc("Register", s.curr_register_index)
         /\ s.curr_register_index \in LocalsCount .. MAX_REGISTER_SLOTS - 1
<1> DEFINE c == s.curr_register_index
<1>1. s \in SimStack /\ RegistersOK(s)
  BY DEF StackInv
<1>2. /\ p \in SimStack
      /\ Len(p.stack) = Len(s.stack) + 1
      /\ \A i \in Positions(s) : p.stack[i] = s.stack[i]
      /\ p.stack[Len(s.stack) + 1] = Register(c)
      /\ p.curr_register_index = c + 1
      /\ p.curr_register_index <= p.max_registers
      /\ p.max_registers <= MAX_REGISTER_SLOTS
      /\ p.entries = s.entries
      /\ p.consts = s.consts
  BY <1>1, PushRegisterShape
<1>3. c \in Nat /\ LocalsCount <= c
  BY <1>1, SimStackFields DEF RegistersOK
<1> HIDE DEF c
<1>4. c \in LocalsCount .. MAX_REGISTER_SLOTS - 1
  BY <1>2, <1>3, SimStackFields, LimitsAssumption
<1>5. ASSUME NEW i \in Positions(s)
      PROVE  /\ location(p, p.stack[i]) = location(s, s.stack[i])
             /\ location(s, s.stack[i]) # Loc("Register", c)
  <2>1. location(p, p.stack[i]) = location(s, s.stack[i])
    BY <1>2, SameLocation
  <2>2. ASSUME NEW r \in LocalsCount .. c - 1
        PROVE  r # c
    BY <1>3, LimitsAssumption
  <2>3. location(s, s.stack[i]) # Loc("Register", c)
    BY <2>2, LocationCases, LocIdentity DEF c
  <2> QED BY <2>1, <2>3
<1>6. location(p, p.stack[Len(s.stack) + 1]) = Loc("Register", c)
  BY <1>2, LocationForm
<1> QED BY <1>2, <1>4, <1>5, <1>6 DEF c

(* A pushed constant moves no operand and reads as v.                       *)
LEMMA PushConstFrame ==
  ASSUME NEW s, StackInv(s), NEW v \in Val, NEW p, p = push_const(s, v), ~p.failed
  PROVE  /\ Len(p.stack) = Len(s.stack) + 1
         /\ p.entries = s.entries
         /\ \A i \in 1 .. Len(s.consts) : p.consts[i] = s.consts[i]
         /\ \A i \in Positions(s) : /\ p.stack[i] = s.stack[i]
                                    /\ location(p, p.stack[i]) = location(s, s.stack[i])
         /\ \E id \in 0 .. Len(p.consts) - 1 :
              /\ location(p, p.stack[Len(s.stack) + 1]) = Loc("Const", id)
              /\ p.consts[id + 1] = v
<1> DEFINE id == const_id(s, v)
<1>1. s \in SimStack
  BY DEF StackInv
<1>2. /\ Len(p.stack) = Len(s.stack) + 1
      /\ \A i \in Positions(s) : p.stack[i] = s.stack[i]
      /\ p.stack[Len(s.stack) + 1] = Const(id)
      /\ id \in 0 .. Len(p.consts) - 1
      /\ p.consts[id + 1] = v
      /\ p.entries = s.entries
      /\ \A i \in 1 .. Len(s.consts) : p.consts[i] = s.consts[i]
  BY <1>1, PushConstShape
<1> HIDE DEF id
<1>3. ASSUME NEW i \in Positions(s)
      PROVE  location(p, p.stack[i]) = location(s, s.stack[i])
  BY <1>2, SameLocation
<1>4. location(p, p.stack[Len(s.stack) + 1]) = Loc("Const", id)
  BY <1>2, LocationForm
<1> QED BY <1>2, <1>3, <1>4
=============================================================================
