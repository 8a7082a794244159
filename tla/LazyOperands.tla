---------------------------- MODULE LazyOperands ----------------------------
(***************************************************************************)
(* Straight-line code on the register machine: the lowering of an operator *)
(* (on the simulated stack sim) together with the run of the instructions  *)
(* it emits (on the frame's regions).  Lowering order is execution order   *)
(* here, which is what LazyArena and SpillArena rely on.                   *)
(*                                                                         *)
(* A numeric operator I -> O is I Pop steps, which read its operands where *)
(* the simulated stack says they live, and O Push steps, which write the   *)
(* result to the next free register.  What it computes is left open: arg   *)
(* exposes the operand it read.                                            *)
(***************************************************************************)
EXTENDS SimulatedStack

CONSTANTS
  Stale,        \* what a register or spill slot holds before it is written
  MaxHeight,    \* bound on the operand stack
  MaxEntries    \* bound on the borrows of one function body

ASSUME BoundsAssumption ==
  /\ Stale \in Val
  /\ MaxHeight \in Nat
  /\ MaxEntries \in Nat

VARIABLES
  sim,          \* the simulated stack of the lowering
  locals,       \* the frame's locals region
  registers,    \* the frame's operand registers
  spills,       \* the frame's spill region
  arg           \* the value the last consuming instruction read

vars == <<sim, locals, registers, spills, arg>>

RegisterIndex == LocalsCount .. MAX_REGISTER_SLOTS - 1
SpillIndex    == 0 .. MAX_SPILLS - 1

(* slot_value: what an instruction reads through a resolved slot, when the  *)
(* spill region holds sp.                                                   *)
slot_value(sp, b) ==
  CASE b.region = "Const"    -> sim.consts[b.index + 1]
    [] b.region = "Register" -> registers[b.index]
    [] b.region = "Spill"    -> sp[b.index]
    [] b.region = "Slot"     -> locals[b.index]

TypeOK ==
  /\ sim \in SimStack
  /\ locals \in [Locals -> Val]
  /\ registers \in [RegisterIndex -> Val]
  /\ spills \in [SpillIndex -> Val]
  /\ arg \in Val

Init ==
  /\ sim = NewStack
  /\ locals \in [Locals -> Val]
  /\ registers = [i \in RegisterIndex |-> Stale]
  /\ spills = [i \in SpillIndex |-> Stale]
  /\ arg \in Val

-----------------------------------------------------------------------------
(* The instruction LocalSpill { index, spill_index }, emitted and run only  *)
(* when local x has a live borrow.                                          *)
LocalSpill(x) ==
  spills' = IF borrowed(sim, x)
            THEN [spills EXCEPT ![reserved(sim)] = locals[x]]
            ELSE spills

ConstOp(v) ==
  /\ Height(sim) < MaxHeight
  /\ ~push_const(sim, v).failed
  /\ sim' = push_const(sim, v)
  /\ UNCHANGED <<locals, registers, spills, arg>>

LocalGet(x) ==
  /\ Height(sim) < MaxHeight
  /\ borrowed(sim, x) \/ Len(sim.entries) < MaxEntries
  /\ sim' = push_local(sim, x)
  /\ UNCHANGED <<locals, registers, spills, arg>>

(* One operand of an emitted instruction, or of Drop.                       *)
Pop ==
  /\ Height(sim) > 0
  /\ sim' = pop(sim)
  /\ arg' = slot_value(spills, location(sim, Top(sim)))
  /\ UNCHANGED <<locals, registers, spills>>

(* The output of an emitted instruction, which computed v.                  *)
Push(v) ==
  /\ Height(sim) < MaxHeight
  /\ ~push_register(sim).failed
  /\ sim' = push_register(sim)
  /\ registers' = [registers EXCEPT ![sim.curr_register_index] = v]
  /\ UNCHANGED <<locals, spills, arg>>

(* The live borrow is spilled first; then the operand is resolved, which    *)
(* may be that very borrow; then the local is overwritten.                  *)
LocalSet(x) ==
  LET s == set_lazy(sim, x)
  IN  /\ Height(sim) > 0
      /\ ~s.failed
      /\ LocalSpill(x)
      /\ sim' = pop(s)
      /\ arg' = slot_value(spills', location(s, Top(s)))
      /\ locals' = [locals EXCEPT ![x] = arg']
      /\ UNCHANGED registers

(* A slip: the operand left on the stack is assumed to be safe.             *)
LocalTeeUnspilled(x) ==
  /\ Height(sim) > 0
  /\ arg' = slot_value(spills, location(sim, Top(sim)))
  /\ locals' = [locals EXCEPT ![x] = arg']
  /\ UNCHANGED <<sim, registers, spills>>

(* The same, except that tee leaves the operand on the stack.               *)
LocalTee(x) ==
  LET s == set_lazy(sim, x)
  IN  /\ Height(sim) > 0
      /\ ~s.failed
      /\ LocalSpill(x)
      /\ sim' = s
      /\ arg' = slot_value(spills', location(s, Top(s)))
      /\ locals' = [locals EXCEPT ![x] = arg']
      /\ UNCHANGED registers

(* One iteration of spill_live_locals, which runs before a diverging or     *)
(* repeating construct.                                                     *)
SpillLive(x) ==
  /\ borrowed(sim, x)
  /\ ~set_lazy(sim, x).failed
  /\ LocalSpill(x)
  /\ sim' = set_lazy(sim, x)
  /\ UNCHANGED <<locals, registers, arg>>

(* An operation returns RegisterFrameTooLarge: lowering stops, nothing it   *)
(* emitted is ever run.                                                     *)
RegisterFrameTooLarge ==
  /\ \/ Height(sim) < MaxHeight /\ \E v \in Val : push_const(sim, v).failed
     \/ Height(sim) < MaxHeight /\ push_register(sim).failed
     \/ \E x \in Locals : set_lazy(sim, x).failed
  /\ sim' = Fail(sim)
  /\ UNCHANGED <<locals, registers, spills, arg>>

Next ==
  /\ ~sim.failed
  /\ \/ \E v \in Val : ConstOp(v) \/ Push(v)
     \/ Pop
     \/ \E x \in Locals :
          LocalGet(x) \/ LocalSet(x) \/ LocalTee(x) \/ SpillLive(x)
     \/ RegisterFrameTooLarge

Spec == Init /\ [][Next]_vars

-----------------------------------------------------------------------------
(* The reference count of a borrow is the number of stack slots that share  *)
(* it, and every slot names an entry or a constant that exists; push_lazy   *)
(* and pop_lazy move the counts, spilling does not.                         *)
RefCounts == RefCountsOK(sim)

(* The origin table lists exactly the live borrows that still read their    *)
(* local, so a write of a local finds every operand it would change         *)
(* (lazy.rs: an entry reachable through origin is always Original).         *)
OriginsExact == OriginsOK(sim)

(* Two live borrows never share a spill slot, no slot is free twice or free *)
(* while held, and none leaks: every slot ever handed out is held by a live *)
(* borrow or waits in free_slots, so allocation_len advances only when all  *)
(* existing slots are live at once.                                         *)
SpillSlotsPartitioned == SpillsOK(sim)

(* The registers on the stack are the contiguous run that starts after the  *)
(* locals, in stack order, and curr_register_index is its end: a result is  *)
(* never written over an operand that is still to be read, and a block's    *)
(* results can be addressed by counting registers.                          *)
RegistersContiguous == RegistersOK(sim)

-----------------------------------------------------------------------------
(* Once a borrow has been copied to a spill slot it stays in that slot      *)
(* until its last reference is popped, and the slot is not rewritten in the *)
(* meantime: an instruction emitted earlier may name it.                    *)
SpillsAreStable ==
  [][\A e \in Entries(sim) : SpilledLive(sim, e) /\ Live(sim', e) =>
       /\ sim'.entries[e].spilled
       /\ sim'.entries[e].index = sim.entries[e].index
       /\ spills'[sim.entries[e].index] = spills[sim.entries[e].index]]_vars

(* The operand stack, each slot read where the lowering says it lives.      *)
Operands ==
  [i \in 1 .. Len(sim.stack) |-> slot_value(spills, location(sim, sim.stack[i]))]

Wasm == INSTANCE WasmOperands WITH operands <- Operands

(* The operand stack and the locals, read where the lowering says they are, *)
(* behave as WebAssembly's: a borrow of a local keeps the value the local   *)
(* had when it was read.                                                    *)
ImplementsWasm == Wasm!Spec
=============================================================================
