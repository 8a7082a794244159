--------------------------- MODULE SimulatedStack ---------------------------
(***************************************************************************)
(* The operand stack that the register lowering simulates while it walks a *)
(* function body (SimulatedStack, LazyArena and SpillArena of              *)
(* instruction/register).  A simulated stack is a record s; every method   *)
(* of the source is an operator from a record to a record, so a lowering   *)
(* rule is a composition of them.                                          *)
(*                                                                         *)
(*   stack           the slots: an interned constant, an operand register  *)
(*                   or a borrow of a local, shared through an arena entry *)
(*   curr_register_index, max_registers                                    *)
(*                   next free operand register and its high-water mark;   *)
(*                   registers are numbered after the locals               *)
(*   entries         the LazyArena: one entry per borrow, never reused     *)
(*   origin          for each local, the entry that still borrows it       *)
(*   allocation_len, free_slots                                            *)
(*                   the SpillArena: slots handed out so far, and those    *)
(*                   whose borrow is gone, most recently freed last        *)
(*   consts          the constant interner, in interning order             *)
(*   failed          an operation returned RegisterFrameTooLarge; lowering *)
(*                   stops at once and the record is thrown away           *)
(***************************************************************************)
EXTENDS Integers, Sequences, FiniteSets

CONSTANTS
  LocalsCount,         \* parameters and declared locals of the function
  Val,                 \* the values a constant can denote
  MAX_REGISTER_SLOTS,  \* u16::MAX in the source: locals and operand registers
  MAX_SPILLS,          \* u16::MAX in the source: spill slots of one frame
  MAX_CONSTS           \* capacity of the constant interner

ASSUME LimitsAssumption ==
  /\ LocalsCount \in Nat
  /\ MAX_REGISTER_SLOTS \in Nat
  /\ LocalsCount <= MAX_REGISTER_SLOTS
  /\ MAX_SPILLS \in Nat
  /\ MAX_CONSTS \in Nat

Locals == 0 .. LocalsCount - 1

NoEntry == 0           \* entries are numbered from 1

StackSlot == [kind : {"Const", "Register", "Local"}, id : Nat]

Const(id)    == [kind |-> "Const", id |-> id]
Register(id) == [kind |-> "Register", id |-> id]
Local(id)    == [kind |-> "Local", id |-> id]

(***************************************************************************)
(* A LazyEntry: Original(index) while the local still holds the borrowed   *)
(* value, Spilled(index) once it has been copied to a spill slot.          *)
(***************************************************************************)
LazyEntry == [spilled : BOOLEAN, index : Nat, ref_count : Nat]

SimStack ==
  [stack : Seq(StackSlot), curr_register_index : Nat, max_registers : Nat,
   entries : Seq(LazyEntry), origin : [Locals -> Nat],
   allocation_len : Nat, free_slots : Seq(Nat),
   consts : Seq(Val), failed : BOOLEAN]

NewStack ==
  [stack |-> <<>>, curr_register_index |-> LocalsCount,
   max_registers |-> LocalsCount,
   entries |-> <<>>, origin |-> [x \in Locals |-> NoEntry],
   allocation_len |-> 0, free_slots |-> <<>>,
   consts |-> <<>>, failed |-> FALSE]

-----------------------------------------------------------------------------
(* Helpers on the record: the top of the stack and the stack below it.      *)

Height(s) == Len(s.stack)
Top(s)    == s.stack[Len(s.stack)]
Below(s)  == [s EXCEPT !.stack = SubSeq(s.stack, 1, Len(s.stack) - 1)]
Fail(s)   == [s EXCEPT !.failed = TRUE]

pushed(s, slot) == [s EXCEPT !.stack = Append(s.stack, slot)]

-----------------------------------------------------------------------------
(* LazyArena and SpillArena.                                                *)

(* Slips a release could make, for the mutation runs: one reference too     *)
(* many, an origin that outlives its borrow, a spill slot that does not     *)
(* outlive the first of several references.                                 *)
pop_lazy_twice(s, e) ==
  [s EXCEPT !.entries[e].ref_count = s.entries[e].ref_count - 2]

pop_lazy_keeping_origin(s, e) ==
  LET entry == s.entries[e]
      d == [s EXCEPT !.entries[e].ref_count = entry.ref_count - 1]
  IN  IF entry.ref_count = 1 /\ entry.spilled
      THEN [d EXCEPT !.free_slots = Append(s.free_slots, entry.index)]
      ELSE d

pop_lazy_freeing_early(s, e) ==
  LET entry == s.entries[e]
      d == [s EXCEPT !.entries[e].ref_count = entry.ref_count - 1]
  IN  IF entry.spilled
      THEN [d EXCEPT !.free_slots = Append(s.free_slots, entry.index)]
      ELSE IF entry.ref_count # 1 THEN d
      ELSE [d EXCEPT !.origin = [s.origin EXCEPT ![entry.index] = NoEntry]]

(* One reference to entry e is popped.  The last one releases what the      *)
(* entry held: its local's origin, or its spill slot.                       *)
pop_lazy(s, e) ==
  LET entry == s.entries[e]
      d == [s EXCEPT !.entries = [s.entries EXCEPT
                        ![e] = [entry EXCEPT !.ref_count = entry.ref_count - 1]]]
  IN  IF entry.ref_count # 1 THEN d
      ELSE IF entry.spilled
           THEN [d EXCEPT !.free_slots = Append(s.free_slots, entry.index)]
           ELSE [d EXCEPT !.origin = [s.origin EXCEPT ![entry.index] = NoEntry]]

(* The entry a push of local x puts on the stack ...                        *)
borrow(s, x) ==
  IF s.origin[x] # NoEntry THEN s.origin[x] ELSE Len(s.entries) + 1

(* A slip: a shared borrow is not counted.                                  *)
push_lazy_uncounted(s, x) ==
  IF s.origin[x] # NoEntry THEN s
  ELSE [s EXCEPT !.entries = Append(s.entries,
                   [spilled |-> FALSE, index |-> x, ref_count |-> 1]),
                 !.origin = [s.origin EXCEPT ![x] = Len(s.entries) + 1]]

(* ... and the arena after it: the live borrow is shared, or a fresh entry  *)
(* is allocated and registered as the local's origin.                       *)
push_lazy(s, x) ==
  LET e == s.origin[x]
  IN  IF e # NoEntry
      THEN [s EXCEPT !.entries = [s.entries EXCEPT
              ![e] = [s.entries[e] EXCEPT !.ref_count = s.entries[e].ref_count + 1]]]
      ELSE [s EXCEPT !.entries = Append(s.entries,
                          [spilled |-> FALSE, index |-> x, ref_count |-> 1]),
                     !.origin = [s.origin EXCEPT ![x] = Len(s.entries) + 1]]

(* The slot SpillArena::reserve_slot returns, and the arena after it.       *)
reserved(s) ==
  IF s.free_slots # <<>> THEN s.free_slots[Len(s.free_slots)]
  ELSE s.allocation_len

(* A slip: the limit is checked one slot too late.                          *)
reserve_slot_late(s) ==
  IF s.free_slots # <<>>
  THEN [s EXCEPT !.free_slots = SubSeq(s.free_slots, 1, Len(s.free_slots) - 1)]
  ELSE IF s.allocation_len > MAX_SPILLS THEN Fail(s)
       ELSE [s EXCEPT !.allocation_len = s.allocation_len + 1]

reserve_slot(s) ==
  IF s.free_slots # <<>>
  THEN [s EXCEPT !.free_slots = SubSeq(s.free_slots, 1, Len(s.free_slots) - 1)]
  ELSE IF s.allocation_len >= MAX_SPILLS THEN Fail(s)
       ELSE [s EXCEPT !.allocation_len = s.allocation_len + 1]

(* Does writing local x, or crossing a diverging construct, force a spill?  *)
borrowed(s, x) == s.origin[x] # NoEntry

(* A slip: the redirected borrow stays the local's origin.                  *)
set_lazy_keeping_origin(s, x) ==
  IF ~borrowed(s, x) THEN s
  ELSE LET e == s.origin[x]
       IN  [reserve_slot(s) EXCEPT !.entries = [s.entries EXCEPT
              ![e] = [s.entries[e] EXCEPT !.spilled = TRUE, !.index = reserved(s)]]]

(* The live borrow of local x, if there is one, is redirected to a spill    *)
(* slot; the caller emits LocalSpill(reserved(s), x).                       *)
set_lazy(s, x) ==
  IF ~borrowed(s, x) THEN s
  ELSE LET e == s.origin[x]
           r == reserve_slot(s)
       IN  [r EXCEPT !.entries = [s.entries EXCEPT
              ![e] = [s.entries[e] EXCEPT !.spilled = TRUE, !.index = reserved(s)]],
                     !.origin = [s.origin EXCEPT ![x] = NoEntry]]

-----------------------------------------------------------------------------
(* The stack itself.                                                        *)

advanced_register_index(s) ==
  LET c == s.curr_register_index + 1
  IN  IF c <= s.max_registers THEN [s EXCEPT !.curr_register_index = c]
      ELSE IF s.max_registers >= MAX_REGISTER_SLOTS THEN Fail(s)
           ELSE [s EXCEPT !.curr_register_index = c,
                          !.max_registers = s.max_registers + 1]

(* A slip: popping a register does not give it back.                        *)
pop_without_receding(s) ==
  IF Top(s).kind = "Local" THEN pop_lazy(Below(s), Top(s).id) ELSE Below(s)

pop(s) ==
  LET top == Top(s)
  IN  CASE top.kind = "Const"    -> Below(s)
        [] top.kind = "Register" ->
             [Below(s) EXCEPT !.curr_register_index = s.curr_register_index - 1]
        [] top.kind = "Local"    -> pop_lazy(Below(s), top.id)

push_local(s, x) == pushed(push_lazy(s, x), Local(borrow(s, x)))

(* Every register pushed by the lowering is the next free one.              *)
push_register(s) ==
  pushed(advanced_register_index(s), Register(s.curr_register_index))

(* Interner::try_intern: an equal constant keeps its id; ids count from 0.   *)
interned(s, v) == \E i \in DOMAIN s.consts : s.consts[i] = v
const_id(s, v) ==
  IF interned(s, v) THEN (CHOOSE i \in DOMAIN s.consts : s.consts[i] = v) - 1
  ELSE Len(s.consts)

push_const(s, v) ==
  LET c == IF interned(s, v) THEN s
           ELSE IF Len(s.consts) >= MAX_CONSTS THEN Fail(s)
           ELSE [s EXCEPT !.consts = Append(s.consts, v)]
  IN  pushed(c, Const(const_id(s, v)))

-----------------------------------------------------------------------------
(* Where a slot's value lives when the emitted instruction runs: what pop,  *)
(* simulated_pop and tee report as a BackPatchableSlot.  Slot is a local.   *)

BackPatchableSlot ==
  [region : {"Const", "Register", "Spill", "Slot"}, index : Nat]

location(s, slot) ==
  CASE slot.kind = "Const"    -> [region |-> "Const", index |-> slot.id]
    [] slot.kind = "Register" -> [region |-> "Register", index |-> slot.id]
    [] slot.kind = "Local"    ->
         [region |-> IF s.entries[slot.id].spilled THEN "Spill" ELSE "Slot",
          index  |-> s.entries[slot.id].index]

-----------------------------------------------------------------------------
(* The invariants of a simulated stack, as predicates on the record so that *)
(* every machine built on it can check them.                                *)

Entries(s) == 1 .. Len(s.entries)

Positions(s) == 1 .. Len(s.stack)

(* The stack positions that share entry e.                                  *)
Borrowers(s, e) == {i \in Positions(s) : s.stack[i] = Local(e)}

Live(s, e) == s.entries[e].ref_count > 0

SpilledLive(s, e) == Live(s, e) /\ s.entries[e].spilled

RefCountsOK(s) ==
  /\ \A e \in Entries(s) : s.entries[e].ref_count = Cardinality(Borrowers(s, e))
  /\ \A i \in Positions(s) :
       /\ s.stack[i].kind = "Local" => s.stack[i].id \in Entries(s)
       /\ s.stack[i].kind = "Const" => s.stack[i].id \in 0 .. Len(s.consts) - 1

OriginsOK(s) ==
  /\ \A x \in Locals : borrowed(s, x) =>
       /\ s.origin[x] \in Entries(s)
       /\ Live(s, s.origin[x])
       /\ ~s.entries[s.origin[x]].spilled
       /\ s.entries[s.origin[x]].index = x
  /\ \A e \in Entries(s) : Live(s, e) /\ ~s.entries[e].spilled =>
       /\ s.entries[e].index \in Locals
       /\ s.origin[s.entries[e].index] = e

SpillsOK(s) ==
  /\ s.allocation_len <= MAX_SPILLS
  /\ \A i, j \in DOMAIN s.free_slots : s.free_slots[i] = s.free_slots[j] => i = j
  /\ \A i \in DOMAIN s.free_slots : s.free_slots[i] < s.allocation_len
  /\ \A e \in Entries(s) : SpilledLive(s, e) =>
       /\ s.entries[e].index < s.allocation_len
       /\ \A i \in DOMAIN s.free_slots : s.free_slots[i] # s.entries[e].index
       /\ \A f \in Entries(s) :
            SpilledLive(s, f) /\ s.entries[f].index = s.entries[e].index => f = e
  /\ \A k \in 0 .. s.allocation_len - 1 :
       \/ \E i \in DOMAIN s.free_slots : s.free_slots[i] = k
       \/ \E e \in Entries(s) : SpilledLive(s, e) /\ s.entries[e].index = k

IsRegister(s, i) == s.stack[i].kind = "Register"

RegistersOK(s) ==
  /\ LocalsCount <= s.curr_register_index
  /\ s.curr_register_index <= s.max_registers
  /\ s.max_registers <= MAX_REGISTER_SLOTS
  /\ \A i \in Positions(s) : IsRegister(s, i) =>
       s.stack[i].id \in LocalsCount .. s.curr_register_index - 1
  /\ \A i, j \in Positions(s) : i < j /\ IsRegister(s, i) /\ IsRegister(s, j) =>
       s.stack[i].id < s.stack[j].id
  /\ \A r \in LocalsCount .. s.curr_register_index - 1 :
       \E i \in Positions(s) : s.stack[i] = Register(r)
=============================================================================
