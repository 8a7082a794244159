----------------------------- MODULE RegLowering -----------------------------
(***************************************************************************)
(* The register lowering of a function body with structured control flow   *)
(* (RegInstruction::emit_instructions_for_func): one pass over the         *)
(* operators, one action per operator, then the end-of-body pass that      *)
(* resolves every operand to a frame index.                                *)
(*                                                                         *)
(*   lowering.sim            the simulated stack                           *)
(*   lowering.control_stack  the open labels, function frame first         *)
(*   lowering.instructions   what has been emitted; the source's index i   *)
(*                           is position i + 1                             *)
(*   lowering.backpatch_map  the operand runs recorded so far, each with   *)
(*                           the index of the instruction it belongs to    *)
(*   instruction_offsets     the operator each instruction came from, by   *)
(*                           its position in the body                      *)
(*   tracking                the dead-code filter                          *)
(*                                                                         *)
(* The body is what BodyReader yields.                                     *)
(***************************************************************************)
EXTENDS SimulatedStack, BodyReader

CONSTANTS
  MAX_FRAME      \* u16::MAX in the source: the four regions of a frame

(* A validated body names locals the function has.                          *)
ASSUME BodiesAssumption ==
  \A a \in DOMAIN Alphabets : \A o \in Alphabets[a].ops :
    /\ o.op \in {"LocalGet", "LocalSet", "LocalTee"} => o.x \in Locals
    /\ o.op = "Const" => o.x \in Val

VARIABLES
  lowering,
  instruction_offsets,
  tracking,
  status         \* "lowering", "failed" (RegisterFrameTooLarge) or "lowered"

loweringVars == <<readerVars, lowering, instruction_offsets, tracking, status>>

Unset == -1      \* u32::MAX, a jump target that End will fill in

Jumping == {"If", "Else", "Br", "BrIf", "BrTable", "Return"}

-----------------------------------------------------------------------------
(* Instructions.  in is the operands, filled in by apply; out is the first  *)
(* destination register; the other fields are the variant's own.            *)

Instr(op) == [op |-> op, in |-> <<>>, out |-> 0]

Move(out)            == [op |-> "Move", in |-> <<>>, out |-> out]
LocalSpillInstr(x, k) == [op |-> "LocalSpill", in |-> <<>>, out |-> 0, index |-> x, spill_index |-> k]
WriteLocal(op, x)    == [op |-> op, in |-> <<>>, out |-> 0, index |-> x]
IfInstr              == [op |-> "If", in |-> <<>>, out |-> 0, else_index |-> Unset, end_index |-> Unset]
ElseInstr            == [op |-> "Else", in |-> <<>>, out |-> 0, end_index |-> Unset]
Jump(op, target, out) == [op |-> op, in |-> <<>>, out |-> out, target_index |-> target]
CallInstr(op, base, ty) == [op |-> op, in |-> <<>>, out |-> 0, caller_base |-> base, ty |-> ty]
BrTableInstr(arms)   == [op |-> "BrTable", in |-> <<>>, out |-> 0, br_targets |-> arms]

len(L) == Len(L.instructions)
emit(L, instr) == [L EXCEPT !.instructions = Append(L.instructions, instr)]

NewBlock(kind, index, height, params, results) ==
  [kind |-> kind, index |-> index, else_index |-> Unset, recorded_height |-> height,
   params |-> params, results |-> results, attached_breaks |-> <<>>]

NewLowering ==
  [sim |-> NewStack, control_stack |-> <<NewBlock("Func", 0, 0, 0, ResultsCount)>>,
   instructions |-> <<>>, backpatch_map |-> <<>>]

-----------------------------------------------------------------------------
(* Operand runs and the simulated stack.                                    *)

pop_n(s, n) ==
  LET f[k \in 0 .. n] == IF k = 0 THEN s ELSE pop(f[k - 1]) IN f[n]

push_n(s, n) ==
  LET f[k \in 0 .. n] == IF k = 0 THEN s ELSE push_register(f[k - 1]) IN f[n]

(* Where the top n operands live, deepest first.  A pop moves none of the   *)
(* operands below it, so this is what popping them one by one reports.      *)
top_locations(s, n) ==
  [j \in 1 .. n |-> location(s, s.stack[Len(s.stack) - n + j])]

record_run(L, source, slots) ==
  [L EXCEPT !.backpatch_map =
     Append(L.backpatch_map, [at |-> len(L), source |-> source, slots |-> slots])]

(* The stack effect alone, for a reset that describes no instruction.       *)
pops_and_pushes(s, pops, pushes) == push_n(pop_n(s, pops), pushes)

output_start(L, pops) == pop_n(L.sim, pops).curr_register_index

(* The effect of the instruction about to be emitted, its operands recorded *)
(* under the index it will have.                                            *)
pops_and_pushes_registers(L, pops, pushes, source) ==
  [record_run(L, source, top_locations(L.sim, pops))
     EXCEPT !.sim = pops_and_pushes(L.sim, pops, pushes)]

(* The top n operands are forced into consecutive registers by a Move;      *)
(* nothing is emitted for n = 0.                                            *)
materialize(L, n) ==
  IF n = 0 THEN L
  ELSE emit(pops_and_pushes_registers(L, n, n, "Emit"), Move(output_start(L, n)))

(* LocalSpill ahead of a write of x, when x is borrowed.                    *)
rescue(L, x) ==
  IF ~borrowed(L.sim, x) THEN L
  ELSE emit([L EXCEPT !.sim = set_lazy(L.sim, x)], LocalSpillInstr(x, reserved(L.sim)))

(* Every live borrow is rescued ahead of a construct that diverges or       *)
(* repeats.                                                                 *)
spill_live_locals(L) ==
  LET f[x \in 0 .. LocalsCount] == IF x = 0 THEN L ELSE rescue(f[x - 1], x - 1)
  IN  f[LocalsCount]

(* A slip: every operand is taken for a register.                           *)
register_index_by_count(s, depth) == s.curr_register_index - depth

(* The register the first of the top depth operands occupies, or would once *)
(* they are materialized: one register is given back per register slot.     *)
register_index_at_depth(s, depth) ==
  s.curr_register_index
    - Cardinality({i \in Len(s.stack) - depth + 1 .. Len(s.stack) :
                     s.stack[i].kind = "Register"})

(* A slip: the stack height taken for the register height.                  *)
truncation_base_by_height(s, base) ==
  s.curr_register_index - (Len(s.stack) - base)

(* The register a branch to a label of height base puts its first value in: *)
(* the same walk, down to the label.                                        *)
truncation_base(s, base) == register_index_at_depth(s, Len(s.stack) - base)

(* The Move of a branch, without changing the stack: the carried operands   *)
(* are recorded and the destinations counted into max_registers.            *)
br_truncation_registers(L, base, arity, source) ==
  LET s    == L.sim
      peak == truncation_base(s, base) + arity
      R    == IF arity = 0 THEN L ELSE record_run(L, source, top_locations(s, arity))
  IN  IF peak <= s.max_registers THEN R
      ELSE IF peak > MAX_REGISTER_SLOTS THEN [R EXCEPT !.sim = Fail(s)]
      ELSE [R EXCEPT !.sim.max_registers = peak]

-----------------------------------------------------------------------------
(* Labels.                                                                  *)

curr_block(L) == L.control_stack[Len(L.control_stack)]
block_at(L, depth) == Len(L.control_stack) - depth

(* A slip: the params Move is forgotten in the recorded index.              *)
add_block_at_move(L, kind, ty) ==
  LET cond == IF kind = "If" THEN 1 ELSE 0
  IN  [L EXCEPT !.control_stack = Append(L.control_stack,
         NewBlock(kind, len(L), Height(L.sim) - ty[1] - cond, ty[1], ty[2]))]

(* add_block runs before the params Move is emitted, so the index it        *)
(* records for If and Loop accounts for that Move.                          *)
add_block(L, kind, ty) ==
  LET cond  == IF kind = "If" THEN 1 ELSE 0
      index == IF ty[1] # 0 THEN len(L) + 1 ELSE len(L)
  IN  [L EXCEPT !.control_stack = Append(L.control_stack,
         NewBlock(kind, index, Height(L.sim) - ty[1] - cond, ty[1], ty[2]))]

(* A slip: the innermost label is handed the branch, whichever it names.    *)
attach_to_innermost(L, k, index, arm) ==
  IF L.control_stack[k].kind = "Loop" THEN L
  ELSE [L EXCEPT !.control_stack[Len(L.control_stack)].attached_breaks =
          Append(curr_block(L).attached_breaks, <<index, arm>>)]

(* A branch to a loop jumps back to a known index; any other waits for the  *)
(* label's End, attached under the index the branch will have.              *)
attach(L, k, index, arm) ==
  IF L.control_stack[k].kind = "Loop" THEN L
  ELSE [L EXCEPT !.control_stack[k].attached_breaks =
          Append(L.control_stack[k].attached_breaks, <<index, arm>>)]

branch_arity(b) == IF b.kind = "Loop" THEN b.params ELSE b.results
branch_target(b) == IF b.kind = "Loop" THEN b.index ELSE Unset

(* A slip: the abandoned operands are truncated, not popped.                *)
reset_by_truncation(L) ==
  LET b == curr_block(L)
      s == [L.sim EXCEPT !.stack = SubSeq(L.sim.stack, 1, b.recorded_height)]
  IN  [L EXCEPT !.sim = push_n(s, b.results)]

(* After an unconditional transfer the enclosing block is put where its     *)
(* else or end expects it.                                                  *)
reset_enclosing_block_layout(L) ==
  LET b == curr_block(L)
  IN  [L EXCEPT !.sim =
         pops_and_pushes(L.sim, Height(L.sim) - b.recorded_height, b.results)]

-----------------------------------------------------------------------------
(* The lowering of each operator, on the lowering record.                   *)

(* An instruction of fixed arity: a numeric operator, a global, Select.     *)
LowerNumeric(L, o) ==
  LET a == Arity[o.op]
  IN  emit(pops_and_pushes_registers(L, a[1], a[2], "Emit"),
           [Instr(o.op) EXCEPT !.out = output_start(L, a[1])])

LowerLocalSet(L, x) ==
  emit(pops_and_pushes_registers(rescue(L, x), 1, 0, "Emit"), WriteLocal("LocalSet", x))

LowerLocalTee(L, x) ==
  LET R == rescue(L, x)
  IN  emit(record_run(R, "Emit", top_locations(R.sim, 1)), WriteLocal("LocalTee", x))

(* The arguments are moved to where the callee's frame begins, and the      *)
(* results are found there when it returns.                                 *)
LowerCall(L, ty) ==
  LET M == emit(materialize(L, ty[1]),
                CallInstr("Call", register_index_at_depth(L.sim, ty[1]), ty))
  IN  [M EXCEPT !.sim = pops_and_pushes(M.sim, ty[1], ty[2])]

(* A slip: the window does not span the table slot.                         *)
LowerCallIndirectShort(L, ty) ==
  LET S == pops_and_pushes_registers(L, 1, 0, "CallIndirectSlot")
      M == emit(pops_and_pushes_registers(S, ty[1], ty[1], "CallIndirectMov"),
                CallInstr("CallIndirect", register_index_at_depth(L.sim, ty[1]), ty))
  IN  [M EXCEPT !.sim = pops_and_pushes(M.sim, ty[1], ty[2])]

(* An indirect call pops its table slot too, and moves the arguments        *)
(* itself.                                                                  *)
LowerCallIndirect(L, ty) ==
  LET S == pops_and_pushes_registers(L, 1, 0, "CallIndirectSlot")
      M == emit(pops_and_pushes_registers(S, ty[1], ty[1], "CallIndirectMov"),
                CallInstr("CallIndirect", register_index_at_depth(L.sim, ty[1] + 1), ty))
  IN  [M EXCEPT !.sim = pops_and_pushes(M.sim, ty[1], ty[2])]

(* The operators that neither open, close nor leave a block.                *)
LowerPlain(L, o) ==
  CASE o.op = "Const"    -> [L EXCEPT !.sim = push_const(L.sim, o.x)]
    [] o.op = "LocalGet" -> [L EXCEPT !.sim = push_local(L.sim, o.x)]
    [] o.op = "LocalSet" -> LowerLocalSet(L, o.x)
    [] o.op = "LocalTee" -> LowerLocalTee(L, o.x)
    [] o.op = "Drop"     -> [L EXCEPT !.sim = pop(L.sim)]
    [] o.op = "Nop"      -> L
    [] OTHER             -> LowerNumeric(L, o)

LowerBlock(L, o) == materialize(add_block(L, "Block", o.ty), o.ty[1])

(* A slip, here and below: a construct that repeats or diverges does not    *)
(* hoist the rescue of the live borrows.                                    *)
OpenLoop(L, o) ==
  emit(materialize(add_block(L, "Loop", o.ty), o.ty[1]), Instr("Loop"))
LowerLoopUnspilled(L, o) == OpenLoop(L, o)

LowerLoop(L, o) == OpenLoop(spill_live_locals(L), o)

(* The condition is materialized with the params, above them, and popped by *)
(* the If itself.                                                           *)
OpenIf(L, o) ==
  LET B == add_block(L, "If", o.ty)
      M == IF o.ty[1] = 0 THEN B ELSE materialize(B, o.ty[1] + 1)
  IN  emit(pops_and_pushes_registers(M, 1, 0, "Emit"), IfInstr)

LowerIf(L, o) == OpenIf(spill_live_locals(L), o)

(* A slip: the results of the first arm stay wherever they live.            *)
LowerElseUnmoved(L) ==
  LET b == curr_block(L)
      E == [L EXCEPT !.control_stack[Len(L.control_stack)].else_index = len(L)]
  IN  emit([E EXCEPT !.sim =
              pops_and_pushes(E.sim, Height(E.sim) - b.recorded_height, b.params)],
           ElseInstr)

(* The first arm's results are moved to where the End expects them, then    *)
(* the second arm starts from the params.                                   *)
LowerElse(L) ==
  LET b == curr_block(L)
      E == [L EXCEPT !.control_stack[Len(L.control_stack)].else_index =
              IF b.results = 0 THEN len(L) ELSE len(L) + 1]
      M == materialize(E, b.results)
  IN  emit([M EXCEPT !.sim =
              pops_and_pushes(M.sim, Height(M.sim) - b.recorded_height, b.params)],
           ElseInstr)

(* Br, and Return, which branches to the function frame.                    *)
LowerBr(L, name, k) ==
  LET b == L.control_stack[k]
      n == branch_arity(b)
      T == br_truncation_registers(L, b.recorded_height, n, "Emit")
      A == attach(T, k, IF n = 0 THEN len(T) ELSE len(T) + 1, 0)
      M == IF n = 0 THEN A ELSE emit(A, Move(truncation_base(L.sim, b.recorded_height)))
  IN  reset_enclosing_block_layout(emit(M, Jump(name, branch_target(b), 0)))

BranchIf(L, depth) ==
  LET k == block_at(L, depth)
      b == L.control_stack[k]
      C == pops_and_pushes_registers(L, 1, 0, "BrIfCond")
      T == br_truncation_registers(C, b.recorded_height, branch_arity(b), "BrIfMov")
  IN  emit(attach(T, k, len(T), 0),
           Jump("BrIf", branch_target(b), truncation_base(C.sim, b.recorded_height)))
LowerBrIfUnspilled(L, depth) == BranchIf(L, depth)

LowerBrIf(L, depth) == BranchIf(spill_live_locals(L), depth)

(* Every arm is computed against the same stack; the default is last.       *)
BranchTable(L, depths) ==
  LET C == pops_and_pushes_registers(L, 1, 0, "BrTableIndex")
      label(i) == C.control_stack[block_at(C, depths[i])]
      arm(i) == [target_index |-> branch_target(label(i)),
                 out |-> truncation_base(C.sim, label(i).recorded_height)]
      A[i \in 0 .. Len(depths)] ==
        IF i = 0 THEN C
        ELSE LET T == br_truncation_registers(A[i - 1], label(i).recorded_height,
                                              branch_arity(label(i)), "BrTableMov")
             IN  attach(T, block_at(C, depths[i]), len(T), i)
  IN  reset_enclosing_block_layout(
        emit(A[Len(depths)], BrTableInstr([i \in 1 .. Len(depths) |-> arm(i)])))
LowerBrTableUnspilled(L, depths) == BranchTable(L, depths)

LowerBrTable(L, depths) == BranchTable(spill_live_locals(L), depths)

LowerUnreachable(L) == reset_enclosing_block_layout(emit(L, Instr("Unreachable")))

(* A slip: the else is not told where its construct closes.                 *)
patched_without_else(instr, i, b, index) ==
  IF instr.op = "If" /\ b.kind = "If" /\ i = b.index
  THEN [instr EXCEPT !.else_index = b.else_index, !.end_index = index]
  ELSE instr

(* End of block b, at index: its branches, and its own if and else, learn   *)
(* where it is.                                                             *)
patched(instr, i, b, index) ==
  LET breaks == {b.attached_breaks[j] : j \in 1 .. Len(b.attached_breaks)}
  IN  CASE instr.op = "BrTable" ->
             [instr EXCEPT !.br_targets = [j \in DOMAIN instr.br_targets |->
                IF <<i, j>> \in breaks
                THEN [instr.br_targets[j] EXCEPT !.target_index = index]
                ELSE instr.br_targets[j]]]
        [] instr.op \in {"Br", "BrIf", "Return"} /\ <<i, 0>> \in breaks ->
             [instr EXCEPT !.target_index = index]
        [] instr.op = "If" /\ b.kind = "If" /\ i = b.index ->
             [instr EXCEPT !.else_index = b.else_index, !.end_index = index]
        [] instr.op = "Else" /\ b.kind = "If" /\ i = b.else_index ->
             [instr EXCEPT !.end_index = index]
        [] OTHER -> instr

LowerEnd(L) ==
  LET b == curr_block(L)
      M == materialize([L EXCEPT !.control_stack =
                          SubSeq(L.control_stack, 1, Len(L.control_stack) - 1)], b.results)
  IN  emit([M EXCEPT !.instructions =
              [i \in DOMAIN M.instructions |-> patched(M.instructions[i], i - 1, b, len(M))]],
           Instr("End"))

-----------------------------------------------------------------------------
(* Dead code (check_unreachablity): after an unconditional transfer every   *)
(* operator is skipped up to the else or end of the block it ended.  Blocks *)
(* opened while dead are counted, so their else and end stay dead.          *)

LiveTracking == [unreachable |-> FALSE, blocks |-> <<>>]

(* A slip: any else or end ends the dead code.                              *)
ResumesAnyway(o) == o.op \in {"Else", "End"}

Resumes(o) == o.op \in {"Else", "End"} /\ tracking.blocks = <<>>

Reachable(o) == ~tracking.unreachable \/ Resumes(o)

Skipped(o) ==
  CASE Opens(o)      -> [tracking EXCEPT !.blocks = Append(tracking.blocks, o.op)]
    [] o.op = "End"  -> [tracking EXCEPT !.blocks =
                           SubSeq(tracking.blocks, 1, Len(tracking.blocks) - 1)]
    [] OTHER         -> tracking

-----------------------------------------------------------------------------
(* The pass.                                                                *)

Init ==
  /\ ReaderInit
  /\ lowering = NewLowering
  /\ instruction_offsets = <<>>
  /\ tracking = LiveTracking
  /\ status = "lowering"

Reads(o) == status = "lowering" /\ ReadsOperator(o)

(* Each instruction is pushed with the offset of the operator being read,   *)
(* the Moves and LocalSpills ahead of it included.                          *)
offsets_to(L) ==
  instruction_offsets \o [k \in 1 .. len(L) - len(lowering) |-> Len(ops) + 1]

(* A reachable operator is lowered; an error ends the pass.                 *)
Lowers(o, L) ==
  /\ Reachable(o)
  /\ lowering' = L
  /\ instruction_offsets' = offsets_to(L)
  /\ status' = IF L.sim.failed THEN "failed" ELSE status

Plainly(o) ==
  /\ Plain(o) /\ Reads(o) /\ Lowers(o, LowerPlain(lowering, o))
  /\ UNCHANGED tracking

Call(o) ==
  /\ o.op = "Call" /\ Reads(o) /\ Lowers(o, LowerCall(lowering, o.ty))
  /\ UNCHANGED tracking

CallIndirect(o) ==
  /\ o.op = "CallIndirect" /\ Reads(o) /\ Lowers(o, LowerCallIndirect(lowering, o.ty))
  /\ UNCHANGED tracking

Block(o) ==
  /\ o.op = "Block" /\ Reads(o) /\ Lowers(o, LowerBlock(lowering, o))
  /\ UNCHANGED tracking

Loop(o) ==
  /\ o.op = "Loop" /\ Reads(o) /\ Lowers(o, LowerLoop(lowering, o))
  /\ UNCHANGED tracking

If(o) ==
  /\ o.op = "If" /\ Reads(o) /\ Lowers(o, LowerIf(lowering, o))
  /\ UNCHANGED tracking

BrIf(o) ==
  /\ o.op = "BrIf" /\ Reads(o) /\ Lowers(o, LowerBrIf(lowering, o.x))
  /\ UNCHANGED tracking

Else(o) ==
  /\ o.op = "Else" /\ Reads(o) /\ Lowers(o, LowerElse(lowering))
  /\ tracking' = LiveTracking

End(o) ==
  /\ o.op = "End" /\ Reads(o) /\ Lowers(o, LowerEnd(lowering))
  /\ tracking' = LiveTracking

SetUnreachable == tracking' = [tracking EXCEPT !.unreachable = TRUE]

Br(o) ==
  /\ o.op = "Br" /\ Reads(o)
  /\ Lowers(o, LowerBr(lowering, "Br", block_at(lowering, o.x)))
  /\ SetUnreachable

Return(o) ==
  /\ o.op = "Return" /\ Reads(o) /\ Lowers(o, LowerBr(lowering, "Return", 1))
  /\ SetUnreachable

BrTable(o) ==
  /\ o.op = "BrTable" /\ Reads(o) /\ Lowers(o, LowerBrTable(lowering, o.arms))
  /\ SetUnreachable

Trap(o) ==
  /\ o.op = "Unreachable" /\ Reads(o) /\ Lowers(o, LowerUnreachable(lowering))
  /\ SetUnreachable

Skip(o) ==
  /\ Reads(o) /\ ~Reachable(o)
  /\ tracking' = Skipped(o)
  /\ UNCHANGED <<lowering, instruction_offsets, status>>

-----------------------------------------------------------------------------
(* The end of the body: the region sizes are final, so every operand gets   *)
(* its index in the frame | locals | consts | spills | registers |.         *)

spills_of(L) == L.sim.allocation_len
consts_of(L) == Len(L.sim.consts)
frame_width(L) == L.sim.max_registers + spills_of(L) + consts_of(L)

absolute_slot_in_frame(b, locals, consts, spills) ==
  CASE b.region = "Slot"     -> b.index
    [] b.region = "Const"    -> b.index + locals
    [] b.region = "Spill"    -> b.index + locals + consts
    [] b.region = "Register" -> b.index + consts + spills

(* The runs recorded for one instruction, in recording order.               *)
runs_at(L, i) == SelectSeq(L.backpatch_map, LAMBDA r : r.at = i)

(* BackpatchMap::apply, for one instruction: its runs are resolved in       *)
(* order, and its destinations lifted clear of constants and spills.        *)
apply(L, i) ==
  LET instr == L.instructions[i + 1]
      runs  == runs_at(L, i)
      shift == consts_of(L) + spills_of(L)
      slots(r) == [j \in DOMAIN r.slots |->
        absolute_slot_in_frame(r.slots[j], LocalsCount, consts_of(L), spills_of(L))]
      resolved == [instr EXCEPT !.in = [j \in DOMAIN runs |-> slots(runs[j])],
                                !.out = instr.out + shift]
  IN  IF runs = <<>> THEN instr
      ELSE IF instr.op = "BrTable"
      THEN [resolved EXCEPT !.br_targets = [j \in DOMAIN instr.br_targets |->
              [instr.br_targets[j] EXCEPT !.out = instr.br_targets[j].out + shift]]]
      ELSE resolved

(* A callee's frame begins at an operand register, so it takes the same     *)
(* shift.                                                                   *)
rebased(instr, L) ==
  IF instr.op \in {"Call", "CallIndirect"}
  THEN [instr EXCEPT !.caller_base = instr.caller_base + consts_of(L) + spills_of(L)]
  ELSE instr

Resolve ==
  /\ status = "lowering"
  /\ AtEnd
  /\ IF frame_width(lowering) > MAX_FRAME
     THEN status' = "failed" /\ UNCHANGED lowering
     ELSE /\ status' = "lowered"
          /\ lowering' = [lowering EXCEPT !.instructions =
               [i \in DOMAIN lowering.instructions |->
                  rebased(apply(lowering, i - 1), lowering)]]
  /\ UNCHANGED <<readerVars, instruction_offsets, tracking>>

Lower(o) ==
  \/ Plainly(o) \/ Call(o) \/ CallIndirect(o) \/ Block(o) \/ Loop(o) \/ If(o) \/ Else(o) \/ End(o)
  \/ Br(o) \/ BrIf(o) \/ BrTable(o) \/ Return(o) \/ Trap(o) \/ Skip(o)

-----------------------------------------------------------------------------
(* The simulated stack stays consistent through every construct: counts,    *)
(* origins, spill slots and registers, whatever branches, resets and merges *)
(* the body has.                                                            *)
StackConsistent ==
  LET s == lowering.sim
  IN  status # "failed" =>
        RefCountsOK(s) /\ OriginsOK(s) /\ SpillsOK(s) /\ RegistersOK(s)

(* The lowering's labels are the validator's, except those opened in dead   *)
(* code, and the simulated stack has the height the validator expects: that *)
(* of the operators while code is live, and the innermost label's entry     *)
(* height plus its results while it is dead.  End's debug_assert is the     *)
(* instance of this at an end.                                              *)
HeightsAgree ==
  LET cs == lowering.control_stack
  IN  status = "lowering" /\ valid.labels # <<>> =>
        /\ Len(cs) + Len(tracking.blocks) = Len(valid.labels)
        /\ \A k \in DOMAIN cs : cs[k].recorded_height = valid.labels[k].height
        /\ Height(lowering.sim) =
             IF tracking.unreachable
             THEN curr_block(lowering).recorded_height + curr_block(lowering).results
             ELSE valid.height

(* Instruction t is the one the operator at p became, and no Move or        *)
(* LocalSpill emitted ahead of it.                                          *)
GoesTo(t, p) ==
  /\ t \in 0 .. len(lowering) - 1
  /\ instruction_offsets[t + 1] = p
  /\ lowering.instructions[t + 1].op = ops[p].op

(* Every jump of a lowered body, whose targets are indices into a list with *)
(* Moves and LocalSpills in between and with the dead operators left out,   *)
(* goes to its own place: a branch and every arm of a table to the Loop or  *)
(* the End of the label its depth names, a return to the function's End, an *)
(* if to its End and to its Else when it has one, an else to its End.       *)
JumpsLand ==
  status = "lowered" => \A i \in DOMAIN lowering.instructions :
    LET jump == lowering.instructions[i]
        p    == instruction_offsets[i]
        Branches(t, depth) == GoesTo(t, LandingOf(OpenerAt(p, depth)) + 1)
    IN  /\ jump.op \in Jumping => ops[p].op = jump.op
        /\ CASE jump.op \in {"Br", "BrIf"} -> Branches(jump.target_index, ops[p].x)
             [] jump.op = "BrTable" ->
                  /\ DOMAIN jump.br_targets = DOMAIN ops[p].arms
                  /\ \A a \in DOMAIN jump.br_targets :
                       Branches(jump.br_targets[a].target_index, ops[p].arms[a])
             [] jump.op = "Return" -> GoesTo(jump.target_index, LandingOf(0) + 1)
             [] jump.op = "If" ->
                  /\ GoesTo(jump.end_index, MatchingEnd(ops, p))
                  /\ IF ops[FalseArm(ops, p)].op = "Else"
                     THEN GoesTo(jump.else_index, FalseArm(ops, p))
                     ELSE jump.else_index = Unset
             [] jump.op = "Else" -> GoesTo(jump.end_index, MatchingEnd(ops, OpenerAt(p, 0)))
             [] OTHER -> TRUE

(* Every operand and destination of a lowered body lies inside the frame    *)
(* that is allocated for it: max_registers and allocation_len are true      *)
(* high-water marks, the destinations of branches never pushed included.    *)
FrameCovers ==
  LET code == lowering.instructions
      width == frame_width(lowering)
      base == LocalsCount + consts_of(lowering) + spills_of(lowering)
      Destinations(i, n) == code[i].out >= base /\ code[i].out + n <= width
      Run(i, j) == IF j \in DOMAIN code[i].in THEN code[i].in[j] ELSE <<>>
  IN  status = "lowered" => \A i \in DOMAIN code :
        /\ \A j \in DOMAIN code[i].in : \A k \in DOMAIN code[i].in[j] :
             code[i].in[j][k] \in 0 .. width - 1
        /\ code[i].op = "LocalSpill" => code[i].spill_index < spills_of(lowering)
        /\ code[i].op \in {"Call", "CallIndirect"} =>
             /\ code[i].caller_base >= base
             /\ \A n \in {code[i].ty[1], code[i].ty[2]} : code[i].caller_base + n <= width
        /\ code[i].op = "Move" => Destinations(i, Len(code[i].in[1]))
        /\ code[i].op = "BrIf" /\ Len(code[i].in) = 2 => Destinations(i, Len(code[i].in[2]))
        /\ code[i].op = "BrTable" => \A j \in DOMAIN code[i].br_targets :
             LET n == Len(Run(i, j + 1))
             IN  n > 0 => /\ code[i].br_targets[j].out >= base
                          /\ code[i].br_targets[j].out + n <= width
=============================================================================
