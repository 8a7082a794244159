---------------------------- MODULE StackLowering ----------------------------
(***************************************************************************)
(* The stack lowering of a function body                                   *)
(* (StackInstruction::emit_instructions_for_func): one instruction per     *)
(* operator, so an operator and its instruction share their index, dead    *)
(* code included.                                                          *)
(*                                                                         *)
(*   lowering.inner         the open blocks, the function first            *)
(*   lowering.curr_height   the operand height the instructions will find  *)
(*   lowering.max_height    its maximum                                    *)
(*   lowering.instructions  what has been emitted; the source's index i is *)
(*                          position i + 1                                 *)
(*   lowering.br_targets    br_table_target_branches, the arms of every    *)
(*                          br_table one after another                     *)
(***************************************************************************)
EXTENDS BodyReader, Functions

VARIABLES
  lowering,
  status       \* "lowering" or "lowered"

loweringVars == <<readerVars, lowering, status>>

Unset == -1    \* u32::MAX, a jump target that End will fill in

-----------------------------------------------------------------------------
(* Instructions.  An operator without an immediate that changes here is its *)
(* own instruction.                                                         *)

IfInstr   == [op |-> "If", else_index |-> Unset, end_index |-> Unset]
ElseInstr == [op |-> "Else", if_end_index |-> Unset]

(* Br, BrIf, Return and one arm of a br_table (StackBrTableTarget).         *)
Jump(op, target, arity, height) ==
  [op |-> op, target_index |-> target, arity |-> arity, recorded_height |-> height]

BrTableInstr(start, length) == [op |-> "BrTable", start_index |-> start, len |-> length]
EndInstr(b) == [op |-> "End", arity |-> b.results, recorded_height |-> b.recorded_height]

len(L) == Len(L.instructions)

-----------------------------------------------------------------------------
(* ControlStack.                                                            *)

NewBlock(kind, index, height, params, results, dead) ==
  [kind |-> kind, index |-> index, else_index |-> Unset, recorded_height |-> height,
   params |-> params, results |-> results, is_unreachable_traversing |-> dead,
   has_inherited |-> dead, attached_breaks |-> <<>>]

NewLowering ==
  [inner |-> <<NewBlock("Func", 0, 0, 0, ResultsCount, FALSE)>>,
   curr_height |-> 0, max_height |-> 0, instructions |-> <<>>, br_targets |-> <<>>]

current(L) == Len(L.inner)
curr_block(L) == L.inner[current(L)]
block_at(L, depth) == current(L) - depth

(* A block opened in dead code is dead for good, its height unused; a live  *)
(* one records the height below its params, and below the condition of an   *)
(* if.                                                                      *)
add_block(L, o) ==
  LET dead == curr_block(L).is_unreachable_traversing
      cond == IF o.op = "If" THEN 1 ELSE 0
      height == IF dead THEN 0 ELSE L.curr_height - o.ty[1] - cond
  IN  [L EXCEPT !.inner = Append(L.inner, NewBlock(o.op, len(L), height, o.ty[1], o.ty[2], dead))]

set_unreachable_traversing(L) ==
  [L EXCEPT !.inner[current(L)].is_unreachable_traversing = TRUE]

(* A slip: an else revives its block wherever that was opened.              *)
end_unreachable_traversing_always(L) ==
  [L EXCEPT !.inner[current(L)].is_unreachable_traversing = FALSE]

(* A block that was born dead stays dead.                                   *)
end_unreachable_traversing(L) ==
  IF curr_block(L).has_inherited THEN L
  ELSE [L EXCEPT !.inner[current(L)].is_unreachable_traversing = FALSE]

note_height(L, height) ==
  [L EXCEPT !.curr_height = height,
            !.max_height = IF height > L.max_height THEN height ELSE L.max_height]

(* Dead code does not move the height; the End of the function always does. *)
set_height(L, height) ==
  IF L.inner # <<>> /\ curr_block(L).is_unreachable_traversing THEN L
  ELSE note_height(L, height)

apply_stack_effects_to_height(L, pops, pushes) ==
  IF L.inner = <<>> \/ curr_block(L).is_unreachable_traversing THEN L
  ELSE note_height(L, L.curr_height - pops + pushes)

-----------------------------------------------------------------------------
(* The lowering of each operator.                                           *)

push(L, instr) == [L EXCEPT !.instructions = Append(L.instructions, instr)]

(* An operator that only pops and pushes is emitted as it is.               *)
LowerPlain(L, o) ==
  push(apply_stack_effects_to_height(L, Arity[o.op][1], Arity[o.op][2]), o)

LowerCall(L, o) == push(apply_stack_effects_to_height(L, o.ty[1], o.ty[2]), o)

(* A slip: the table slot is not among the operands an indirect call pops.  *)
LowerCallIndirectShort(L, o) == push(apply_stack_effects_to_height(L, o.ty[1], o.ty[2]), o)

LowerCallIndirect(L, o) == push(apply_stack_effects_to_height(L, 1 + o.ty[1], o.ty[2]), o)

LowerBlock(L, o) == push(add_block(L, o), o)

LowerIf(L, o) == push(apply_stack_effects_to_height(add_block(L, o), 1, 0), IfInstr)

(* The first arm is over: its code was live if the if was, and the second   *)
(* arm starts from the params.                                              *)
LowerElse(L) ==
  LET b == curr_block(L)
      E == [L EXCEPT !.inner[current(L)].else_index = len(L)]
  IN  push(set_height(end_unreachable_traversing(E), b.recorded_height + b.params), ElseInstr)

branch_arity(b)  == IF b.kind = "Loop" THEN b.params ELSE b.results
branch_target(b) == IF b.kind = "Loop" THEN b.index ELSE Unset

(* A branch to a loop knows its target; any other waits for the block's     *)
(* End, attached under the branch's index and its slot in br_targets.       *)
attach(L, k, slot) ==
  IF L.inner[k].kind = "Loop" THEN L
  ELSE [L EXCEPT !.inner[k].attached_breaks =
          Append(L.inner[k].attached_breaks, <<len(L), slot>>)]

JumpTo(L, op, k) ==
  LET b == L.inner[k]
  IN  push(attach(L, k, Unset), Jump(op, branch_target(b), branch_arity(b), b.recorded_height))

LowerBr(L, depth) == set_unreachable_traversing(JumpTo(L, "Br", block_at(L, depth)))

LowerBrIf(L, depth) ==
  apply_stack_effects_to_height(JumpTo(L, "BrIf", block_at(L, depth)), 1, 0)

(* A slip: an arm is attached under its number in its own table.            *)
LowerBrTableRelative(L, depths) ==
  LET arm(i) == LET b == L.inner[block_at(L, depths[i])]
                IN  Jump("Arm", branch_target(b), branch_arity(b), b.recorded_height)
      A[i \in 0 .. Len(depths)] ==
        IF i = 0 THEN L ELSE attach(A[i - 1], block_at(L, depths[i]), i - 1)
      T == [A[Len(depths)] EXCEPT !.br_targets =
              L.br_targets \o [i \in 1 .. Len(depths) |-> arm(i)]]
  IN  set_unreachable_traversing(push(T, BrTableInstr(Len(L.br_targets), Len(depths))))

(* The arms, the default last, go to the end of the flat array, each under  *)
(* its own absolute slot.                                                   *)
LowerBrTable(L, depths) ==
  LET arm(i) == LET b == L.inner[block_at(L, depths[i])]
                IN  Jump("Arm", branch_target(b), branch_arity(b), b.recorded_height)
      start == Len(L.br_targets)
      A[i \in 0 .. Len(depths)] ==
        IF i = 0 THEN L ELSE attach(A[i - 1], block_at(L, depths[i]), start + i - 1)
      T == [A[Len(depths)] EXCEPT !.br_targets =
              L.br_targets \o [i \in 1 .. Len(depths) |-> arm(i)]]
  IN  set_unreachable_traversing(push(T, BrTableInstr(start, Len(depths))))

LowerReturn(L) == set_unreachable_traversing(JumpTo(L, "Return", 1))

LowerUnreachable(L) == push(set_unreachable_traversing(L), [op |-> "Unreachable"])

(* A slip: an if learns its end with its else, so one without never does.   *)
patched_with_else(instr, i, b, index) ==
  CASE instr.op \in {"Br", "BrIf", "Return"} /\ <<i, Unset>> \in Range(b.attached_breaks) ->
         [instr EXCEPT !.target_index = index]
    [] instr.op = "If" /\ b.else_index # Unset /\ i = b.index ->
         [instr EXCEPT !.else_index = b.else_index, !.end_index = index]
    [] instr.op = "Else" /\ b.kind = "If" /\ i = b.else_index ->
         [instr EXCEPT !.if_end_index = index]
    [] OTHER -> instr

(* End of block b, at index: its branches, and its own if and else, learn   *)
(* where it is.                                                             *)
patched(instr, i, b, index) ==
  CASE instr.op \in {"Br", "BrIf", "Return"} /\ <<i, Unset>> \in Range(b.attached_breaks) ->
         [instr EXCEPT !.target_index = index]
    [] instr.op = "If" /\ b.kind = "If" /\ i = b.index ->
         [instr EXCEPT !.else_index = b.else_index, !.end_index = index]
    [] instr.op = "Else" /\ b.kind = "If" /\ i = b.else_index ->
         [instr EXCEPT !.if_end_index = index]
    [] OTHER -> instr

patched_arm(arm, slot, b, index) ==
  IF \E p \in Range(b.attached_breaks) : p[2] = slot
  THEN [arm EXCEPT !.target_index = index] ELSE arm

LowerEnd(L) ==
  LET b == curr_block(L)
      P == [L EXCEPT
             !.inner = SubSeq(L.inner, 1, current(L) - 1),
             !.instructions = [i \in DOMAIN L.instructions |->
                                 patched(L.instructions[i], i - 1, b, len(L))],
             !.br_targets = [i \in DOMAIN L.br_targets |->
                               patched_arm(L.br_targets[i], i - 1, b, len(L))]]
  IN  push(set_height(P, b.recorded_height + b.results), EndInstr(b))

-----------------------------------------------------------------------------
(* The pass.                                                                *)

Init ==
  /\ ReaderInit
  /\ lowering = NewLowering
  /\ status = "lowering"

Reads(o) == status = "lowering" /\ ReadsOperator(o) /\ UNCHANGED status

Plainly(o)      == Plain(o) /\ Reads(o) /\ lowering' = LowerPlain(lowering, o)
Call(o)         == o.op = "Call" /\ Reads(o) /\ lowering' = LowerCall(lowering, o)
CallIndirect(o) == o.op = "CallIndirect" /\ Reads(o) /\ lowering' = LowerCallIndirect(lowering, o)
Block(o)        == o.op \in {"Block", "Loop"} /\ Reads(o) /\ lowering' = LowerBlock(lowering, o)
If(o)           == o.op = "If" /\ Reads(o) /\ lowering' = LowerIf(lowering, o)
Else(o)         == o.op = "Else" /\ Reads(o) /\ lowering' = LowerElse(lowering)
Br(o)           == o.op = "Br" /\ Reads(o) /\ lowering' = LowerBr(lowering, o.x)
BrIf(o)         == o.op = "BrIf" /\ Reads(o) /\ lowering' = LowerBrIf(lowering, o.x)
BrTable(o)      == o.op = "BrTable" /\ Reads(o) /\ lowering' = LowerBrTable(lowering, o.arms)
Return(o)       == o.op = "Return" /\ Reads(o) /\ lowering' = LowerReturn(lowering)
Trap(o)         == o.op = "Unreachable" /\ Reads(o) /\ lowering' = LowerUnreachable(lowering)
End(o)          == o.op = "End" /\ Reads(o) /\ lowering' = LowerEnd(lowering)

Lower(o) ==
  \/ Plainly(o) \/ Call(o) \/ CallIndirect(o) \/ Block(o) \/ If(o) \/ Else(o) \/ End(o)
  \/ Br(o) \/ BrIf(o) \/ BrTable(o) \/ Return(o) \/ Trap(o)

(* The reader is at its end.                                                *)
Finish ==
  /\ status = "lowering" /\ AtEnd
  /\ status' = "lowered"
  /\ UNCHANGED <<readerVars, lowering>>
=============================================================================
