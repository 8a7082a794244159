---------------------------- MODULE StackExecution ----------------------------
(***************************************************************************)
(* A lowered body is run on the one operand stack of an instance:          *)
(* StackInstruction::execute, one action per instruction, with the frame   *)
(* entered and left as Stack's RuntimeFrame does it.                       *)
(*                                                                         *)
(*   stack           the storage; it only grows, and keeps popped values   *)
(*   stack_pointer   the height: stack[1 .. stack_pointer] is live         *)
(*   base_height     where the frame begins: its locals, then its operands *)
(*                                                                         *)
(* A frame that a Call entered has its caller's operands below it.         *)
(***************************************************************************)
EXTENDS StackLowering

CONSTANTS
  ParamsCount,  \* the locals that arrive as arguments
  LocalsCount,  \* all the locals, the declared ones zeroed
  Args,         \* values of an argument
  Globals,      \* values the global may hold at entry
  Callers,      \* what may lie below the frame
  Stale,        \* what earlier frames left in the storage
  CalleeDepth   \* how far above its base a callee leaves its results

(* The params are locals too, and a value is an i32.                        *)
ASSUME FrameAssumption ==
  /\ LocalsCount \in Nat /\ ParamsCount \in 0 .. LocalsCount /\ CalleeDepth \in Nat
  /\ Args \subseteq Nat /\ Globals \subseteq Nat /\ Callers \subseteq Seq(Nat)

(* A validated body names only locals that the function has.                *)
ASSUME ImmediatesAssumption ==
  \A a \in DOMAIN Alphabets : \A o \in Alphabets[a].ops :
    /\ o.op \in {"LocalGet", "LocalSet", "LocalTee"} => o.x \in 0 .. LocalsCount - 1
    /\ o.op = "Const" => o.x \in Nat

VARIABLES
  run,            \* "none", "running", "returned" or "trapped"
  pc,
  stack,
  stack_pointer,
  base_height,
  global,
  entry           \* the caller's operands, the locals and the global at entry

runVars == <<run, pc, stack, stack_pointer, base_height, global, entry>>
vars == <<loweringVars, runVars>>

code  == lowering.instructions
instr == code[pc + 1]

-----------------------------------------------------------------------------
(* Stack<T>, as a record of the storage and the pointer.                    *)

Now == [stack |-> stack, sp |-> stack_pointer]

top(s) == s.stack[s.sp]
pop(s) == [s EXCEPT !.sp = s.sp - 1]
pops(s, n) == [s EXCEPT !.sp = s.sp - n]
last(s, n) == SubSeq(s.stack, s.sp - n + 1, s.sp)

(* A slot freed earlier is overwritten; the storage grows at its end only.  *)
push_value(s, v) ==
  [stack |-> IF s.sp < Len(s.stack) THEN [s.stack EXCEPT ![s.sp + 1] = v]
             ELSE Append(s.stack, v),
   sp |-> s.sp + 1]

push_all(s, vals) ==
  LET f[k \in 0 .. Len(vals)] == IF k = 0 THEN s ELSE push_value(f[k - 1], vals[k])
  IN  f[Len(vals)]

(* A slip: the carried values stay where they are.                          *)
truncate_only(s, new_height, arity) == [s EXCEPT !.sp = new_height + arity]

(* The top arity values move down to new_height, the deepest first.         *)
truncate_by_preserving_arity(s, new_height, arity) ==
  LET f[k \in 0 .. arity] ==
        IF k = 0 THEN s.stack
        ELSE [f[k - 1] EXCEPT ![new_height + k] = f[k - 1][s.sp - arity + k]]
  IN  [stack |-> f[arity], sp |-> new_height + arity]

-----------------------------------------------------------------------------
(* Frames.                                                                  *)

callee_frame_base_height(base) == base + LocalsCount

Zeros(n) == [i \in 1 .. n |-> 0]

(* The arguments are already in place: the declared locals go above them.   *)
enter_frame(s) == push_all(s, Zeros(LocalsCount - ParamsCount))

exit_frame(s, base, results) == truncate_by_preserving_arity(s, base, results)

get_local(i) == stack[base_height + i + 1]

(* A slip: the local's index is taken for its place on the stack.           *)
set_local_absolute(s, i, v) == [s EXCEPT !.stack[i + 1] = v]

set_local(s, i, v) == [s EXCEPT !.stack[base_height + i + 1] = v]

-----------------------------------------------------------------------------
Start ==
  /\ Init
  /\ run = "none" /\ pc = 0 /\ stack = <<>> /\ stack_pointer = 0 /\ base_height = 0
  /\ global = 0 /\ entry = <<>>

Lowering == \E o \in Alphabets[alphabet].ops : Lower(o) /\ UNCHANGED runVars

Finishing == Finish /\ UNCHANGED runVars

Becomes(s) == stack' = s.stack /\ stack_pointer' = s.sp

(* The body is entered above a caller's operands, on storage that earlier   *)
(* frames have used.                                                        *)
Invoke ==
  /\ status = "lowered" /\ run = "none"
  /\ \E below \in Callers, args \in [1 .. ParamsCount -> Args], g \in Globals :
       LET locals == [x \in 0 .. LocalsCount - 1 |-> IF x < ParamsCount THEN args[x + 1] ELSE 0]
           used == [stack |-> [i \in 1 .. LocalsCount + 1 |-> Stale], sp |-> 0]
       IN  /\ Halted(ops, Meaning(ops, locals, g))
           /\ entry' = [below |-> below, locals |-> locals, global |-> g]
           /\ Becomes(enter_frame(push_all(used, below \o args)))
           /\ base_height' = Len(below)
           /\ global' = g
  /\ run' = "running" /\ pc' = 0
  /\ UNCHANGED loweringVars

-----------------------------------------------------------------------------
At(names) == run = "running" /\ pc < Len(code) /\ instr.op \in names

Goto(i) == pc' = i /\ UNCHANGED <<loweringVars, run, base_height, entry>>
Next1 == Goto(pc + 1)
Stacks(s) == Becomes(s) /\ UNCHANGED global

Const ==
  /\ At({"Const"})
  /\ Stacks(push_value(Now, instr.x))
  /\ Next1

LocalGet ==
  /\ At({"LocalGet"})
  /\ Stacks(push_value(Now, get_local(instr.x)))
  /\ Next1

LocalSet ==
  /\ At({"LocalSet"})
  /\ Stacks(set_local(pop(Now), instr.x, top(Now)))
  /\ Next1

LocalTee ==
  /\ At({"LocalTee"})
  /\ Stacks(set_local(Now, instr.x, top(Now)))
  /\ Next1

GlobalGet ==
  /\ At({"GlobalGet"})
  /\ Stacks(push_value(Now, global))
  /\ Next1

GlobalSet ==
  /\ At({"GlobalSet"})
  /\ Becomes(pop(Now)) /\ global' = top(Now)
  /\ Next1

(* A numeric operator or Select pops its operands, the last one first.      *)
Numeric ==
  LET n == Arity[instr.op][1]
  IN  /\ At({"I32Eqz", "I32LtU", "Select"})
      /\ Stacks(push_value(pops(Now, n), Compute(instr, last(Now, n))))
      /\ Next1

Drop ==
  /\ At({"Drop"})
  /\ Stacks(pop(Now))
  /\ Next1

Marker ==
  /\ At({"Nop", "Block", "Loop", "End"})
  /\ UNCHANGED <<stack, stack_pointer, global>>
  /\ Next1

(* The operands of a call once the table slot of an indirect one is popped. *)
Called == IF instr.op = "CallIndirect" THEN pop(Now) ELSE Now

CallReady ==
  /\ At({"Call", "CallIndirect"})
  /\ instr.op = "CallIndirect" => InTable(top(Now))

ImportedCall ==
  LET n == instr.ty[1]
  IN  /\ CallReady
      /\ Stacks(push_all(pops(Called, n), Callee(last(Called, n), instr.ty[2])))
      /\ Next1

callee_base_height(s, params) == s.sp - params

(* A local callee runs in a frame of its own from callee_base_height on: it *)
(* may overwrite all of the storage above, and exit_frame moves its results *)
(* down to its base.                                                        *)
LocalCall ==
  LET base == callee_base_height(Called, instr.ty[1])
      over == push_all([Called EXCEPT !.sp = base], [i \in 1 .. CalleeDepth |-> Stale])
      done == push_all(over, Callee(last(Called, instr.ty[1]), instr.ty[2]))
  IN  /\ CallReady
      /\ Stacks(exit_frame(done, base, instr.ty[2]))
      /\ Next1

Trapped == run' = "trapped" /\ UNCHANGED <<loweringVars, pc, base_height, global, entry>>

CallTrap ==
  /\ At({"CallIndirect"})
  /\ ~InTable(top(Now))
  /\ Becomes(pop(Now)) /\ Trapped

UnreachableStep ==
  /\ At({"Unreachable"})
  /\ UNCHANGED <<stack, stack_pointer>> /\ Trapped

IfStep ==
  /\ At({"If"})
  /\ Stacks(pop(Now))
  /\ Goto(IF top(Now) # 0 THEN pc + 1
          ELSE IF instr.else_index # Unset THEN instr.else_index + 1
          ELSE instr.end_index)

ElseStep ==
  /\ At({"Else"})
  /\ UNCHANGED <<stack, stack_pointer, global>>
  /\ Goto(instr.if_end_index)

(* A slip: the recorded height is taken to be the stack's own.              *)
unwound_to_absolute_height(s, jump) ==
  truncate_by_preserving_arity(s, jump.recorded_height, jump.arity)

(* The stack unwinds to the label's height above this frame's base.         *)
unwound(s, jump) ==
  truncate_by_preserving_arity(
    s, jump.recorded_height + callee_frame_base_height(base_height), jump.arity)

BrStep ==
  /\ At({"Br", "Return"})
  /\ Stacks(unwound(Now, instr))
  /\ Goto(instr.target_index)

BrIfStep ==
  /\ At({"BrIf"})
  /\ IF top(Now) # 0
     THEN Stacks(unwound(pop(Now), instr)) /\ Goto(instr.target_index)
     ELSE Stacks(pop(Now)) /\ Next1

(* The last arm is the default, for every index past the others.            *)
arm_selected(length, index) == IF length - 1 <= index THEN length ELSE index + 1

BrTableStep ==
  LET jump == lowering.br_targets[instr.start_index + arm_selected(instr.len, top(Now))]
  IN  /\ At({"BrTable"})
      /\ Stacks(unwound(pop(Now), jump))
      /\ Goto(jump.target_index)

(* The driver leaves the body when pc runs off its end.                     *)
Returns ==
  /\ run = "running" /\ pc >= Len(code)
  /\ run' = "returned"
  /\ Becomes(exit_frame(Now, base_height, ResultsCount))
  /\ UNCHANGED <<loweringVars, pc, base_height, global, entry>>

Execute ==
  \/ Const \/ LocalGet \/ LocalSet \/ LocalTee \/ GlobalGet \/ GlobalSet \/ Numeric \/ Drop
  \/ Marker \/ ImportedCall \/ LocalCall \/ CallTrap \/ UnreachableStep
  \/ IfStep \/ ElseStep \/ BrStep \/ BrIfStep \/ BrTableStep \/ Returns

Next == Lowering \/ Finishing \/ Invoke \/ Execute

Spec == Start /\ [][Next]_vars /\ WF_vars(Execute)

-----------------------------------------------------------------------------
StackTypeOK ==
  /\ status \in {"lowering", "lowered"}
  /\ run \in {"none", "running", "returned", "trapped"}
  /\ run # "none" => status = "lowered"
  /\ pc \in 0 .. Len(code)
  /\ stack_pointer \in 0 .. Len(stack)

(* What the stack code leaves is what the operators mean: exactly the       *)
(* results above the caller's operands, the same global, a trap exactly     *)
(* when they trap.                                                          *)
StackComputesMeaning ==
  LET m == Meaning(ops, entry.locals, entry.global)
  IN  /\ run = "returned" => /\ ~m.trapped
                             /\ SubSeq(stack, 1, stack_pointer) = entry.below \o m.vals
                             /\ global = m.global
      /\ run = "trapped" => m.trapped /\ global = m.global

(* The debug_assert of End: a block closes with exactly its results above   *)
(* the height recorded for it, however it was reached; and max_height       *)
(* bounds the operands throughout (note_height keeps it a true bound).      *)
HeightModelHolds ==
  LET height == stack_pointer - callee_frame_base_height(base_height)
  IN  run = "running" =>
        /\ height <= lowering.max_height
        /\ At({"End"}) => height = instr.recorded_height + instr.arity

(* What get_local's unchecked read rests on: the operands stay above the    *)
(* locals and inside the storage, and the caller's operands below the frame *)
(* are not touched.                                                         *)
FrameKept ==
  run = "running" =>
    /\ base_height + LocalsCount <= stack_pointer
    /\ stack_pointer <= Len(stack)
    /\ SubSeq(stack, 1, base_height) = entry.below

(* Every branch of a lowered body, dead ones too, goes to its own label,    *)
(* every arm of every br_table among them, and every if and else knows its  *)
(* construct.                                                               *)
BranchesResolve ==
  status = "lowered" => \A i \in DOMAIN ops :
    LET o == ops[i] IN
    CASE o.op \in {"Br", "BrIf"} -> code[i].target_index = LandingOf(OpenerAt(i, o.x))
      [] o.op = "Return" -> code[i].target_index = Len(ops) - 1
      [] o.op = "BrTable" -> \A a \in DOMAIN o.arms :
           lowering.br_targets[code[i].start_index + a].target_index
             = LandingOf(OpenerAt(i, o.arms[a]))
      [] o.op = "If" -> /\ code[i].end_index = MatchingEnd(ops, i) - 1
                        /\ LET arm == FalseArm(ops, i)
                           IN  code[i].else_index =
                                 IF ops[arm].op = "Else" THEN arm - 1 ELSE Unset
      [] o.op = "Else" -> code[i].if_end_index = MatchingEnd(ops, OpenerAt(i, 0)) - 1
      [] OTHER -> TRUE

(* A block the validator reached was reached by the lowering, at the same   *)
(* height; and in live code the two agree about the operands (set_height    *)
(* and apply_stack_effects_to_height skip dead code only).                  *)
StackHeightsAgree ==
  /\ Len(lowering.inner) = Len(valid.labels)
  /\ \A k \in DOMAIN lowering.inner :
       LET b == lowering.inner[k] IN
       /\ ~b.has_inherited => b.recorded_height = valid.labels[k].height
       /\ b.has_inherited <=>
            \E j \in 1 .. k - 1 : lowering.inner[j].is_unreachable_traversing
       /\ b.is_unreachable_traversing = (b.has_inherited \/ valid.labels[k].unreachable)
  /\ valid.labels # <<>> /\ ~curr_block(lowering).is_unreachable_traversing =>
       lowering.curr_height = valid.height

(* A body that terminates in WebAssembly terminates as stack code.          *)
StackTerminates == run = "running" ~> run \in {"returned", "trapped"}
=============================================================================
