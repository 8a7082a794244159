---------------------------- MODULE FrameLayouts ----------------------------
(* What a call chain needs to know of a module: the storage plan of every   *)
(* body (RegFrameLayout with its function type), and the records of a       *)
(* backtrace.  A body is any sequence of steps over its own frame, so only  *)
(* its number of instructions matters.                                      *)
EXTENDS Integers, Sequences

CONSTANTS Func,             \* locally defined functions
          Layout,           \* each function's storage plan
          Val,              \* values of a slot
          Zero,             \* Value::default, and the zero of every type
          IndirectSites,    \* the instruction indices whose call is a call_indirect
          Host(_),          \* the import: arguments to results
          HostParams, HostResults,   \* its parameter and result counts
          MAX_DEPTH         \* Config::max_call_stack_depth

Plan == [params : Nat, results : Nat, locals : Nat, consts : Seq(Val),
         spills : Nat, registers : Nat, instrs : Nat]

(* `registers` counts from the frame base, so it covers the locals and the  *)
(* operands; the results end up in the first operand registers, and the     *)
(* last instruction is the End of the body.                                 *)
ASSUME LayoutAssumption ==
  /\ Layout \in [Func -> Plan]
  /\ \A f \in Func : /\ Layout[f].params <= Layout[f].locals
                     /\ Layout[f].locals + Layout[f].results <= Layout[f].registers
                     /\ Layout[f].params <= Layout[f].registers
                     /\ Layout[f].instrs > 0

ASSUME CallAssumption ==
  /\ Zero \in Val
  /\ MAX_DEPTH \in Nat
  /\ HostParams \in Nat /\ HostResults \in Nat
  /\ \A args \in [1 .. HostParams -> Val] : Host(args) \in [1 .. HostResults -> Val]

(* The slots of a frame: locals, constants, spills, operand registers.      *)
operand_base(f) == Layout[f].locals + Len(Layout[f].consts) + Layout[f].spills
frame_width(f) == Layout[f].registers + Len(Layout[f].consts) + Layout[f].spills
Slots(f) == 0 .. frame_width(f) - 1

(* Every slot but a constant is some instruction's destination.             *)
Writable(f) == {i \in Slots(f) : i \notin Layout[f].locals .. Layout[f].locals + Len(Layout[f].consts) - 1}

(* Where a body may base a callee: among its operand registers, with room   *)
(* for the arguments and the results, which the lowering counted.           *)
CallerBases(f, params, results) ==
  {b \in operand_base(f) .. frame_width(f) :
     b + params <= frame_width(f) /\ b + results <= frame_width(f)}

(* A record of a backtrace: a frame's instruction, and either its error or  *)
(* the call that it was waiting for.                                        *)
NonCall(f, pc, offset, err) ==
  [func_index |-> f, instr_index |-> pc, instr_offset |-> offset, kind |-> <<"NonCall", err>>]
CallRecord(f, pc, offset, callee, is_indirect) ==
  [func_index |-> f, instr_index |-> pc, instr_offset |-> offset,
   kind |-> <<"Call", callee, is_indirect>>]

(* Source offsets are per body and instruction.                             *)
Offset(f, pc) == <<f, pc>>

(* How an instruction can fail: on its own (a host error included), or by   *)
(* calling past the depth limit.                                            *)
Errors == {"Instruction", "CallStackExhausted"}

(* What the embedder has been told: nothing yet, results, or a backtrace.   *)
Pending == [kind |-> "Pending", of |-> <<>>]
Results(vals) == [kind |-> "Results", of |-> vals]
Trapped(trace) == [kind |-> "Trapped", of |-> trace]
=============================================================================
