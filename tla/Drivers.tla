------------------------------- MODULE Drivers -------------------------------
(* The two driver loops of TraceVM on the register machine's one register   *)
(* file.  "Native" is execute_on_native_stack: callers wait on the host's   *)
(* stack, a counter holds the depth, and a trap unwinds frame by frame,     *)
(* each adding its record.  "FrameStack" is _execute_on_frame_stack: callers *)
(* wait in a Vec<Frame>, the depth is its length plus one, and a trap's     *)
(* whole trace is rebuilt from it at once.  What an instruction does to its *)
(* own frame is any write or jump.                                          *)
EXTENDS FrameLayouts, SequencesExt

VARIABLES driver,           \* which loop runs
          phase,            \* Idle, Running or Unwinding
          entry,            \* entry_func_index
          registers,        \* RegFrame::registers, slot i at position i + 1
          current,          \* the activation the loop executes
          frames,           \* the suspended callers
          call_stack_depth, \* the native loop's counter
          unwind,           \* the native loop's Unwind on its way out
          outcome           \* what run returned

vars == <<driver, phase, entry, registers, current, frames, call_stack_depth, unwind, outcome>>

-----------------------------------------------------------------------------
(* The register file.                                                       *)

reset == <<>>

set_initial_params(regs, params) == regs \o params

(* Vec::resize, and only upwards.                                           *)
grown(regs, n) == regs \o [i \in 1 .. n - Len(regs) |-> Zero]

(* A slip: the frame is taken to be as wide as its registers and constants. *)
total_register_capacity_unspilled(base, f) ==
  base + Layout[f].registers + Len(Layout[f].consts)

total_register_capacity(base, f) == base + frame_width(f)

(* A slip: the declared locals keep what an earlier activation left.        *)
enter_frame_unzeroed(regs, base, f) ==
  LET r == grown(regs, total_register_capacity(base, f))
      consts == base + Layout[f].locals
  IN  [i \in DOMAIN r |->
         IF i - consts \in DOMAIN Layout[f].consts THEN Layout[f].consts[i - consts] ELSE r[i]]

(* The arguments stay where the caller put them; declared locals are zeroed *)
(* and the constants written above them.                                    *)
enter_frame(regs, base, f) ==
  LET r == grown(regs, total_register_capacity(base, f))
      consts == base + Layout[f].locals
  IN  [i \in DOMAIN r |->
         IF i \in base + Layout[f].params + 1 .. consts THEN Zero
         ELSE IF i - consts \in DOMAIN Layout[f].consts THEN Layout[f].consts[i - consts]
         ELSE r[i]]

(* The results move from the first operand registers of the layout given    *)
(* down to the base.                                                        *)
exit_frame(regs, base, f, results_count) ==
  [i \in DOMAIN regs |->
     IF i \in base + 1 .. base + results_count THEN regs[i + operand_base(f)] ELSE regs[i]]

get_final_results(regs, results_count) == SubSeq(regs, 1, results_count)

get_params_for_import_call(regs, base) == SubSeq(regs, base + 1, base + HostParams)

set_results_from_import_call(regs, base, results) ==
  [i \in DOMAIN regs |-> IF i - base \in DOMAIN results THEN results[i - base] ELSE regs[i]]

-----------------------------------------------------------------------------
(* An activation names the body it executes, the layout that lays out its   *)
(* frame and the table of its offsets: the frame-stack loop keeps each in a *)
(* variable of its own.                                                     *)
Executing(f, base) ==
  [func_index |-> f, instructions |-> f, pc |-> 0, base |-> base,
   frame_layout |-> f, instruction_offsets |-> f]

(* A suspended caller with what it waits for.                               *)
Frame(callee) ==
  [caller |-> current, callee_results_count |-> Layout[callee].results,
   callee_func_index |-> callee, callee_is_indirect |-> current.pc \in IndirectSites]

Init ==
  /\ driver \in {"Native", "FrameStack"}
  /\ phase = "Idle"
  /\ entry \in Func
  /\ registers = reset
  /\ current = Executing(entry, 0)
  /\ frames = <<>>
  /\ call_stack_depth = 0
  /\ unwind = <<>>
  /\ outcome = Pending

(* Only the native loop keeps a counter.                                    *)
counted(n) == IF driver = "Native" THEN n ELSE 0

(* TraceVM::run up to the loop.                                             *)
Run(f, params) ==
  /\ phase = "Idle"
  /\ phase' = "Running"
  /\ entry' = f
  /\ registers' = enter_frame(set_initial_params(reset, params), 0, f)
  /\ current' = Executing(f, 0)
  /\ frames' = <<>>
  /\ call_stack_depth' = counted(1)
  /\ unwind' = <<>>
  /\ outcome' = Pending
  /\ UNCHANGED driver

(* The loop is at an instruction of the body that is not its End.           *)
InBody == phase = "Running" /\ current.pc < Layout[current.instructions].instrs - 1

(* An instruction that changes one slot of the frame.                       *)
StepNext(i, v) ==
  /\ InBody
  /\ registers' = [registers EXCEPT ![current.base + i + 1] = v]
  /\ current' = [current EXCEPT !.pc = @ + 1]
  /\ UNCHANGED <<driver, phase, entry, frames, call_stack_depth, unwind, outcome>>

StepJumpTo(target) ==
  /\ InBody
  /\ current' = [current EXCEPT !.pc = target]
  /\ UNCHANGED <<driver, phase, entry, registers, frames, call_stack_depth, unwind, outcome>>

(* call_imported, when the host function succeeds.                          *)
CallImported(caller_base) ==
  LET base == current.base + caller_base
  IN  /\ InBody
      /\ registers' = set_results_from_import_call(
                        registers, base, Host(get_params_for_import_call(registers, base)))
      /\ current' = [current EXCEPT !.pc = @ + 1]
      /\ UNCHANGED <<driver, phase, entry, frames, call_stack_depth, unwind, outcome>>

(* A slip: the frame that is running is not counted.                        *)
depth_suspended == IF driver = "Native" THEN call_stack_depth ELSE Len(frames)

(* How deep the loop believes the chain to be.                              *)
depth == IF driver = "Native" THEN call_stack_depth ELSE Len(frames) + 1

(* Step::Call of a local function.                                          *)
StepCall(f, caller_base) ==
  LET base == current.base + caller_base
  IN  /\ InBody
      /\ depth < MAX_DEPTH
      /\ frames' = Append(frames, Frame(f))
      /\ current' = Executing(f, base)
      /\ registers' = enter_frame(registers, base, f)
      /\ call_stack_depth' = counted(call_stack_depth + 1)
      /\ UNCHANGED <<driver, phase, entry, unwind, outcome>>

(* The End of a body that was called: the native loop counts the results of *)
(* the body it executes, the other one those its caller expected.           *)
callee_results_count ==
  IF driver = "Native" THEN Layout[current.func_index].results
  ELSE Last(frames).callee_results_count

(* A slip: the saved pc is taken to be the one to resume at, and still      *)
(* advanced past a call.                                                    *)
resumed_past_next(frame) == [frame.caller EXCEPT !.pc = @ + 2]

resumed(frame) == [frame.caller EXCEPT !.pc = @ + 1]

AtEnd == phase = "Running" /\ ~InBody

ReturnToCaller ==
  /\ AtEnd
  /\ frames # <<>>
  /\ registers' = exit_frame(registers, current.base, current.frame_layout, callee_results_count)
  /\ current' = resumed(Last(frames))
  /\ frames' = Front(frames)
  /\ call_stack_depth' = counted(call_stack_depth - 1)
  /\ UNCHANGED <<driver, phase, entry, unwind, outcome>>

(* The loop is left: its locals are gone, the register file is not.         *)
Leave ==
  /\ phase' = "Idle"
  /\ current' = Executing(entry, 0)
  /\ frames' = <<>>
  /\ call_stack_depth' = 0
  /\ unwind' = <<>>

(* The End of the entry function, and what run takes from the file.         *)
Finish ==
  /\ AtEnd
  /\ frames = <<>>
  /\ registers' = exit_frame(registers, current.base, current.frame_layout, Layout[entry].results)
  /\ outcome' = Results(get_final_results(registers', Layout[entry].results))
  /\ Leave
  /\ UNCHANGED <<driver, entry>>

-----------------------------------------------------------------------------
(* Traps.                                                                   *)

Fails(err) == InBody /\ (err = "CallStackExhausted" => depth >= MAX_DEPTH)

(* The record a waiting frame adds.                                         *)
CallSite(frame) ==
  LET c == frame.caller
  IN  CallRecord(c.func_index, c.pc, Offset(c.instruction_offsets, c.pc),
                 frame.callee_func_index, frame.callee_is_indirect)

trap_here(err) ==
  <<NonCall(current.func_index, current.pc, Offset(current.instruction_offsets, current.pc), err)>>

TrapHere(err) ==
  /\ driver = "Native"
  /\ Fails(err)
  /\ unwind' = trap_here(err)
  /\ phase' = "Unwinding"
  /\ UNCHANGED <<driver, entry, registers, current, frames, call_stack_depth, outcome>>

UnwindFrame ==
  /\ phase = "Unwinding"
  /\ frames # <<>>
  /\ unwind' = Append(unwind, CallSite(Last(frames)))
  /\ frames' = Front(frames)
  /\ UNCHANGED <<driver, phase, entry, registers, current, call_stack_depth, outcome>>

(* func_call_err_from_unwind.                                               *)
CloseUnwind ==
  /\ phase = "Unwinding"
  /\ frames = <<>>
  /\ outcome' = Trapped(unwind)
  /\ Leave
  /\ UNCHANGED <<driver, entry, registers>>

(* The trace rebuilt from the saved frames.                                 *)
func_call_err(err) ==
  LET trapping == IF frames = <<>> THEN entry ELSE Last(frames).callee_func_index
  IN  <<NonCall(trapping, current.pc, Offset(current.instruction_offsets, current.pc), err)>>
        \o [i \in 1 .. Len(frames) |-> CallSite(frames[Len(frames) + 1 - i])]

FuncCallErr(err) ==
  /\ driver = "FrameStack"
  /\ Fails(err)
  /\ outcome' = Trapped(func_call_err(err))
  /\ Leave
  /\ UNCHANGED <<driver, entry, registers>>

Next ==
  \/ \E f \in Func : \E params \in [1 .. Layout[f].params -> Val] : Run(f, params)
  \/ \E i \in Writable(current.func_index), v \in Val : StepNext(i, v)
  \/ \E target \in 0 .. Layout[current.func_index].instrs - 1 : StepJumpTo(target)
  \/ \E b \in CallerBases(current.func_index, HostParams, HostResults) : CallImported(b)
  \/ \E f \in Func :
       \E b \in CallerBases(current.func_index, Layout[f].params, Layout[f].results) :
         StepCall(f, b)
  \/ ReturnToCaller
  \/ Finish
  \/ \E err \in Errors : TrapHere(err)
  \/ UnwindFrame
  \/ CloseUnwind
  \/ \E err \in Errors : FuncCallErr(err)

Spec == Init /\ [][Next]_vars

-----------------------------------------------------------------------------
(* The live activations, outermost first.                                   *)
activations == Append([i \in DOMAIN frames |-> frames[i].caller], current)

ActivationRecord ==
  [func_index : Func, instructions : Func, pc : Nat, base : Nat,
   frame_layout : Func, instruction_offsets : Func]
FrameRecord ==
  [caller : ActivationRecord, callee_results_count : Nat, callee_func_index : Func,
   callee_is_indirect : BOOLEAN]

(* What an activation executes, lays out and blames is its own function.    *)
OwnBody(a) ==
  /\ a.instructions = a.func_index
  /\ a.frame_layout = a.func_index
  /\ a.instruction_offsets = a.func_index
  /\ a.pc < Layout[a.func_index].instrs

(* The loop's variables have their types, an activation's body, layout and  *)
(* offsets are those of its function, and every waiting caller is at an     *)
(* instruction that has a successor in its body.                            *)
TypeOK ==
  /\ driver \in {"Native", "FrameStack"}
  /\ phase \in {"Idle", "Running", "Unwinding"}
  /\ entry \in Func
  /\ registers \in Seq(Val)
  /\ current \in ActivationRecord /\ OwnBody(current)
  /\ frames \in Seq(FrameRecord)
  /\ \A i \in DOMAIN frames : /\ OwnBody(frames[i].caller)
                              /\ frames[i].caller.pc + 1 < Layout[frames[i].caller.func_index].instrs
  /\ call_stack_depth \in Nat

(* The file holds every live frame to its end, so that no instruction of    *)
(* any of them indexes past it, now or when its callees have returned.      *)
FileCovers ==
  phase = "Running" =>
    \A i \in DOMAIN activations :
      activations[i].base + frame_width(activations[i].func_index) <= Len(registers)

(* The native loop's counter is the length of the chain, and under neither  *)
(* loop is a chain deeper than the limit; the entry is always admitted.     *)
DepthCounted ==
  phase = "Running" =>
    /\ driver = "Native" => call_stack_depth = Len(activations)
    /\ Len(activations) > 1 => Len(activations) <= MAX_DEPTH

(* Each activation's slots in the file: a waiting caller's end where its    *)
(* callee's begin.                                                          *)
SlotsOf(i) ==
  LET a == activations[i]
  IN  SubSeq(registers, a.base + 1,
             IF i < Len(activations) THEN activations[i + 1].base
             ELSE a.base + frame_width(a.func_index))

(* What the loop's state means to CallChain: its activations while it runs, *)
(* and the trace an unwinding native loop will end up reporting.            *)
live_chain ==
  IF phase = "Running"
  THEN [i \in DOMAIN activations |->
          [func |-> activations[i].func_index, pc |-> activations[i].pc, slots |-> SlotsOf(i)]]
  ELSE <<>>

reported ==
  IF phase = "Unwinding"
  THEN Trapped(unwind \o [i \in 1 .. Len(frames) |-> CallSite(frames[Len(frames) + 1 - i])])
  ELSE outcome

Chain == INSTANCE CallChain WITH chain <- live_chain, outcome <- reported

(* Both loops implement calls in which every activation owns its slots:     *)
(* what a caller keeps survives its callees, results arrive, fresh locals   *)
(* are zero even after a trap, and both report the same trace.              *)
ImplementsCallChain == Chain!Spec
=============================================================================
