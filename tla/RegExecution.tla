---------------------------- MODULE RegExecution ----------------------------
(***************************************************************************)
(* A lowered body is run: RegInstruction::execute, one action per          *)
(* instruction, on a frame whose registers and spills hold stale values    *)
(* when it is entered.  What the run delivers is compared with what the    *)
(* operators mean.                                                         *)
(***************************************************************************)
EXTENDS RegLowering

CONSTANTS
  Args,     \* values the locals may hold at entry
  Globals,  \* values the global may hold at entry
  Stale     \* what an earlier call left in the registers and spill slots

VARIABLES
  run,      \* "none", "running", "returned" or "trapped"
  pc,       \* index of the next instruction
  frame,    \* the frame's registers, from index 0
  global,   \* the one global
  entry     \* the locals and the global at entry

runVars == <<run, pc, frame, global, entry>>
vars == <<loweringVars, runVars>>

code == lowering.instructions
instr == code[pc + 1]
consts == consts_of(lowering)
spills == spills_of(lowering)

slot_value(i) == frame[i]
Operand(j, k) == slot_value(instr.in[j][k])

Start == Init /\ run = "none" /\ pc = 0 /\ frame = <<>> /\ global = 0 /\ entry = <<>>

Lowering ==
  /\ \E o \in Alphabets[alphabet].ops : Lower(o)
  /\ UNCHANGED runVars

Resolving == Resolve /\ UNCHANGED runVars

(* enter_frame: the locals and the constants are written, the rest is left  *)
(* as it was.                                                               *)
enter_frame(locals) ==
  [i \in 0 .. frame_width(lowering) - 1 |->
     IF i < LocalsCount THEN locals[i]
     ELSE IF i < LocalsCount + consts THEN lowering.sim.consts[i - LocalsCount + 1]
     ELSE Stale]

(* The body is run, when what it means is known within the fuel.            *)
Run ==
  /\ status = "lowered" /\ run = "none"
  /\ \E locals \in [Locals -> Args], g \in Globals :
       /\ Halted(ops, Meaning(ops, locals, g))
       /\ entry' = [locals |-> locals, global |-> g]
       /\ frame' = enter_frame(locals)
       /\ global' = g
  /\ run' = "running" /\ pc' = 0
  /\ UNCHANGED loweringVars

-----------------------------------------------------------------------------
At(names) == run = "running" /\ pc < Len(code) /\ instr.op \in names

Goto(i) == pc' = i /\ UNCHANGED <<loweringVars, run, entry>>

Next1 == Goto(pc + 1)

SetSlot(i, v) == frame' = [frame EXCEPT ![i] = v] /\ UNCHANGED global

LocalWrite ==
  /\ At({"LocalSet", "LocalTee"})
  /\ SetSlot(instr.index, Operand(1, 1))
  /\ Next1

(* set_value_to_spills: the one region base computed while running.         *)
LocalSpill ==
  /\ At({"LocalSpill"})
  /\ SetSlot(instr.spill_index + LocalsCount + consts, frame[instr.index])
  /\ Next1

Numeric ==
  /\ At({"I32Eqz", "I32LtU", "Select"})
  /\ SetSlot(instr.out, Compute(instr, [k \in DOMAIN instr.in[1] |-> Operand(1, k)]))
  /\ Next1

GlobalGet ==
  /\ At({"GlobalGet"})
  /\ SetSlot(instr.out, global)
  /\ Next1

GlobalSet ==
  /\ At({"GlobalSet"})
  /\ global' = Operand(1, 1)
  /\ UNCHANGED frame
  /\ Next1

(* A slip: each destination is written as soon as its source is read.       *)
execute_mov_in_place(slots, out) ==
  LET f[n \in 0 .. Len(slots)] ==
        IF n = 0 THEN frame
        ELSE [f[n - 1] EXCEPT ![out + n - 1] = f[n - 1][slots[n]]]
  IN  f[Len(slots)]

(* execute_mov reads every source before it writes any destination.         *)
execute_mov(slots, out) ==
  [i \in DOMAIN frame |->
     IF i \in out .. out + Len(slots) - 1 THEN frame[slots[i - out + 1]] ELSE frame[i]]

MovRun(j) == IF j \in DOMAIN instr.in THEN instr.in[j] ELSE <<>>

Mov ==
  /\ At({"Move"})
  /\ frame' = execute_mov(instr.in[1], instr.out)
  /\ UNCHANGED global
  /\ Next1

(* Entry of a call: the arguments staged at caller_base, which an indirect  *)
(* call does itself.                                                        *)
staged ==
  IF instr.op = "CallIndirect" THEN execute_mov(instr.in[2], instr.caller_base) ELSE frame

CallReady ==
  /\ At({"Call", "CallIndirect"})
  /\ instr.op = "CallIndirect" => InTable(Operand(1, 1))

called_results ==
  Callee([k \in 1 .. instr.ty[1] |-> staged[instr.caller_base + k - 1]], instr.ty[2])

Returned(i) == i \in instr.caller_base .. instr.caller_base + instr.ty[2] - 1

(* call_imported: the host's results replace the arguments.                 *)
ImportedCall ==
  /\ CallReady
  /\ frame' = [i \in DOMAIN frame |->
       IF Returned(i) THEN called_results[i - instr.caller_base + 1] ELSE staged[i]]
  /\ UNCHANGED global
  /\ Next1

(* A local callee's frame starts at caller_base, so it may overwrite        *)
(* everything from there on; exit_frame moves its results down to its base. *)
LocalCall ==
  /\ CallReady
  /\ frame' = [i \in DOMAIN frame |->
       IF Returned(i) THEN called_results[i - instr.caller_base + 1]
       ELSE IF i >= instr.caller_base THEN Stale ELSE frame[i]]
  /\ UNCHANGED global
  /\ Next1

(* A table slot with no function of the type.                               *)
CallTrap ==
  /\ At({"CallIndirect"})
  /\ ~InTable(Operand(1, 1))
  /\ run' = "trapped"
  /\ UNCHANGED <<loweringVars, pc, frame, global, entry>>

IfStep ==
  /\ At({"If"})
  /\ Goto(IF Operand(1, 1) # 0 THEN pc + 1
          ELSE IF instr.else_index # Unset THEN instr.else_index + 1
          ELSE instr.end_index)
  /\ UNCHANGED <<frame, global>>

ElseStep ==
  /\ At({"Else"})
  /\ Goto(instr.end_index)
  /\ UNCHANGED <<frame, global>>

BrStep ==
  /\ At({"Br", "Return"})
  /\ Goto(instr.target_index)
  /\ UNCHANGED <<frame, global>>

BrIfStep ==
  /\ At({"BrIf"})
  /\ IF Operand(1, 1) # 0
     THEN frame' = execute_mov(MovRun(2), instr.out) /\ Goto(instr.target_index)
     ELSE UNCHANGED frame /\ Next1
  /\ UNCHANGED global

BrTableStep ==
  LET targets == instr.br_targets
      index   == Operand(1, 1)
      arm     == IF Len(targets) - 1 <= index THEN Len(targets) ELSE index + 1
  IN  /\ At({"BrTable"})
      /\ frame' = execute_mov(MovRun(arm + 1), targets[arm].out)
      /\ Goto(targets[arm].target_index)
      /\ UNCHANGED global

Marker ==
  /\ At({"Loop", "End"})
  /\ UNCHANGED <<frame, global>>
  /\ Next1

UnreachableStep ==
  /\ At({"Unreachable"})
  /\ run' = "trapped"
  /\ UNCHANGED <<loweringVars, pc, frame, global, entry>>

(* The driver leaves the body when pc runs off its end.                     *)
Returns ==
  /\ run = "running" /\ pc >= Len(code)
  /\ run' = "returned"
  /\ UNCHANGED <<loweringVars, pc, frame, global, entry>>

Execute ==
  \/ LocalWrite \/ LocalSpill \/ Numeric \/ GlobalGet \/ GlobalSet \/ Mov
  \/ ImportedCall \/ LocalCall \/ CallTrap \/ IfStep \/ ElseStep \/ BrStep \/ BrIfStep \/ BrTableStep \/ Marker
  \/ UnreachableStep \/ Returns

Next == Lowering \/ Resolving \/ Run \/ Execute

Spec == Start /\ [][Next]_vars /\ WF_vars(Execute)

-----------------------------------------------------------------------------
(* get_final_results: the results are the first operand registers.          *)
Results == [i \in 1 .. ResultsCount |-> frame[LocalsCount + consts + spills + i - 1]]

TypeOK ==
  /\ status \in {"lowering", "failed", "lowered"}
  /\ run \in {"none", "running", "returned", "trapped"}
  /\ lowering.sim.failed => status = "failed"
  /\ pc \in 0 .. Len(code)
  /\ run # "none" => status = "lowered" /\ DOMAIN frame = 0 .. frame_width(lowering) - 1

(* The register code computes what the operators mean: the same results,    *)
(* the same locals and global, a trap exactly when they trap.               *)
ComputesMeaning ==
  LET m == Meaning(ops, entry.locals, entry.global)
  IN  /\ run = "returned" => /\ ~m.trapped
                             /\ Results = m.vals
                             /\ global = m.global
                             /\ \A x \in Locals : frame[x] = m.locals[x]
      /\ run = "trapped" => m.trapped /\ global = m.global

(* A body that terminates in WebAssembly terminates as register code.       *)
Terminates == run = "running" ~> run \in {"returned", "trapped"}
=============================================================================
