---------------------------- MODULE WasmOperands ----------------------------
(***************************************************************************)
(* What WebAssembly promises about operands and locals: a stack of values  *)
(* and an array of values, with no sharing between them.  Reading a local  *)
(* copies it, so a later write of that local cannot be seen through an     *)
(* operand pushed earlier.                                                 *)
(***************************************************************************)
EXTENDS Integers, Sequences

CONSTANTS LocalsCount, Val

VARIABLES
  operands,   \* the operand stack, top last
  locals,     \* the values of the locals
  arg         \* the value the last consuming operator read

vars == <<operands, locals, arg>>

Init ==
  /\ operands = <<>>
  /\ locals \in [0 .. LocalsCount - 1 -> Val]
  /\ arg \in Val

Push(v) ==
  /\ operands' = Append(operands, v)
  /\ UNCHANGED <<locals, arg>>

LocalGet(x) == Push(locals[x])

Pop ==
  /\ operands # <<>>
  /\ operands' = SubSeq(operands, 1, Len(operands) - 1)
  /\ arg' = operands[Len(operands)]
  /\ UNCHANGED locals

LocalSet(x) ==
  /\ operands # <<>>
  /\ operands' = SubSeq(operands, 1, Len(operands) - 1)
  /\ arg' = operands[Len(operands)]
  /\ locals' = [locals EXCEPT ![x] = operands[Len(operands)]]

LocalTee(x) ==
  /\ operands # <<>>
  /\ arg' = operands[Len(operands)]
  /\ locals' = [locals EXCEPT ![x] = operands[Len(operands)]]
  /\ UNCHANGED operands

Next ==
  \/ \E v \in Val : Push(v)
  \/ Pop
  \/ \E x \in 0 .. LocalsCount - 1 : LocalGet(x) \/ LocalSet(x) \/ LocalTee(x)

Spec == Init /\ [][Next]_vars
=============================================================================
