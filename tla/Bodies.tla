------------------------------- MODULE Bodies -------------------------------
(* The operators the bodies of both machines' runs are made of.             *)
EXTENDS WasmCode

(* A loop whose body rewrites a local that is still borrowed outside it.    *)
LoopOps ==
  {Op("LocalGet", 0), Op("LocalTee", 0), Op("LocalSet", 0), Op("I32Eqz", 0),
   BlockOp("Loop", 0, 0), BlockOp("Loop", 1, 1), Op("BrIf", 0), Op("End", 0)}

(* Both arms of an if, with params and results, one of which may rewrite a  *)
(* local or the global that is still an operand below it.                   *)
IfOps ==
  {Op("LocalGet", 0), Op("GlobalGet", 0), Op("LocalSet", 0), Op("GlobalSet", 0),
   Op("I32LtU", 0), BlockOp("If", 0, 0), BlockOp("If", 0, 1), BlockOp("If", 1, 1),
   Op("Else", 0), Op("End", 0)}

(* Conditional and unconditional branches out of blocks, past a write of a  *)
(* local that is borrowed.                                                  *)
BranchOps ==
  {Op("LocalGet", 0), Op("Const", 1), Op("LocalSet", 0),
   BlockOp("Block", 0, 0), BlockOp("Block", 0, 2),
   Op("BrIf", 0), Op("Br", 1), Op("Return", 0), Op("End", 0)}

(* A branch table whose arms leave different blocks.                        *)
TableOps ==
  {Op("LocalGet", 0), Op("Const", 1), Op("LocalSet", 0), BlockOp("Block", 0, 0),
   BlockOp("Block", 1, 1), TableOp(<<0, 1>>), Op("End", 0)}

(* Calls with operands below the arguments, and constants and spills in the *)
(* frame; an argument, a table slot or an operand kept across the call may  *)
(* be a constant, a register or a borrowed local.                           *)
CallOps ==
  {Op("LocalGet", 0), Op("LocalSet", 0), Op("Const", 0),
   BlockOp("Call", 0, 1), BlockOp("Call", 2, 1), BlockOp("Call", 1, 2),
   BlockOp("CallIndirect", 1, 1), Op("End", 0)}

(* Code that cannot execute, and the arms and blocks nested in it.          *)
DeadOps ==
  {Op("LocalGet", 0), Op("Drop", 0), BlockOp("If", 0, 1), BlockOp("Loop", 0, 0),
   Op("Br", 0), Op("Unreachable", 0), Op("Else", 0), Op("End", 0)}

(* Bodies that run out of registers, spill slots, constants or frame.       *)
LimitOps ==
  {Op("LocalGet", 0), Op("LocalSet", 0), Op("Const", 0), Op("Const", 1), Op("Nop", 0),
   Op("I32Eqz", 0), Op("Select", 0), BlockOp("Block", 0, 1), Op("BrIf", 0), Op("End", 0)}
=============================================================================
