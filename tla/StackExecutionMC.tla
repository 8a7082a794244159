-------------------------- MODULE StackExecutionMC --------------------------
(* The stack lowering and execution of the bodies the register runs use,    *)
(* all in one run, and of bodies that mix branch tables with ifs.           *)
EXTENDS StackExecution, Bodies

(* Two branch tables, under an if, in one flat array of arms.               *)
MixedOps ==
  {Op("LocalGet", 1), Op("Const", 1), Op("LocalSet", 1), BlockOp("If", 0, 1),
   TableOp(<<0, 1>>), TableOp(<<1, 0, 1>>), Op("Else", 0), Op("End", 0)}

(* What follows a call, in a block and a loop of its own.                   *)
AfterCallOps ==
  {Op("LocalGet", 0), Op("Drop", 0), BlockOp("Call", 1, 2), BlockOp("CallIndirect", 1, 1),
   BlockOp("Block", 0, 1), BlockOp("Loop", 1, 1), Op("End", 0)}

MCAlphabets ==
  <<[ops |-> LoopOps \ {Op("LocalSet", 0)}, length |-> 8, height |-> 3],
    [ops |-> IfOps, length |-> 7, height |-> 3],
    [ops |-> BranchOps \ {Op("LocalSet", 0)}, length |-> 7, height |-> 3],
    [ops |-> TableOps, length |-> 8, height |-> 3],
    [ops |-> CallOps \ {BlockOp("Call", 0, 1)}, length |-> 6, height |-> 3],
    [ops |-> AfterCallOps, length |-> 7, height |-> 3],
    [ops |-> DeadOps, length |-> 7, height |-> 3],
    [ops |-> MixedOps, length |-> 9, height |-> 3]>>

MCCallers == {<<>>, <<5>>}
=============================================================================
