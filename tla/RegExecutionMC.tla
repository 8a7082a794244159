--------------------------- MODULE RegExecutionMC ---------------------------
(* The register lowering and execution, with the bodies of each run.        *)
EXTENDS RegExecution, Bodies

LoopsBodies  == <<[ops |-> LoopOps, length |-> 9, height |-> 2]>>
LimitsBodies == <<[ops |-> LimitOps, length |-> 8, height |-> 3]>>

(* Values of several blocks and calls at once: two results, ifs of either  *)
(* arm, and operands kept below the arguments of a call.                    *)
IfsAndCallsBodies ==
  <<[ops |-> IfOps, length |-> 9, height |-> 3],
    [ops |-> CallOps, length |-> 8, height |-> 3]>>

(* Every way to leave a block, and the dead code behind it.                 *)
BranchesBodies ==
  <<[ops |-> BranchOps, length |-> 8, height |-> 3],
    [ops |-> TableOps, length |-> 10, height |-> 2],
    [ops |-> DeadOps, length |-> 8, height |-> 2]>>
=============================================================================
