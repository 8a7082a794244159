------------------------------- MODULE IrBuilder -------------------------------
(***************************************************************************)
(* A client builds one module of LLVM IR.  It follows a plan, a sequence   *)
(* of menus: its k-th call is one of the k-th menu, with the values its    *)
(* earlier calls returned as operands, or it goes on without one.  At any  *)
(* point it may finish and have the graph written out.                     *)
(***************************************************************************)
EXTENDS IrCursor, LlvmRules

CONSTANT Plans   \* a sequence of plans

VARIABLES
  plan,     \* which plan is followed
  given,    \* what each call so far returned, None for a refused one
  ctx,      \* the context the builder owns
  last,     \* the call just made, as an Option
  numbered, \* the unnamed registers asked of blocks, in the order of the calls
  ir        \* the text, once the graph was built: None if emission refused it

vars == <<plan, given, ctx, last, numbered, ir>>

NotBuilt == [built |-> FALSE]
Built(text) == [built |-> TRUE, text |-> text]

Init ==
  /\ plan \in DOMAIN Plans
  /\ given = <<>>
  /\ ctx = NewContext
  /\ last = None
  /\ numbered = <<>>
  /\ ir = NotBuilt

-----------------------------------------------------------------------------
(* The calls of the plan, with [given |-> k] for what its k-th call returned*)

ValueFields == {"ptr", "val", "a", "b", "cond"}
ValueListFields == {"count", "returned", "indices", "initializer"}

Operands(call) ==
  UNION {{call[f]} : f \in ValueFields \intersect DOMAIN call}
    \union UNION {Range(call[f]) : f \in ValueListFields \intersect DOMAIN call}
    \union UNION {{call[f][k].val : k \in DOMAIN call[f]} : f \in {"params", "branches"} \intersect DOMAIN call}

Refers(v) == "given" \in DOMAIN v
Known(v) == IF Refers(v) THEN given[v.given][1] ELSE v

Resolved(call) ==
  [f \in DOMAIN call |->
     CASE f \in ValueFields -> Known(call[f])
       [] f \in ValueListFields -> each(call[f], Known)
       [] f \in {"params", "branches"} -> each(call[f], LAMBDA p : [p EXCEPT !.val = Known(@)])
       [] OTHER -> call[f]]

SymbolsIn(v) ==
  CASE "global" \in DOMAIN v -> {v.global}
    [] "gep" \in DOMAIN v -> {v.gep.ptr.global}
    [] OTHER -> {}

(* A value, block or symbol is at hand once the call that made it succeeded.*)
CanMake(call) ==
  /\ \A v \in Operands(call) :
       IF Refers(v) THEN given[v.given] # None ELSE SymbolsIn(v) \subseteq DOMAIN ctx.globals
  /\ "block" \in DOMAIN call => call.block \in DOMAIN ctx.blocks
  /\ "in" \in DOMAIN call => call.in \in Range(ctx.functions)
  /\ "func" \in DOMAIN call => call.func \in DOMAIN ctx.globals

Menu == {call \in Plans[plan][Len(given) + 1] : CanMake(call)}

(* The number a call to a block used up, and whether the block then took    *)
(* the register: not when the call was refused after all.                   *)
Definitions(x, block) ==
  Len(x.blocks[block].phis) + Len(SelectSeq(x.blocks[block].instructions, LAMBDA i : i.value # None))

Drawn(x, y, block) ==
  LET func == x.blocks[block].func_id
      counter(z) == z.reg_name_assigner[func].unnamed_index
  IN  IF counter(y) = counter(x) THEN <<>>
      ELSE <<[func |-> x.funcs[func].name, block |-> block,
              taken |-> Definitions(y, block) > Definitions(x, block)]>>

Make(name, reply(_)) ==
  /\ ~ir.built
  /\ Len(given) < Len(Plans[plan])
  /\ \E call \in Menu :
       /\ call.call = name
       /\ LET c == Resolved(call)
          IN  /\ ctx' = reply(c).ctx
              /\ given' = Append(given, reply(c).out)
              /\ last' = Some(c)
              /\ numbered' = IF "block" \in DOMAIN c THEN numbered \o Drawn(ctx, reply(c).ctx, c.block)
                             ELSE numbered
  /\ UNCHANGED <<plan, ir>>

(* A caller whose earlier call failed goes on without what it was to give.  *)
GoOn ==
  /\ ~ir.built
  /\ Len(given) < Len(Plans[plan])
  /\ Menu = {}
  /\ given' = Append(given, None)
  /\ last' = None
  /\ UNCHANGED <<plan, ctx, numbered, ir>>

DeclareGlobalVariable == Make("global", LAMBDA c : declare_global_variable(ctx, c.name, c.ty, c.initializer))
DeclareFunction == Make("declare", LAMBDA c : declare_function(ctx, c.name, c.param_tys, c.result))
DefineFunction == Make("define", LAMBDA c : define_function(ctx, c.name, c.param_list, c.result))
AddBasicBlock == Make("add_block", LAMBDA c : add_basic_block(ctx, c.in, c.name))
AddBranch == Make("add_branch", LAMBDA c : add_branch(ctx, c.handler, c.branches[1]))
BuildPhi == Make("phi", LAMBDA c : build_phi(ctx, c))
BuildUnconditionalBr == Make("br", LAMBDA c : build_unconditional_br(ctx, c))
BuildConditionalBr == Make("condbr", LAMBDA c : build_conditional_br(ctx, c))
BuildRet == Make("ret", LAMBDA c : build_ret(ctx, c))
BuildUnreachable == Make("unreachable", LAMBDA c : build_unreachable(ctx, c))
BuildAlloca == Make("alloca", LAMBDA c : build_alloca(ctx, c))
BuildLoad == Make("load", LAMBDA c : build_load(ctx, c))
BuildStore == Make("store", LAMBDA c : build_store(ctx, c))
BuildGetElementPtr == Make("gep", LAMBDA c : build_get_element_ptr(ctx, c))
BuildCall == Make("call", LAMBDA c : build_call(ctx, c))
BuildVoidCall == Make("void_call", LAMBDA c : build_void_call(ctx, c))
BuildICmp == Make("icmp", LAMBDA c : build_icmp(ctx, c))
BuildIBinOp == Make("ibinop", LAMBDA c : build_ibinop(ctx, c))
BuildFCmp == Make("fcmp", LAMBDA c : build_fcmp(ctx, c))
BuildFBinOp == Make("fbinop", LAMBDA c : build_fbinop(ctx, c))
BuildFNeg == Make("fneg", LAMBDA c : build_fneg(ctx, c))
BuildCast == Make("cast", LAMBDA c : build_cast(ctx, c))
BuildSwitch == Make("switch", LAMBDA c : build_switch(ctx, c))
BuildSelect == Make("select", LAMBDA c : build_select(ctx, c))

Build ==
  /\ ~ir.built
  /\ ir' = Built(emit(ctx))
  /\ last' = None
  /\ UNCHANGED <<plan, given, ctx, numbered>>

Next ==
  \/ DeclareGlobalVariable \/ DeclareFunction \/ DefineFunction \/ AddBasicBlock
  \/ BuildPhi \/ AddBranch
  \/ BuildUnconditionalBr \/ BuildConditionalBr \/ BuildSwitch \/ BuildRet \/ BuildUnreachable
  \/ BuildAlloca \/ BuildLoad \/ BuildStore \/ BuildGetElementPtr
  \/ BuildCall \/ BuildVoidCall
  \/ BuildICmp \/ BuildIBinOp \/ BuildFCmp \/ BuildFBinOp \/ BuildFNeg \/ BuildCast \/ BuildSelect
  \/ Build \/ GoOn

Spec == Init /\ [][Next]_vars

-----------------------------------------------------------------------------
(* What a literal says, read as the operation reads its operands.           *)

UnsignedReading == {"udiv", "urem", "lshr", "ugt", "uge", "ult", "ule"}

Reading(c) == IF "word" \in DOMAIN c /\ c.word \in UnsignedReading THEN "Unsigned" ELSE "Signed"

IntegerRead(w, n, reading) == IF reading = "Unsigned" THEN as_unsigned(w, n) ELSE as_signed(w, n)

Written(v, reading) ==
  IF v.const.variant \in {"I8", "I16", "I32", "I64"}
  THEN [number |-> IntegerRead(width(T(v.const.variant))[1], v.const.n, reading)]
  ELSE [number |-> v.const.n]

Spelled(u, reading) ==
  LET o == u.operand
  IN  CASE "int" \in DOMAIN o -> [number |-> IntegerRead(width(u.ty)[1], o.int, reading)]
        [] "bool" \in DOMAIN o -> [number |-> IF o.bool THEN 1 ELSE 0]
        [] "hex" \in DOMAIN o -> [number |-> o.hex]
        [] "null" \in DOMAIN o -> [number |-> 0]
        [] OTHER -> [register |-> TRUE]

(* The operands of a call beside the uses of the line it appended.          *)
Beside(c, line) ==
  CASE c.call \in {"icmp", "ibinop", "fcmp", "fbinop", "select"} ->
         {<<c.a, [ty |-> line.ty, operand |-> line.a]>>, <<c.b, [ty |-> line.ty, operand |-> line.b]>>}
    [] c.call = "fneg" -> {<<c.val, [ty |-> line.ty, operand |-> line.a]>>}
    [] c.call = "cast" -> {<<c.val, [ty |-> line.src_ty, operand |-> line.a]>>}
    [] c.call = "store" -> {<<c.val, line.val>>}
    [] c.call = "ret" -> {<<c.returned[k], [ty |-> line.ty, operand |-> line.operand[k]]>> : k \in DOMAIN c.returned}
    [] c.call \in {"call", "void_call"} -> {<<c.params[k].val, line.args[k]>> : k \in DOMAIN c.params}
    [] c.call = "alloca" -> {<<c.count[k], line.count[k]>> : k \in DOMAIN c.count}
    [] c.call = "gep" -> {<<c.indices[k], line.indices[k]>> : k \in DOMAIN c.indices}
    [] c.call = "switch" ->
         {<<c.cond, [ty |-> line.ty, operand |-> line.cond]>>}
           \union {<<c.cases[k], [ty |-> line.ty, operand |-> line.cases[k]]>> : k \in DOMAIN c.cases}
    [] OTHER -> {}

Accepted == last # None /\ ~ir.built /\ given[Len(given)] # None

Appended == LET block == ctx.blocks[last[1].block] IN block.instructions[Len(block.instructions)]

(* A literal that had to change its type to meet the other operand, or the  *)
(* type it is asserted to have, is still the number the caller wrote, read  *)
(* the way the operation reads its operands: -1 beside a wider register is  *)
(* 255 to udiv and -1 to sdiv; and nothing is rounded on the way            *)
(* (Value::try_cast, Value::try_cast_two, ConstValue::try_cast).            *)
OperandsKeepTheirReading ==
  /\ Accepted
  /\ "block" \in DOMAIN last[1] /\ last[1].call # "phi"
  /\ \A v \in values_of(Appended) : can_emit(v)
  =>
    \A pair \in Beside(last[1], visit_instruction(ctx, Appended)) :
      "const" \in DOMAIN pair[1] =>
        Written(pair[1], Reading(last[1])) = Spelled(pair[2], Reading(last[1]))

(* What the builder lets a client do that llvm-as then objects to: to fill  *)
(* a later block of a function before an earlier one, to go on after a call *)
(* that was refused once it had its number, to name a block as a register   *)
(* of its function, and to load, or to index, what a function's address     *)
(* points to.                                                               *)
LaterBlockFirst(func) ==
  \E j, k \in DOMAIN numbered :
    /\ j < k /\ numbered[j].block > numbered[k].block
    /\ numbered[j].func = func /\ numbered[k].func = func

NumberRefused(func) == \E k \in DOMAIN numbered : numbered[k].func = func /\ ~numbered[k].taken

BlockNamedAsRegister(func) ==
  \E f \in Range(ctx.functions) :
    /\ ctx.funcs[f].name = func
    /\ \E name \in ctx.funcs[f].block_names : <<name, <<>>>> \in ctx.reg_name_assigner[f].issued_names

FunctionAccessed(func) ==
  \E b \in DOMAIN ctx.blocks : \E i \in Range(ctx.blocks[b].instructions) :
    /\ ctx.funcs[ctx.blocks[b].func_id].name = func
    /\ i.op \in {"load", "getelementptr"} /\ "global" \in DOMAIN i.ptr
    /\ "params" \in DOMAIN ctx.globals[i.ptr.global]

(* Whatever was called, accepted or refused, in whatever order, llvm-as     *)
(* takes the text, or objects to one of the four things above and to no     *)
(* more: every name is defined once and used at its type, every constant is *)
(* of its type, blocks are in order, and accesses are at the type of the    *)
(* slot the pointer was traced to (the cursor's checks, add_phi, is_locked, *)
(* register_defs, name_from_hint, the emitter).                             *)
EmittedIsWellTyped ==
  ir.built /\ ir.text # None =>
    \A o \in LlvmObjections(ir.text[1]) :
      \/ o.rule = "order of numbers" /\ LaterBlockFirst(o.func)
      \/ o.rule = "gap in numbers" /\ NumberRefused(o.func)
      \/ o.rule = "label and register" /\ BlockNamedAsRegister(o.func)
      \/ o.rule = "size" /\ FunctionAccessed(o.func)

(* A refused call leaves the module as it was: no symbol is taken, no       *)
(* instruction added, no block ended.  Only a phi whose later branch is     *)
(* refused stays, with the branches before that one.                        *)
ModuleOf(x) ==
  [symbols |-> x.globals, variables |-> x.global_variables, imported |-> x.imported_functions,
   functions |-> each(x.functions, LAMBDA f : x.funcs[f]), blocks |-> x.blocks]

PhiLeft(c) ==
  /\ c.call = "phi"
  /\ Len(c.branches) > 1
  /\ ModuleOf([ctx' EXCEPT !.blocks[c.block].phis = Front(@)]) = ModuleOf(ctx)
  /\ LET kept == Last(ctx'.blocks[c.block].phis).branches
     IN  kept # <<>> /\ Len(kept) < Len(c.branches) /\ IsPrefix(kept, c.branches)

RefusalsLeaveTheModule ==
  [][last' # None /\ given' # given /\ given'[Len(given')] = None
       => ModuleOf(ctx') = ModuleOf(ctx) \/ PhiLeft(last'[1])]_vars

(* "Unnamed values get consecutive numbers from %0, matching LLVM": in the  *)
(* text, the numbers a function's definitions carry ascend, as llvm-as asks *)
(* (FuncRegNameIndex::next_unnamed_index).                                  *)
NumbersAscend ==
  ir.built /\ ir.text # None => \A body \in BodiesOf(ir.text[1]) : Ascending(UnnamedIn(body))
=============================================================================
