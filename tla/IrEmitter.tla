------------------------------- MODULE IrEmitter -------------------------------
(***************************************************************************)
(* The finished graph as text: the walk over it, and the line each visit   *)
(* writes.  A line is a record of the words in it; an operand keeps its    *)
(* spelling and loses its type, which is there only where the line writes  *)
(* one.  Target, indentation and inbounds are left out.                    *)
(***************************************************************************)
EXTENDS IrContext

(* Constant expressions that carry no operands refuse the whole emission.   *)
RECURSIVE can_emit(_)
can_emit(v) ==
  /\ "incomplete" \notin DOMAIN v
  /\ "gep" \in DOMAIN v =>
       can_emit(v.gep.ptr) /\ \A k \in DOMAIN v.gep.indices : can_emit(v.gep.indices[k])

constant(c) ==
  CASE c.variant = "I1" -> [bool |-> c.n # 0]
    [] c.variant \in {"I8", "I16", "I32", "I64"} -> [int |-> c.n]
    [] c.variant \in {"Float", "Double"} -> [hex |-> c.n]      \* the bits of the double
    [] c = NullPtr -> [null |-> TRUE]

RECURSIVE operand(_)
typed_operand(v) == [ty |-> v.ty, operand |-> operand(v)]
operand(v) ==
  CASE "reg" \in DOMAIN v -> [reg |-> v.reg]
    [] "global" \in DOMAIN v -> [global |-> v.global]
    [] "const" \in DOMAIN v -> constant(v.const)
    [] "gep" \in DOMAIN v ->
         [getelementptr |-> [source_ty |-> v.gep.source_ty, ptr |-> typed_operand(v.gep.ptr),
                             indices |-> [k \in DOMAIN v.gep.indices |-> typed_operand(v.gep.indices[k])]]]

assignment(instr) == operand(instr.value[1]).reg
label(ctx, block) == ctx.blocks[block].name
each(s, f(_)) == [k \in DOMAIN s |-> f(s[k])]

-----------------------------------------------------------------------------
visit_global_variable(name, data) ==
  [line |-> "global", name |-> name, ty |-> data.ty,
   initializer |-> each(data.initializer, operand)]

visit_imported_func(name, sig) ==
  [line |-> "declare", name |-> name, params |-> sig.params, result |-> sig.result]

visit_func(func) ==
  [line |-> "define", name |-> func.name, params |-> each(func.params, typed_operand),
   result |-> func.result]

visit_basic_block(block) == [line |-> "label", name |-> block.name]
post_func_visit == [line |-> "}"]

visit_phi(ctx, i) ==
  [line |-> "phi", def |-> assignment(i), ty |-> i.ref_ty,
   branches |-> each(i.branches, LAMBDA b : [operand |-> operand(b.val), label |-> label(ctx, b.block)])]

visit_ret(i) ==
  [line |-> "ret", ty |-> IF i.val = None THEN i.ty ELSE i.val[1].ty, operand |-> each(i.val, operand)]

visit_unconditional_br(ctx, i) == [line |-> "br", labels |-> <<label(ctx, i.label)>>]

visit_conditional_br(ctx, i) ==
  [line |-> "condbr", cond |-> operand(i.cond),
   labels |-> <<label(ctx, i.true_label), label(ctx, i.false_label)>>]

visit_alloca(i) ==
  [line |-> "alloca", def |-> assignment(i), ty |-> i.ty, count |-> each(i.count, typed_operand),
   align |-> i.align]

visit_load(i) ==
  [line |-> "load", def |-> assignment(i), ty |-> i.ty, ptr |-> typed_operand(i.ptr), align |-> i.align]

visit_store(i) ==
  [line |-> "store", val |-> typed_operand(i.val), ptr |-> typed_operand(i.ptr), align |-> i.align]

visit_get_element_ptr(i) ==
  [line |-> "getelementptr", def |-> assignment(i), source_ty |-> i.source_ty,
   ptr |-> typed_operand(i.ptr), indices |-> each(i.indices, typed_operand)]

visit_call(i) ==
  LET call == [line |-> "call", name |-> i.func_name, ty |-> i.return_ty,
               args |-> each(i.params, typed_operand)]
  IN  IF i.value = None THEN call ELSE ("def" :> assignment(i)) @@ call

(* A comparison, an integer or a float operation: one type, two operands.   *)
visit_icmp(i) ==
  [line |-> "icmp", def |-> assignment(i), word |-> i.word, ty |-> i.ty,
   a |-> operand(i.a), b |-> operand(i.b)]
visit_ibinop(i) == [visit_icmp(i) EXCEPT !.line = "ibinop"]
visit_fcmp(i) == [visit_icmp(i) EXCEPT !.line = "fcmp"]
visit_fbinop(i) == [visit_icmp(i) EXCEPT !.line = "fbinop"]

visit_fneg(i) == [line |-> "fneg", def |-> assignment(i), ty |-> i.ty, a |-> operand(i.val)]

visit_cast(i) ==
  [line |-> "cast", def |-> assignment(i), word |-> i.word, src_ty |-> i.src_ty, a |-> operand(i.val),
   dest_ty |-> i.dest_ty]

visit_switch(ctx, i) ==
  [line |-> "switch", ty |-> i.cond.ty, cond |-> operand(i.cond),
   cases |-> each(i.cases, LAMBDA k : constant(k.const)),
   labels |-> <<label(ctx, i.default_label)>> \o each(i.cases, LAMBDA k : label(ctx, k.label))]

visit_select(i) ==
  [line |-> "select", def |-> assignment(i), cond |-> operand(i.cond), ty |-> i.arms_ty,
   a |-> operand(i.true_arm), b |-> operand(i.false_arm)]

visit_unreachable == [line |-> "unreachable"]

-----------------------------------------------------------------------------
visit_instruction(ctx, i) ==
  CASE i.op = "ret" -> visit_ret(i)
    [] i.op = "br" -> visit_unconditional_br(ctx, i)
    [] i.op = "condbr" -> visit_conditional_br(ctx, i)
    [] i.op = "alloca" -> visit_alloca(i)
    [] i.op = "load" -> visit_load(i)
    [] i.op = "store" -> visit_store(i)
    [] i.op = "getelementptr" -> visit_get_element_ptr(i)
    [] i.op = "call" -> visit_call(i)
    [] i.op = "icmp" -> visit_icmp(i)
    [] i.op = "ibinop" -> visit_ibinop(i)
    [] i.op = "fcmp" -> visit_fcmp(i)
    [] i.op = "fbinop" -> visit_fbinop(i)
    [] i.op = "fneg" -> visit_fneg(i)
    [] i.op = "switch" -> visit_switch(ctx, i)
    [] i.op = "select" -> visit_select(i)
    [] i.op = "unreachable" -> visit_unreachable
    [] i.op = "cast" -> visit_cast(i)

values_of(i) ==
  CASE i.op = "phi" -> {i.branches[k].val : k \in DOMAIN i.branches}
    [] i.op = "ret" -> {i.val[k] : k \in DOMAIN i.val}
    [] i.op \in {"condbr", "switch"} -> {i.cond}
    [] i.op = "alloca" -> {i.count[k] : k \in DOMAIN i.count}
    [] i.op = "load" -> {i.ptr}
    [] i.op = "store" -> {i.val, i.ptr}
    [] i.op = "getelementptr" -> {i.ptr} \union {i.indices[k] : k \in DOMAIN i.indices}
    [] i.op = "call" -> {i.params[k] : k \in DOMAIN i.params}
    [] i.op \in {"icmp", "fcmp", "ibinop", "fbinop"} -> {i.a, i.b}
    [] i.op = "select" -> {i.cond, i.true_arm, i.false_arm}
    [] i.op \in {"fneg", "cast"} -> {i.val}
    [] i.op \in {"br", "unreachable"} -> {}

walk_basic_block(ctx, id) ==
  LET block == ctx.blocks[id]
  IN  <<visit_basic_block(block)>>
        \o each(block.phis, LAMBDA p : visit_phi(ctx, p))
        \o each(block.instructions, LAMBDA i : visit_instruction(ctx, i))

walk_func(ctx, id) ==
  LET func == ctx.funcs[id]
  IN  <<visit_func(func)>>
        \o FlattenSeq(each(func.blocks, LAMBDA b : walk_basic_block(ctx, b)))
        \o <<post_func_visit>>

(* Variables, declarations, then functions, their blocks as created.        *)
walk_cfg(ctx) ==
  each(ctx.global_variables, LAMBDA g : visit_global_variable(g, ctx.globals[g]))
    \o each(ctx.imported_functions, LAMBDA f : visit_imported_func(f, ctx.globals[f]))
    \o FlattenSeq(each(ctx.functions, LAMBDA f : walk_func(ctx, f)))

emitted_values(ctx) ==
  LET initializers == {ctx.globals[g].initializer : g \in Range(ctx.global_variables)}
      blocks == {ctx.blocks[b] : b \in UNION {Range(ctx.funcs[f].blocks) : f \in Range(ctx.functions)}}
  IN  UNION {Range(init) : init \in initializers}
        \union UNION {values_of(i) : i \in UNION {Range(b.phis) \union Range(b.instructions) : b \in blocks}}

emit(ctx) == IF \A v \in emitted_values(ctx) : can_emit(v) THEN Some(walk_cfg(ctx)) ELSE None
=============================================================================
