------------------------------- MODULE IrCursor -------------------------------
(***************************************************************************)
(* What a cursor at a block builds.  Every operation takes the context and *)
(* the call, a record of its arguments, and replies as IrContext says: an  *)
(* instruction is appended with its operands brought to their types, or    *)
(* the call is refused.                                                    *)
(***************************************************************************)
EXTENDS IrContext

align_allowed(align) == align # None => \E k \in 0 .. align[1] : align[1] = 2^k

(* An asserted type must be one the operation can take at this pointer.     *)
type_at(pointee, ty) ==
  IF ty = None THEN pointee
  ELSE IF is_first_class(ty[1]) /\ (pointee = None \/ pointee = ty) THEN ty ELSE None

append_value(ctx, c, kind, ty) == add_instruction_to_block_and_get_value(ctx, c.block, kind, ty, c.reg)

append_void(ctx, block, kind) ==
  LET added == add_instruction(ctx, block, kind)
  IN  IF added.out = None THEN added ELSE Returned(added.ctx, Done)

-----------------------------------------------------------------------------
(* The name and the empty phi come first; each branch is then added or      *)
(* refused, and a refused one ends the call with the phi in place.          *)
build_phi(ctx, c) ==
  LET ref_ty == c.branches[1].val.ty
      named == name_for_reg(ctx, c.reg, ctx.blocks[c.block].func_id)
      value == from_register(named.out[1], ref_ty)
      added == add_phi(named.ctx, c.block,
                       [op |-> "phi", value |-> Some(value), ref_ty |-> ref_ty, branches |-> <<>>])
      join(reply, branch) ==
        IF reply.out = None THEN reply ELSE add_branch(reply.ctx, added.out[1], branch)
      joined == FoldLeft(join, added, c.branches)
  IN  IF c.branches = <<>> THEN Refused(ctx)
      ELSE IF named.out = None THEN named
      ELSE IF joined.out = None THEN joined
      ELSE Returned(joined.ctx, value)

build_unconditional_br(ctx, c) == add_terminator(ctx, c.block, [op |-> "br", value |-> None, label |-> c.label])

build_conditional_br(ctx, c) ==
  IF into_i1(c.cond) = None THEN Refused(ctx)
  ELSE add_terminator(ctx, c.block,
         [op |-> "condbr", value |-> None, cond |-> c.cond,
          true_label |-> c.true_label, false_label |-> c.false_label])

build_ret(ctx, c) ==
  LET val == IF c.returned = None THEN None ELSE asserted(c.returned[1], c.ty)
      ty == IF c.ty # None THEN c.ty[1] ELSE c.returned[1].ty
  IN  IF /\ c.returned # None \/ c.ty # None
         /\ c.returned # None => val # None
         /\ c.returned = None => is_void(ty)
         /\ ty = ctx.funcs[ctx.blocks[c.block].func_id].result
      THEN add_terminator(ctx, c.block, [op |-> "ret", value |-> None, ty |-> ty, val |-> val])
      ELSE Refused(ctx)

build_unreachable(ctx, c) == add_terminator(ctx, c.block, [op |-> "unreachable", value |-> None])

-----------------------------------------------------------------------------
(* Memory                                                                   *)

build_alloca(ctx, c) ==
  LET count == IF c.count = None THEN None ELSE asserted(c.count[1], c.count_ty)
  IN  IF /\ is_first_class(c.ty)
         /\ align_allowed(c.align)
         /\ c.count # None =>
              is_integer(c.count[1].ty) /\ (c.count_ty # None => is_integer(c.count_ty[1])) /\ count # None
      THEN append_value(ctx, c, [op |-> "alloca", value |-> None, ty |-> c.ty, count |-> count,
                                 align |-> c.align], Ptr)
      ELSE Refused(ctx)

build_load(ctx, c) ==
  LET ty == type_at(try_inferring_pointee_ty(ctx, c.block, c.ptr), c.ty)
  IN  IF is_ptr(c.ptr.ty) /\ align_allowed(c.align) /\ ty # None
      THEN append_value(ctx, c, [op |-> "load", value |-> None, ty |-> ty[1], ptr |-> c.ptr,
                                 align |-> c.align], ty[1])
      ELSE Refused(ctx)

build_store(ctx, c) ==
  LET val == asserted(c.val, c.ty)
      pointee == try_inferring_pointee_ty(ctx, c.block, c.ptr)
  IN  IF /\ is_ptr(c.ptr.ty) /\ align_allowed(c.align)
         /\ val # None
         /\ pointee # None => pointee[1] = val[1].ty
      THEN append_void(ctx, c.block, [op |-> "store", value |-> None, val |-> val[1], ptr |-> c.ptr,
                                      align |-> c.align])
      ELSE Refused(ctx)

(* The first index steps over the source type; the rest must land in it.    *)
build_get_element_ptr(ctx, c) ==
  LET source_ty == type_at(try_inferring_pointee_ty(ctx, c.block, c.ptr), c.source_ty)
  IN  IF /\ is_ptr(c.ptr.ty)
         /\ \A k \in DOMAIN c.indices : is_integer(c.indices[k].ty)
         /\ source_ty # None
         /\ Len(c.indices) > 1 => walk_pointee_ty_in_gep(source_ty[1], Tail(c.indices)) # None
      THEN append_value(ctx, c, [op |-> "getelementptr", value |-> None, source_ty |-> source_ty[1],
                                 ptr |-> c.ptr, indices |-> c.indices], Ptr)
      ELSE Refused(ctx)

-----------------------------------------------------------------------------
(* Calls.  An argument is a value and the type asserted of it.              *)

arguments(c) == [k \in DOMAIN c.params |-> asserted(c.params[k].val, c.params[k].ty)]

try_cast_param_and_check_with_func_signature(c, sig) ==
  /\ Len(c.params) = Len(sig.params)
  /\ \A k \in DOMAIN c.params : arguments(c)[k] # None /\ arguments(c)[k][1].ty = sig.params[k]

call_kind(c, return_ty) ==
  [op |-> "call", value |-> None, func_name |-> c.func, return_ty |-> return_ty,
   params |-> [k \in DOMAIN c.params |-> arguments(c)[k][1]]]

build_call(ctx, c) ==
  LET sig == ctx.globals[c.func]
  IN  IF /\ c.return_ty # None => c.return_ty[1] = sig.result
         /\ ~is_void(sig.result)
         /\ try_cast_param_and_check_with_func_signature(c, sig)
      THEN append_value(ctx, c, call_kind(c, sig.result), sig.result)
      ELSE Refused(ctx)

build_void_call(ctx, c) ==
  LET sig == ctx.globals[c.func]
  IN  IF is_void(sig.result) /\ try_cast_param_and_check_with_func_signature(c, sig)
      THEN append_void(ctx, c.block, call_kind(c, Void))
      ELSE Refused(ctx)

-----------------------------------------------------------------------------
(* Arithmetic                                                               *)

binary(ctx, c, op, operands, is_operand(_), result(_)) ==
  IF operands # None /\ is_operand(operands[1][1].ty)
  THEN append_value(ctx, c, [op |-> op, value |-> None, word |-> c.word, ty |-> operands[1][1].ty,
                             a |-> operands[1][1], b |-> operands[1][2]],
                    result(operands[1][1].ty))
  ELSE Refused(ctx)

(* Without an order there is no reading to widen by: the types must agree.  *)
build_icmp(ctx, c) ==
  LET signedness == icmp_signedness(c.word)
      operands == IF signedness # None THEN try_cast_two(c.a, c.b, c.ty, signedness[1])
                  ELSE IF c.a.ty = c.b.ty /\ (c.ty # None => c.ty[1] = c.a.ty)
                  THEN Some(<<c.a, c.b>>) ELSE None
      comparable(t) == is_integer(t) \/ is_ptr(t)
  IN  binary(ctx, c, "icmp", operands, comparable, LAMBDA t : I1)

build_ibinop(ctx, c) ==
  binary(ctx, c, "ibinop", try_cast_two(c.a, c.b, c.ty, ibinop_signedness(c.word)), is_integer, LAMBDA t : t)

build_fcmp(ctx, c) ==
  binary(ctx, c, "fcmp", try_cast_two(c.a, c.b, c.ty, "NotApplicable"), is_float, LAMBDA t : I1)

build_fbinop(ctx, c) ==
  binary(ctx, c, "fbinop", try_cast_two(c.a, c.b, c.ty, "NotApplicable"), is_float, LAMBDA t : t)

build_fneg(ctx, c) ==
  IF is_float(c.val.ty)
  THEN append_value(ctx, c, [op |-> "fneg", value |-> None, ty |-> c.val.ty, val |-> c.val], c.val.ty)
  ELSE Refused(ctx)

build_cast(ctx, c) ==
  LET val == asserted(c.val, c.ty)
  IN  IF val # None /\ is_cast_allowed(c.word, val[1].ty, c.dest)
      THEN append_value(ctx, c, [op |-> "cast", value |-> None, word |-> c.word, src_ty |-> val[1].ty,
                                 val |-> val[1], dest_ty |-> c.dest], c.dest)
      ELSE Refused(ctx)

-----------------------------------------------------------------------------
(* Choices                                                                  *)

build_switch(ctx, c) ==
  LET cond == asserted(c.cond, c.ty)
      folded == [k \in DOMAIN c.cases |-> const_try_cast(c.cases[k].const, cond[1].ty, "Signed")]
  IN  IF /\ cond # None /\ is_integer(cond[1].ty)
         /\ \A k \in DOMAIN c.cases : folded[k] # None /\ \A j \in 1 .. k - 1 : folded[j] # folded[k]
      THEN add_terminator(ctx, c.block,
             [op |-> "switch", value |-> None, cond |-> cond[1], default_label |-> c.default_label,
              cases |-> [k \in DOMAIN c.cases |-> [const |-> folded[k][1], label |-> c.cases[k].label]]])
      ELSE Refused(ctx)

build_select(ctx, c) ==
  LET arms == try_cast_two(c.a, c.b, c.ty, "Signed")
  IN  IF into_i1(c.cond) # None /\ arms # None /\ is_first_class(arms[1][1].ty)
      THEN append_value(ctx, c, [op |-> "select", value |-> None, cond |-> c.cond,
                                 arms_ty |-> arms[1][1].ty, true_arm |-> arms[1][1],
                                 false_arm |-> arms[1][2]], arms[1][1].ty)
      ELSE Refused(ctx)
=============================================================================
