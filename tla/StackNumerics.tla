---------------------------- MODULE StackNumerics ----------------------------
(***************************************************************************)
(* The numeric arms of StackInstruction::execute, and the effect on the    *)
(* operand height that emit_instructions_for_func books for each.          *)
(*                                                                         *)
(* An arm pops its operands, the last one first, and pushes its result; it *)
(* is given here as a function of the popped values p to that result, or   *)
(* to None where it returns an error.                                      *)
(***************************************************************************)
EXTENDS RuntimeValues, Sequences

I32Unary(f, p) ==
  LET a == as_i32(p[1])
  IN  CASE f = "Clz" -> Some(from_i32(leading_zeros(W32, a)))
        [] f = "Ctz" -> Some(from_i32(trailing_zeros(W32, a)))
        [] f = "Popcnt" -> Some(from_i32(count_ones(W32, a)))
        [] f = "Eqz" -> Some(from_i32(as_int(a = 0)))
        [] f = "Extend8S" -> Some(from_i32(signed(W8, a)))
        [] f = "Extend16S" -> Some(from_i32(signed(W16, a)))

I32FromOthers(f, p) ==
  LET x == as_f32(p[1])
      promoted == convert(W64, W32, x)
      y == as_f64(p[1])
      unsigned_result(t) == from_i32(signed(W32, as_uN(W32, t)))
      signed_result(t) == from_i32(as_iN(W32, t))
  IN  CASE f = "WrapI64" -> Some(from_i32(signed(W32, as_i64(p[1]))))
        [] f = "TruncF32U" -> Then(trunc_float_to_int(promoted, 0, U32_TRUNC_HIGH), unsigned_result)
        [] f = "TruncF32S" -> Then(trunc_float_to_int(promoted, I32_TRUNC_LOW, I32_TRUNC_HIGH), signed_result)
        [] f = "TruncF64U" -> Then(trunc_float_to_int(y, 0, U32_TRUNC_HIGH), unsigned_result)
        [] f = "TruncF64S" -> Then(trunc_float_to_int(y, I32_TRUNC_LOW, I32_TRUNC_HIGH), signed_result)
        [] f = "TruncSatF32U" -> Some(from_i32(saturated(0, UMax(W32), W32, x)))
        [] f = "TruncSatF32S" -> Some(from_i32(saturated(IMin(W32), IMax(W32), W32, x)))
        [] f = "TruncSatF64U" -> Some(from_i32(saturated(0, UMax(W32), W64, y)))
        [] f = "TruncSatF64S" -> Some(from_i32(saturated(IMin(W32), IMax(W32), W64, y)))
        [] f = "ReinterpretF32" -> Some(from_i32(signed(W32, x)))

I32Arithmetic(f, p) ==
  LET b == as_i32(p[1])
      a == as_i32(p[2])
  IN  CASE f = "Add" -> Some(from_i32(signed(W32, a + b)))
        [] f = "Sub" -> Some(from_i32(signed(W32, a - b)))
        [] f = "Mul" -> Some(from_i32(signed(W32, a * b)))
        [] f = "DivU" -> Then(checked_div_u(as_u32(p[2]), as_u32(p[1])), from_i32)
        [] f = "DivS" -> Then(checked_div_s(W32, a, b), from_i32)
        [] f = "RemU" -> Then(checked_rem_u(as_u32(p[2]), as_u32(p[1])), from_i32)
        [] f = "RemS" -> IF b = 0 THEN None ELSE Some(from_i32(wrapping_rem_s(a, b)))

I32Bitwise(f, p) ==
  LET b == as_u32(p[1])
      a == as_u32(p[2])
      A == bits(W32, a)
      B == bits(W32, b)
  IN  CASE f = "And" -> Some(number(A \cap B))
        [] f = "Or" -> Some(number(A \cup B))
        [] f = "Xor" -> Some(number((A \ B) \cup (B \ A)))
        [] f = "Shl" -> Some(wrapping_shl(W32, a, b))
        [] f = "ShrU" -> Some(wrapping_shr_u(W32, a, b))
        [] f = "ShrS" -> Some(from_i32(wrapping_shr_s(W32, as_i32(p[2]), b)))
        [] f = "Rotl" -> Some(rotate_left(W32, a, b))
        [] f = "Rotr" -> Some(rotate_right(W32, a, b))

I32Compare(f, p) ==
  LET b == as_i32(p[1])
      a == as_i32(p[2])
      ub == as_u32(p[1])
      ua == as_u32(p[2])
  IN  CASE f = "Eq" -> Some(as_int(a = b))
        [] f = "Ne" -> Some(as_int(a # b))
        [] f = "LtU" -> Some(as_int(ua < ub))
        [] f = "LtS" -> Some(as_int(a < b))
        [] f = "GtU" -> Some(as_int(ua > ub))
        [] f = "GtS" -> Some(as_int(a > b))
        [] f = "LeU" -> Some(as_int(ua <= ub))
        [] f = "LeS" -> Some(as_int(a <= b))
        [] f = "GeU" -> Some(as_int(ua >= ub))
        [] f = "GeS" -> Some(as_int(a >= b))

-----------------------------------------------------------------------------
I64Unary(f, p) ==
  LET a == as_i64(p[1])
  IN  CASE f = "Clz" -> Some(from_i64(leading_zeros(W64, a)))
        [] f = "Ctz" -> Some(from_i64(trailing_zeros(W64, a)))
        [] f = "Popcnt" -> Some(from_i64(count_ones(W64, a)))
        [] f = "Eqz" -> Some(from_i32(as_int(a = 0)))
        [] f = "Extend8S" -> Some(from_i64(signed(W8, a)))
        [] f = "Extend16S" -> Some(from_i64(signed(W16, a)))
        [] f = "Extend32S" -> Some(from_i64(signed(W32, a)))
        [] f = "ExtendI32U" -> Some(from_i64(as_u32(p[1])))
        [] f = "ExtendI32S" -> Some(from_i64(as_i32(p[1])))

I64FromFloats(f, p) ==
  LET x == as_f32(p[1])
      promoted == convert(W64, W32, x)
      y == as_f64(p[1])
      unsigned_result(t) == from_i64(signed(W64, as_uN(W64, t)))
      signed_result(t) == from_i64(as_iN(W64, t))
  IN  CASE f = "TruncF32U" -> Then(trunc_float_to_int(promoted, 0, U64_TRUNC_HIGH), unsigned_result)
        [] f = "TruncF32S" -> Then(trunc_float_to_int(promoted, I64_TRUNC_LOW, I64_TRUNC_HIGH), signed_result)
        [] f = "TruncF64U" -> Then(trunc_float_to_int(y, 0, U64_TRUNC_HIGH), unsigned_result)
        [] f = "TruncF64S" -> Then(trunc_float_to_int(y, I64_TRUNC_LOW, I64_TRUNC_HIGH), signed_result)
        [] f = "TruncSatF32U" -> Some(from_i64(saturated(0, UMax(W64), W32, x)))
        [] f = "TruncSatF32S" -> Some(from_i64(saturated(IMin(W64), IMax(W64), W32, x)))
        [] f = "TruncSatF64U" -> Some(from_i64(saturated(0, UMax(W64), W64, y)))
        [] f = "TruncSatF64S" -> Some(from_i64(saturated(IMin(W64), IMax(W64), W64, y)))
        [] f = "ReinterpretF64" -> Some(from_i64(signed(W64, y)))

I64Arithmetic(f, p) ==
  LET b == as_i64(p[1])
      a == as_i64(p[2])
  IN  CASE f = "Add" -> Some(from_i64(signed(W64, a + b)))
        [] f = "Sub" -> Some(from_i64(signed(W64, a - b)))
        [] f = "Mul" -> Some(from_i64(signed(W64, a * b)))
        [] f = "DivU" -> Then(checked_div_u(as_u64(p[2]), as_u64(p[1])), from_i64)
        [] f = "DivS" -> Then(checked_div_s(W64, a, b), from_i64)
        [] f = "RemU" -> Then(checked_rem_u(as_u64(p[2]), as_u64(p[1])), from_i64)
        [] f = "RemS" -> IF b = 0 THEN None ELSE Some(from_i64(wrapping_rem_s(a, b)))

(* The count of a shift or a rotate is cast to u32 first.                   *)
I64Bitwise(f, p) ==
  LET b == as_u64(p[1])
      a == as_u64(p[2])
      k == unsigned(W32, b)
      A == bits(W64, a)
      B == bits(W64, b)
  IN  CASE f = "And" -> Some(number(A \cap B))
        [] f = "Or" -> Some(number(A \cup B))
        [] f = "Xor" -> Some(number((A \ B) \cup (B \ A)))
        [] f = "Shl" -> Some(wrapping_shl(W64, a, k))
        [] f = "ShrU" -> Some(wrapping_shr_u(W64, a, k))
        [] f = "ShrS" -> Some(from_i64(wrapping_shr_s(W64, as_i64(p[2]), k)))
        [] f = "Rotl" -> Some(rotate_left(W64, a, k))
        [] f = "Rotr" -> Some(rotate_right(W64, a, k))

(* An i64 comparison pushes an i32.                                         *)
I64Compare(f, p) ==
  LET b == as_i64(p[1])
      a == as_i64(p[2])
      ub == as_u64(p[1])
      ua == as_u64(p[2])
  IN  CASE f = "Eq" -> Some(as_int(a = b))
        [] f = "Ne" -> Some(as_int(a # b))
        [] f = "LtU" -> Some(as_int(ua < ub))
        [] f = "LtS" -> Some(as_int(a < b))
        [] f = "GtU" -> Some(as_int(ua > ub))
        [] f = "GtS" -> Some(as_int(a > b))
        [] f = "LeU" -> Some(as_int(ua <= ub))
        [] f = "LeS" -> Some(as_int(a <= b))
        [] f = "GeU" -> Some(as_int(ua >= ub))
        [] f = "GeS" -> Some(as_int(a >= b))

-----------------------------------------------------------------------------
F32Unary(f, p) ==
  LET a == as_f32(p[1])
  IN  CASE f = "Abs" -> Some(from_f32(abs_f(W32, a)))
        [] f = "Neg" -> Some(from_f32(neg_f(W32, a)))
        [] f = "Ceil" -> Some(from_f32(ceil(W32, a)))
        [] f = "Floor" -> Some(from_f32(floor(W32, a)))
        [] f = "Trunc" -> Some(from_f32(trunc(W32, a)))
        [] f = "Sqrt" -> Some(from_f32(Ieee(W32, "Sqrt", a, a)))
        [] f = "Nearest" -> Some(from_f32(round_ties_even(W32, a)))

F32FromOthers(f, p) ==
  CASE f = "ConvertI32U" -> Some(from_f32(from_int(W32, as_u32(p[1]))))
    [] f = "ConvertI32S" -> Some(from_f32(from_int(W32, as_i32(p[1]))))
    [] f = "ConvertI64U" -> Some(from_f32(from_int(W32, as_u64(p[1]))))
    [] f = "ConvertI64S" -> Some(from_f32(from_int(W32, as_i64(p[1]))))
    [] f = "DemoteF64" -> Some(from_f32(convert(W32, W64, as_f64(p[1]))))
    [] f = "ReinterpretI32" -> Some(from_f32(as_u32(p[1])))

F32Arithmetic(f, p) ==
  LET b == as_f32(p[1])
      a == as_f32(p[2])
  IN  Some(from_f32(Ieee(W32, f, a, b)))

F32Compare(f, p) ==
  LET b == as_f32(p[1])
      a == as_f32(p[2])
  IN  CASE f = "Eq" -> Some(as_int(feq(W32, a, b)))
        [] f = "Ne" -> Some(as_int(~feq(W32, a, b)))
        [] f = "Lt" -> Some(as_int(flt(W32, a, b)))
        [] f = "Gt" -> Some(as_int(flt(W32, b, a)))
        [] f = "Le" -> Some(as_int(fle(W32, a, b)))
        [] f = "Ge" -> Some(as_int(fle(W32, b, a)))

(* The zeros compare equal, so min and max then go by the sign.             *)
F32MinMax(f, p) ==
  LET b == as_f32(p[1])
      a == as_f32(p[2])
      nan == is_nan(W32, a) \/ is_nan(W32, b)
  IN  CASE f = "Min" -> Some(from_f32(IF nan THEN NAN(W32)
                                     ELSE IF feq(W32, a, b)
                                       THEN (IF sign(W32, a) = 1 THEN a ELSE b)
                                     ELSE IF flt(W32, a, b) THEN a ELSE b))
        [] f = "Max" -> Some(from_f32(IF nan THEN NAN(W32)
                                     ELSE IF feq(W32, a, b)
                                       THEN (IF sign(W32, a) = 0 THEN a ELSE b)
                                     ELSE IF flt(W32, b, a) THEN a ELSE b))
        [] f = "Copysign" -> Some(from_f32(copysign(W32, a, b)))

-----------------------------------------------------------------------------
F64Unary(f, p) ==
  LET a == as_f64(p[1])
  IN  CASE f = "Abs" -> Some(from_f64(abs_f(W64, a)))
        [] f = "Neg" -> Some(from_f64(neg_f(W64, a)))
        [] f = "Ceil" -> Some(from_f64(ceil(W64, a)))
        [] f = "Floor" -> Some(from_f64(floor(W64, a)))
        [] f = "Trunc" -> Some(from_f64(trunc(W64, a)))
        [] f = "Sqrt" -> Some(from_f64(Ieee(W64, "Sqrt", a, a)))
        [] f = "Nearest" -> Some(from_f64(round_ties_even(W64, a)))

F64FromOthers(f, p) ==
  CASE f = "ConvertI32U" -> Some(from_f64(from_int(W64, as_u32(p[1]))))
    [] f = "ConvertI32S" -> Some(from_f64(from_int(W64, as_i32(p[1]))))
    [] f = "ConvertI64U" -> Some(from_f64(from_int(W64, as_u64(p[1]))))
    [] f = "ConvertI64S" -> Some(from_f64(from_int(W64, as_i64(p[1]))))
    [] f = "PromoteF32" -> Some(from_f64(convert(W64, W32, as_f32(p[1]))))
    [] f = "ReinterpretI64" -> Some(from_f64(as_u64(p[1])))

F64Arithmetic(f, p) ==
  LET b == as_f64(p[1])
      a == as_f64(p[2])
  IN  Some(from_f64(Ieee(W64, f, a, b)))

F64Compare(f, p) ==
  LET b == as_f64(p[1])
      a == as_f64(p[2])
  IN  CASE f = "Eq" -> Some(as_int(feq(W64, a, b)))
        [] f = "Ne" -> Some(as_int(~feq(W64, a, b)))
        [] f = "Lt" -> Some(as_int(flt(W64, a, b)))
        [] f = "Gt" -> Some(as_int(flt(W64, b, a)))
        [] f = "Le" -> Some(as_int(fle(W64, a, b)))
        [] f = "Ge" -> Some(as_int(fle(W64, b, a)))

(* The zeros compare equal, so min and max then go by the sign.             *)
F64MinMax(f, p) ==
  LET b == as_f64(p[1])
      a == as_f64(p[2])
      nan == is_nan(W64, a) \/ is_nan(W64, b)
  IN  CASE f = "Min" -> Some(from_f64(IF nan THEN NAN(W64)
                                     ELSE IF feq(W64, a, b)
                                       THEN (IF sign(W64, a) = 1 THEN a ELSE b)
                                     ELSE IF flt(W64, a, b) THEN a ELSE b))
        [] f = "Max" -> Some(from_f64(IF nan THEN NAN(W64)
                                     ELSE IF feq(W64, a, b)
                                       THEN (IF sign(W64, a) = 0 THEN a ELSE b)
                                     ELSE IF flt(W64, b, a) THEN a ELSE b))
        [] f = "Copysign" -> Some(from_f64(copysign(W64, a, b)))

RefIsNull(p) == Some(from_i32(as_int(as_ref(p[1]) = None)))

-----------------------------------------------------------------------------
(* StackEffectResult: how the lowering moves the operand height.            *)
UnaryOperator == [pops |-> 1, pushes |-> 1]
BinaryOperator == [pops |-> 2, pushes |-> 1]

I32Effect(f) ==
  IF f \in {"Clz", "Ctz", "Popcnt", "Eqz", "Extend8S", "Extend16S", "WrapI64",
            "TruncF32U", "TruncF32S", "TruncF64U", "TruncF64S", "TruncSatF32U",
            "TruncSatF32S", "TruncSatF64U", "TruncSatF64S", "ReinterpretF32"}
  THEN UnaryOperator ELSE BinaryOperator

(* A slip: widening an i32 is taken for an operator of two i32 halves.      *)
I64EffectWidened(f) ==
  IF f \in {"Clz", "Ctz", "Popcnt", "Eqz", "Extend8S", "Extend16S", "Extend32S",
            "TruncF32U", "TruncF32S", "TruncF64U", "TruncF64S", "TruncSatF32U",
            "TruncSatF32S", "TruncSatF64U", "TruncSatF64S", "ReinterpretF64"}
  THEN UnaryOperator ELSE BinaryOperator

I64Effect(f) ==
  IF f \in {"Clz", "Ctz", "Popcnt", "Eqz", "Extend8S", "Extend16S", "Extend32S",
            "ExtendI32U", "ExtendI32S", "TruncF32U", "TruncF32S", "TruncF64U",
            "TruncF64S", "TruncSatF32U", "TruncSatF32S", "TruncSatF64U",
            "TruncSatF64S", "ReinterpretF64"}
  THEN UnaryOperator ELSE BinaryOperator

F32Effect(f) ==
  IF f \in {"Abs", "Neg", "Ceil", "Floor", "Trunc", "Sqrt", "Nearest", "ConvertI32U",
            "ConvertI32S", "ConvertI64U", "ConvertI64S", "DemoteF64", "ReinterpretI32"}
  THEN UnaryOperator ELSE BinaryOperator

F64Effect(f) ==
  IF f \in {"Abs", "Neg", "Ceil", "Floor", "Trunc", "Sqrt", "Nearest", "ConvertI32U",
            "ConvertI32S", "ConvertI64U", "ConvertI64S", "PromoteF32", "ReinterpretI64"}
  THEN UnaryOperator ELSE BinaryOperator
=============================================================================
