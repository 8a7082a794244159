----------------------------- MODULE RegNumerics -----------------------------
(***************************************************************************)
(* The numeric arms of RegInstruction::execute, and the signatures their   *)
(* variants are declared with.                                             *)
(*                                                                         *)
(* An arm reads its operands from the slots its signature names, the       *)
(* deepest operand first, and writes its result to one register; it is     *)
(* given here as a function of the values x of those slots to that result, *)
(* or to None where it returns an error.                                   *)
(***************************************************************************)
EXTENDS RuntimeValues, Sequences

-----------------------------------------------------------------------------
I32Unary(f, x) ==
  LET a == as_i32(x[1])
  IN  CASE f = "Clz" -> Some(from_i32(leading_zeros(W32, a)))
        [] f = "Ctz" -> Some(from_i32(trailing_zeros(W32, a)))
        [] f = "Eqz" -> Some(from_i32(as_int(a = 0)))
        [] f = "Extend16S" -> Some(from_i32(signed(W16, a)))
        [] f = "Extend8S" -> Some(from_i32(signed(W8, a)))
        [] f = "Popcnt" -> Some(from_i32(count_ones(W32, a)))
        [] f = "ReinterpretF32" -> Some(from_i32(signed(W32, as_f32(x[1]))))
        [] f = "WrapI64" -> Some(from_i32(signed(W32, as_i64(x[1]))))

I32FromFloats(f, x) ==
  LET short == as_f32(x[1])
      promoted == convert(W64, W32, short)
      long == as_f64(x[1])
      checked(a, is_signed) ==
        IF is_signed THEN Then(trunc_float_to_int(a, I32_TRUNC_LOW, I32_TRUNC_HIGH),
                               LAMBDA t : from_i32(as_iN(W32, t)))
        ELSE Then(trunc_float_to_int(a, 0, U32_TRUNC_HIGH),
                  LAMBDA t : from_i32(signed(W32, as_uN(W32, t))))
  IN  CASE f = "TruncF32S" -> checked(promoted, TRUE)
        [] f = "TruncF32U" -> checked(promoted, FALSE)
        [] f = "TruncF64S" -> checked(long, TRUE)
        [] f = "TruncF64U" -> checked(long, FALSE)
        [] f = "TruncSatF32S" -> Some(from_i32(saturated(IMin(W32), IMax(W32), W32, short)))
        [] f = "TruncSatF32U" -> Some(from_i32(saturated(0, UMax(W32), W32, short)))
        [] f = "TruncSatF64S" -> Some(from_i32(saturated(IMin(W32), IMax(W32), W64, long)))
        [] f = "TruncSatF64U" -> Some(from_i32(saturated(0, UMax(W32), W64, long)))

I32Arithmetic(f, x) ==
  LET b == as_i32(x[2])
      a == as_i32(x[1])
      A == bits(W32, a)
      B == bits(W32, b)
  IN  CASE f = "Add" -> Some(from_i32(signed(W32, a + b)))
        [] f = "And" -> Some(number(A \cap B))
        [] f = "Mul" -> Some(from_i32(signed(W32, a * b)))
        [] f = "Or" -> Some(number(A \cup B))
        [] f = "Sub" -> Some(from_i32(signed(W32, a - b)))
        [] f = "Xor" -> Some(number((A \ B) \cup (B \ A)))

I32Divide(f, x) ==
  CASE f = "DivS" -> Then(checked_div_s(W32, as_i32(x[1]), as_i32(x[2])), from_i32)
    [] f = "DivU" -> Then(checked_div_u(as_u32(x[1]), as_u32(x[2])), from_i32)

I32Compare(f, x) ==
  LET b == as_i32(x[2])
      a == as_i32(x[1])
      ub == as_u32(x[2])
      ua == as_u32(x[1])
  IN  CASE f = "Eq" -> Some(as_int(a = b))
        [] f = "GeS" -> Some(as_int(a >= b))
        [] f = "GeU" -> Some(as_int(ua >= ub))
        [] f = "GtS" -> Some(as_int(a > b))
        [] f = "GtU" -> Some(as_int(ua > ub))
        [] f = "LeS" -> Some(as_int(a <= b))
        [] f = "LeU" -> Some(as_int(ua <= ub))
        [] f = "LtS" -> Some(as_int(a < b))
        [] f = "LtU" -> Some(as_int(ua < ub))
        [] f = "Ne" -> Some(as_int(a # b))

(* A slip: the remainder fails where the quotient would overflow.           *)
I32RemainderChecked(f, x) ==
  CASE f = "RemS" -> Then(checked_rem_s(W32, as_i32(x[1]), as_i32(x[2])), from_i32)
    [] f = "RemU" -> Then(checked_rem_u(as_u32(x[1]), as_u32(x[2])), from_i32)

(* Only a zero divisor traps: MIN % -1 is 0.                                *)
I32Remainder(f, x) ==
  LET b == as_i32(x[2])
      a == as_i32(x[1])
  IN  CASE f = "RemS" -> IF b = 0 THEN None ELSE Some(from_i32(wrapping_rem_s(a, b)))
        [] f = "RemU" -> Then(checked_rem_u(as_u32(x[1]), as_u32(x[2])), from_i32)

I32Shift(f, x) ==
  LET k == as_u32(x[2])
      a == as_u32(x[1])
  IN  CASE f = "Rotl" -> Some(rotate_left(W32, a, k))
        [] f = "Rotr" -> Some(rotate_right(W32, a, k))
        [] f = "Shl" -> Some(wrapping_shl(W32, a, k))
        [] f = "ShrS" -> Some(from_i32(wrapping_shr_s(W32, as_i32(x[1]), k)))
        [] f = "ShrU" -> Some(wrapping_shr_u(W32, a, k))

-----------------------------------------------------------------------------
I64Unary(f, x) ==
  LET a == as_i64(x[1])
  IN  CASE f = "Clz" -> Some(from_i64(leading_zeros(W64, a)))
        [] f = "Ctz" -> Some(from_i64(trailing_zeros(W64, a)))
        [] f = "Eqz" -> Some(from_i32(as_int(a = 0)))
        [] f = "Extend16S" -> Some(from_i64(signed(W16, a)))
        [] f = "Extend8S" -> Some(from_i64(signed(W8, a)))
        [] f = "Popcnt" -> Some(from_i64(count_ones(W64, a)))
        [] f = "Extend32S" -> Some(from_i64(signed(W32, a)))
        [] f = "ExtendI32S" -> Some(from_i64(as_i32(x[1])))
        [] f = "ExtendI32U" -> Some(from_i64(as_u32(x[1])))
        [] f = "ReinterpretF64" -> Some(from_i64(signed(W64, as_f64(x[1]))))

I64FromFloats(f, x) ==
  LET short == as_f32(x[1])
      promoted == convert(W64, W32, short)
      long == as_f64(x[1])
      checked(a, is_signed) ==
        IF is_signed THEN Then(trunc_float_to_int(a, I64_TRUNC_LOW, I64_TRUNC_HIGH),
                               LAMBDA t : from_i64(as_iN(W64, t)))
        ELSE Then(trunc_float_to_int(a, 0, U64_TRUNC_HIGH),
                  LAMBDA t : from_i64(signed(W64, as_uN(W64, t))))
  IN  CASE f = "TruncF32S" -> checked(promoted, TRUE)
        [] f = "TruncF32U" -> checked(promoted, FALSE)
        [] f = "TruncF64S" -> checked(long, TRUE)
        [] f = "TruncF64U" -> checked(long, FALSE)
        [] f = "TruncSatF32S" -> Some(from_i64(saturated(IMin(W64), IMax(W64), W32, short)))
        [] f = "TruncSatF32U" -> Some(from_i64(saturated(0, UMax(W64), W32, short)))
        [] f = "TruncSatF64S" -> Some(from_i64(saturated(IMin(W64), IMax(W64), W64, long)))
        [] f = "TruncSatF64U" -> Some(from_i64(saturated(0, UMax(W64), W64, long)))

I64Arithmetic(f, x) ==
  LET b == as_i64(x[2])
      a == as_i64(x[1])
      A == bits(W64, a)
      B == bits(W64, b)
  IN  CASE f = "Add" -> Some(from_i64(signed(W64, a + b)))
        [] f = "And" -> Some(number(A \cap B))
        [] f = "Mul" -> Some(from_i64(signed(W64, a * b)))
        [] f = "Or" -> Some(number(A \cup B))
        [] f = "Sub" -> Some(from_i64(signed(W64, a - b)))
        [] f = "Xor" -> Some(number((A \ B) \cup (B \ A)))

I64Divide(f, x) ==
  CASE f = "DivS" -> Then(checked_div_s(W64, as_i64(x[1]), as_i64(x[2])), from_i64)
    [] f = "DivU" -> Then(checked_div_u(as_u64(x[1]), as_u64(x[2])), from_i64)

I64Compare(f, x) ==
  LET b == as_i64(x[2])
      a == as_i64(x[1])
      ub == as_u64(x[2])
      ua == as_u64(x[1])
  IN  CASE f = "Eq" -> Some(as_int(a = b))
        [] f = "GeS" -> Some(as_int(a >= b))
        [] f = "GeU" -> Some(as_int(ua >= ub))
        [] f = "GtS" -> Some(as_int(a > b))
        [] f = "GtU" -> Some(as_int(ua > ub))
        [] f = "LeS" -> Some(as_int(a <= b))
        [] f = "LeU" -> Some(as_int(ua <= ub))
        [] f = "LtS" -> Some(as_int(a < b))
        [] f = "LtU" -> Some(as_int(ua < ub))
        [] f = "Ne" -> Some(as_int(a # b))

I64Remainder(f, x) ==
  LET b == as_i64(x[2])
      a == as_i64(x[1])
  IN  CASE f = "RemS" -> IF b = 0 THEN None ELSE Some(from_i64(wrapping_rem_s(a, b)))
        [] f = "RemU" -> Then(checked_rem_u(as_u64(x[1]), as_u64(x[2])), from_i64)

(* The count is cast to u32.                                                *)
I64Shift(f, x) ==
  LET k == unsigned(W32, as_i64(x[2]))
      a == as_u64(x[1])
  IN  CASE f = "Rotl" -> Some(rotate_left(W64, a, k))
        [] f = "Rotr" -> Some(rotate_right(W64, a, k))
        [] f = "Shl" -> Some(wrapping_shl(W64, a, k))
        [] f = "ShrS" -> Some(from_i64(wrapping_shr_s(W64, as_i64(x[1]), k)))
        [] f = "ShrU" -> Some(wrapping_shr_u(W64, a, k))

-----------------------------------------------------------------------------
F32Unary(f, x) ==
  LET a == as_f32(x[1])
  IN  CASE f = "Abs" -> Some(from_f32(abs_f(W32, a)))
        [] f = "Ceil" -> Some(from_f32(ceil(W32, a)))
        [] f = "Floor" -> Some(from_f32(floor(W32, a)))
        [] f = "Nearest" -> Some(from_f32(round_ties_even(W32, a)))
        [] f = "Neg" -> Some(from_f32(neg_f(W32, a)))
        [] f = "Sqrt" -> Some(from_f32(Ieee(W32, "Sqrt", a, a)))
        [] f = "Trunc" -> Some(from_f32(trunc(W32, a)))
        [] f = "ReinterpretI32" -> Some(from_f32(as_u32(x[1])))

F32Convert(f, x) ==
  CASE f = "ConvertI32S" -> Some(from_f32(from_int(W32, as_i32(x[1]))))
    [] f = "ConvertI32U" -> Some(from_f32(from_int(W32, as_u32(x[1]))))
    [] f = "ConvertI64S" -> Some(from_f32(from_int(W32, as_i64(x[1]))))
    [] f = "ConvertI64U" -> Some(from_f32(from_int(W32, as_u64(x[1]))))
    [] f = "DemoteF64" -> Some(from_f32(convert(W32, W64, as_f64(x[1]))))

F32Arithmetic(f, x) ==
  LET b == as_f32(x[2])
      a == as_f32(x[1])
  IN  IF f = "Copysign" THEN Some(from_f32(copysign(W32, a, b)))
      ELSE Some(from_f32(Ieee(W32, f, a, b)))

F32Compare(f, x) ==
  LET b == as_f32(x[2])
      a == as_f32(x[1])
  IN  CASE f = "Eq" -> Some(as_int(feq(W32, a, b)))
        [] f = "Ge" -> Some(as_int(fle(W32, b, a)))
        [] f = "Gt" -> Some(as_int(flt(W32, b, a)))
        [] f = "Le" -> Some(as_int(fle(W32, a, b)))
        [] f = "Lt" -> Some(as_int(flt(W32, a, b)))
        [] f = "Ne" -> Some(as_int(~feq(W32, a, b)))

F32MaxMin(f, x) ==
  LET b == as_f32(x[2])
      a == as_f32(x[1])
      nan == is_nan(W32, a) \/ is_nan(W32, b)
  IN  CASE f = "Max" -> Some(from_f32(IF nan THEN NAN(W32)
                                     ELSE IF feq(W32, a, b)
                                       THEN (IF sign(W32, a) = 0 THEN a ELSE b)
                                     ELSE IF flt(W32, b, a) THEN a ELSE b))
        [] f = "Min" -> Some(from_f32(IF nan THEN NAN(W32)
                                     ELSE IF feq(W32, a, b)
                                       THEN (IF sign(W32, a) = 1 THEN a ELSE b)
                                     ELSE IF flt(W32, a, b) THEN a ELSE b))

-----------------------------------------------------------------------------
F64Unary(f, x) ==
  LET a == as_f64(x[1])
  IN  CASE f = "Abs" -> Some(from_f64(abs_f(W64, a)))
        [] f = "Ceil" -> Some(from_f64(ceil(W64, a)))
        [] f = "Floor" -> Some(from_f64(floor(W64, a)))
        [] f = "Nearest" -> Some(from_f64(round_ties_even(W64, a)))
        [] f = "Neg" -> Some(from_f64(neg_f(W64, a)))
        [] f = "Sqrt" -> Some(from_f64(Ieee(W64, "Sqrt", a, a)))
        [] f = "Trunc" -> Some(from_f64(trunc(W64, a)))
        [] f = "ReinterpretI64" -> Some(from_f64(as_u64(x[1])))

F64Convert(f, x) ==
  CASE f = "ConvertI32S" -> Some(from_f64(from_int(W64, as_i32(x[1]))))
    [] f = "ConvertI32U" -> Some(from_f64(from_int(W64, as_u32(x[1]))))
    [] f = "ConvertI64S" -> Some(from_f64(from_int(W64, as_i64(x[1]))))
    [] f = "ConvertI64U" -> Some(from_f64(from_int(W64, as_u64(x[1]))))
    [] f = "PromoteF32" -> Some(from_f64(convert(W64, W32, as_f32(x[1]))))

F64Arithmetic(f, x) ==
  LET b == as_f64(x[2])
      a == as_f64(x[1])
  IN  IF f = "Copysign" THEN Some(from_f64(copysign(W64, a, b)))
      ELSE Some(from_f64(Ieee(W64, f, a, b)))

F64Compare(f, x) ==
  LET b == as_f64(x[2])
      a == as_f64(x[1])
  IN  CASE f = "Eq" -> Some(as_int(feq(W64, a, b)))
        [] f = "Ge" -> Some(as_int(fle(W64, b, a)))
        [] f = "Gt" -> Some(as_int(flt(W64, b, a)))
        [] f = "Le" -> Some(as_int(fle(W64, a, b)))
        [] f = "Lt" -> Some(as_int(flt(W64, a, b)))
        [] f = "Ne" -> Some(as_int(~feq(W64, a, b)))

F64MaxMin(f, x) ==
  LET b == as_f64(x[2])
      a == as_f64(x[1])
      nan == is_nan(W64, a) \/ is_nan(W64, b)
  IN  CASE f = "Max" -> Some(from_f64(IF nan THEN NAN(W64)
                                     ELSE IF feq(W64, a, b)
                                       THEN (IF sign(W64, a) = 0 THEN a ELSE b)
                                     ELSE IF flt(W64, b, a) THEN a ELSE b))
        [] f = "Min" -> Some(from_f64(IF nan THEN NAN(W64)
                                     ELSE IF feq(W64, a, b)
                                       THEN (IF sign(W64, a) = 1 THEN a ELSE b)
                                     ELSE IF flt(W64, a, b) THEN a ELSE b))

RefIsNull(x) == Some(from_i32(as_int(as_ref(x[1]) = None)))

-----------------------------------------------------------------------------
(* The number of operands in a variant's Signature<I, 1>.                   *)
I32Signature(f) ==
  IF f \in {"Add", "And", "DivS", "DivU", "Eq", "GeS", "GeU", "GtS", "GtU", "LeS", "LeU",
            "LtS", "LtU", "Mul", "Ne", "Or", "RemS", "RemU", "Rotl", "Rotr", "Shl", "ShrS",
            "ShrU", "Sub", "Xor"} THEN 2 ELSE 1

I64Signature(f) ==
  IF f \in {"Add", "And", "DivS", "DivU", "Eq", "GeS", "GeU", "GtS", "GtU", "LeS", "LeU",
            "LtS", "LtU", "Mul", "Ne", "Or", "RemS", "RemU", "Rotl", "Rotr", "Shl", "ShrS",
            "ShrU", "Sub", "Xor"} THEN 2 ELSE 1

F32Signature(f) ==
  IF f \in {"Add", "Copysign", "Div", "Eq", "Ge", "Gt", "Le", "Lt", "Max", "Min", "Mul",
            "Ne", "Sub"} THEN 2 ELSE 1

F64Signature(f) ==
  IF f \in {"Add", "Copysign", "Div", "Eq", "Ge", "Gt", "Le", "Lt", "Max", "Min", "Mul",
            "Ne", "Sub"} THEN 2 ELSE 1
=============================================================================
