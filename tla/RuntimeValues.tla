---------------------------- MODULE RuntimeValues ----------------------------
(***************************************************************************)
(* Value, the untagged word both machines keep their operands in, and the  *)
(* checked truncation of a float that they share.                          *)
(***************************************************************************)
EXTENDS RustNumbers

CONSTANT TAG_SHIFT   \* where the tag of a reference begins

(* A narrower value is zero-extended to the word; a reference is tagged, so *)
(* that function 0 is not the null reference.                               *)
from_i32(x) == unsigned(W32, x)
from_i64(x) == unsigned(W64, x)
from_f32(f) == f
from_f64(f) == f
from_ref(index) == IF index = None THEN 0 ELSE 2^TAG_SHIFT + index[1]

as_i32(v) == signed(W32, v)
as_i64(v) == signed(W64, v)
as_f32(v) == unsigned(W32, v)
as_f64(v) == unsigned(W64, v)
as_ref(v) == IF v \div 2^TAG_SHIFT # 0 THEN Some(unsigned(W32, v)) ELSE None

as_u32(v) == unsigned(W32, as_i32(v))
as_u64(v) == unsigned(W64, as_i64(v))

-----------------------------------------------------------------------------
(* The limits are the types' own, rounded to a float that cannot hold them, *)
(* so that a maximum becomes the power of two above it.                     *)
via_f32(x) == convert(W64, W32, from_int(W32, x))

I32_TRUNC_LOW == via_f32(IMin(W32))

(* A slip: the maximum goes to f64 directly, which holds it exactly.        *)
I32_TRUNC_HIGH_exact == from_int(W64, IMax(W32))

I32_TRUNC_HIGH == via_f32(IMax(W32))
U32_TRUNC_HIGH == via_f32(UMax(W32))
I64_TRUNC_LOW == from_int(W64, IMin(W64))
I64_TRUNC_HIGH == from_int(W64, IMax(W64))
U64_TRUNC_HIGH == from_int(W64, UMax(W64))

(* Toward zero first, then into low .. high, the upper bound left out.      *)
trunc_float_to_int(operand, low, high) ==
  LET truncated == trunc(W64, operand)
  IN  IF is_nan(W64, operand) \/ is_infinite(W64, operand) THEN None
      ELSE IF fle(W64, low, truncated) /\ flt(W64, truncated, high) THEN Some(truncated)
      ELSE None

(* A checked result becomes an operand, an error a trap.                    *)
Then(option, Push(_)) == IF option = None THEN None ELSE Some(Push(option[1]))

(* The truncated float as an integer of width w, which holds it.            *)
as_iN(w, f) == saturated(IMin(w), IMax(w), W64, f)
as_uN(w, f) == saturated(0, UMax(w), W64, f)
=============================================================================
