----------------------------- MODULE NumericsMC -----------------------------
(* Integers at a quarter of their widths and floats to match, on operands   *)
(* at and around every limit.                                               *)
EXTENDS Numerics

(* Enough of an IEEE operation to tell it and its operands apart.           *)
MCIeee(w, f, a, b) ==
  LET n == CASE f = "Add" -> 1 [] f = "Sub" -> 2 [] f = "Mul" -> 3 [] f = "Div" -> 4 [] f = "Sqrt" -> 5
  IN  (n * 37 + a * 5 + b) % infinity(w)

Around(n) == {n - 1, n, n + 1}

IntPatterns(w, from) ==
  {unsigned(w, n) : n \in Around(0) \cup Around(IMin(w)) \cup Around(3) \cup Around(w)
                          \cup Around(2^from) \cup Around(2^(from - 1)) \cup Around(2^(w - 2))}

(* Both zeros, infinities, two NaNs, subnormals, halves, and the floats     *)
(* next to every integer limit, of either sign.                             *)
FloatPatterns(w) ==
  LET near(n) == {p \in Around(from_int(w, n)) : p < infinity(w)}
      positive == {0, 1, 2, infinity(w), NAN(w), infinity(w) + 1, infinity(w) - 1}
                  \cup near(1) \cup near(2) \cup {nearest(w, 0, (m * One) \div 2) : m \in 1 .. 7}
                  \cup UNION {near(2^k) : k \in {W32 - 1, W32, W64 - 1, W64}}
                  \cup UNION {near(2^k - 1) : k \in {W32 - 1, W32, W64 - 1, W64}}
                  \cup {nearest(W64, 0, (2^k * One) - (One \div 2)) : k \in {W32 - 1, W32}}
                  \cup {nearest(W64, 0, (2^k * One) + (One \div 2)) : k \in {W32 - 1, W32}}
  IN  {p \in positive \cup {2^(w - 1) + q : q \in positive} : p < 2^w}

(* Every i32 and f32 alone; the limits in pairs.                            *)
MCOperands(ty, arity) ==
  CASE ty = "I32" -> IF arity = 1 THEN 0 .. UMax(W32) ELSE IntPatterns(W32, W16)
    [] ty = "I64" -> IntPatterns(W64, W32) \cup IntPatterns(W64, W16)
    [] ty = "F32" -> IF arity = 1 THEN 0 .. UMax(W32)
                     ELSE {p \in FloatPatterns(W32) : p % 4 # 2}
    [] ty = "F64" -> IF arity = 1 THEN FloatPatterns(W64)
                     ELSE {p \in FloatPatterns(W64) : p % 4 # 2}
    [] ty = "Ref" -> {0} \cup {2^TAG_SHIFT + i : i \in {0, 1, UMax(W32)}}
=============================================================================
