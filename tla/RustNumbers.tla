----------------------------- MODULE RustNumbers -----------------------------
(***************************************************************************)
(* Rust's numbers as the instructions use them, at small widths: integer   *)
(* arithmetic, shifts, casts and floats.  Modelled from their use in src/. *)
(*                                                                         *)
(* A width w is a power of two, as 8, 16, 32 and 64 are, so that a shift   *)
(* count keeps its meaning when it is cast.  A float is its bit pattern:   *)
(* a sign, FloatExp exponent bits and a mantissa, all exponents one range; *)
(* like f32 and f64, it is exact for neither its own width's integers nor  *)
(* their maximum, and f64 is exact for the smaller integers and for f32.   *)
(***************************************************************************)
EXTENDS Integers, FiniteSetsExt

CONSTANTS
  W8, W16, W32, W64,     \* the widths of i8 .. i64
  FloatExp,              \* exponent bits of either float
  One,                   \* a finite magnitude is a multiple of 1 / One
  Quantum32, Quantum64,  \* the smallest magnitudes of f32 and f64, in 1 / One
  Ieee(_, _, _, _)       \* the pattern of an IEEE operation at a width: nothing
                         \* here depends on how it rounds

None == <<>>             \* Option<T>, and a trap
Some(x) == <<x>>

-----------------------------------------------------------------------------
(* Integers: `as uN` and `as iN` keep the low bits.                         *)

unsigned(w, x) == x % 2^w
signed(w, x) == LET u == unsigned(w, x) IN IF u < 2^(w - 1) THEN u ELSE u - 2^w

IMin(w) == -(2^(w - 1))
IMax(w) == 2^(w - 1) - 1
UMax(w) == 2^w - 1

abs(x) == IF x < 0 THEN -x ELSE x
quotient(a, b) == IF (a < 0) = (b < 0) THEN abs(a) \div abs(b) ELSE -(abs(a) \div abs(b))
as_int(condition) == IF condition THEN 1 ELSE 0

checked_div_u(a, b) == IF b = 0 THEN None ELSE Some(a \div b)
checked_rem_u(a, b) == IF b = 0 THEN None ELSE Some(a % b)
checked_div_s(w, a, b) ==
  IF b = 0 \/ (a = IMin(w) /\ b = -1) THEN None ELSE Some(quotient(a, b))
checked_rem_s(w, a, b) ==
  IF b = 0 \/ (a = IMin(w) /\ b = -1) THEN None ELSE Some(a - b * quotient(a, b))
wrapping_rem_s(a, b) == a - b * quotient(a, b)

(* Little-endian bytes of an integer, the lowest first.                     *)
to_le_bytes(n, x) == [k \in 1 .. n |-> (x \div 2^(W8 * (k - 1))) % 2^W8]
from_le_bytes(b) == MapThenSumSet(LAMBDA k : b[k] * 2^(W8 * (k - 1)), DOMAIN b)

bits(w, x) == {i \in 0 .. w - 1 : (unsigned(w, x) \div 2^i) % 2 = 1}
number(set) == MapThenSumSet(LAMBDA i : 2^i, set)

count_ones(w, x) == Cardinality(bits(w, x))
leading_zeros(w, x) == IF bits(w, x) = {} THEN w ELSE w - 1 - Max(bits(w, x))
trailing_zeros(w, x) == IF bits(w, x) = {} THEN w ELSE Min(bits(w, x))

(* A shift or rotate count is taken modulo the width.                       *)
wrapping_shl(w, a, k) == number({i + (k % w) : i \in bits(w, a)} \cap 0 .. w - 1)
wrapping_shr_u(w, a, k) == number({i - (k % w) : i \in bits(w, a)} \cap 0 .. w - 1)
wrapping_shr_s(w, a, k) == signed(w, a) \div 2^(k % w)
rotate_left(w, a, k) == number({(i + k) % w : i \in bits(w, a)})
rotate_right(w, a, k) == number({(i - k) % w : i \in bits(w, a)})

-----------------------------------------------------------------------------
(* Floats of width w.                                                       *)

mantissa(w) == w - 1 - FloatExp
quantum(w) == IF w = W32 THEN Quantum32 ELSE Quantum64

sign(w, f) == f \div 2^(w - 1)
unsigned_part(w, f) == f % 2^(w - 1)
signed_as(w, s, f) == s * 2^(w - 1) + unsigned_part(w, f)
infinity(w) == (2^FloatExp - 1) * 2^mantissa(w)
NAN(w) == infinity(w) + 2^(mantissa(w) - 1)

is_nan(w, f) == unsigned_part(w, f) > infinity(w)
is_infinite(w, f) == unsigned_part(w, f) = infinity(w)

(* The exact value of a finite pattern, in 1 / One.                         *)
magnitude(w, f) ==
  LET u == unsigned_part(w, f)
      e == u \div 2^mantissa(w)
      m == u % 2^mantissa(w)
  IN  quantum(w) * IF e = 0 THEN m ELSE (2^mantissa(w) + m) * 2^(e - 1)
value(w, f) == IF sign(w, f) = 1 THEN -magnitude(w, f) ELSE magnitude(w, f)

(* n / d to the nearest integer, a tie to the even one.                     *)
half_even(n, d) ==
  LET q == n \div d
      r == 2 * (n % d)
  IN  IF r > d \/ (r = d /\ q % 2 = 1) THEN q + 1 ELSE q

(* The pattern nearest to a magnitude, with sign s; infinite when too large. *)
nearest(w, s, mag) ==
  LET m == 2^mantissa(w)
      step(e) == quantum(w) * 2^(e - 1)
      e == Min({x \in 1 .. 2^FloatExp - 1 : mag < 2 * m * step(x)} \cup {2^FloatExp - 1})
      u == (e - 1) * m + half_even(mag, step(e))
  IN  signed_as(w, s, IF u > infinity(w) THEN infinity(w) ELSE u)

from_int(w, x) == nearest(w, IF x < 0 THEN 1 ELSE 0, One * abs(x))

(* `as f32`, `as f64` of a float.                                           *)
convert(to, from, f) ==
  IF is_nan(from, f) THEN NAN(to)
  ELSE IF is_infinite(from, f) THEN signed_as(to, sign(from, f), infinity(to))
  ELSE nearest(to, sign(from, f), magnitude(from, f))

(* `as iN`, `as uN` of a float: toward zero, saturating, NaN to zero.       *)
saturated(low, high, w, f) ==
  LET t == quotient(value(w, f), One)
  IN  IF is_nan(w, f) THEN 0
      ELSE IF is_infinite(w, f) THEN (IF sign(w, f) = 1 THEN low ELSE high)
      ELSE IF t < low THEN low ELSE IF t > high THEN high ELSE t

(* Rounding to an integral float keeps the sign, of a zero too.             *)
round_by(w, f, Round(_)) ==
  IF is_nan(w, f) \/ is_infinite(w, f) THEN f
  ELSE nearest(w, sign(w, f), One * Round(magnitude(w, f)))

trunc(w, f) == round_by(w, f, LAMBDA mag : mag \div One)
ceil(w, f) == round_by(w, f, LAMBDA mag :
                IF sign(w, f) = 1 THEN mag \div One ELSE -((-mag) \div One))
floor(w, f) == round_by(w, f, LAMBDA mag :
                 IF sign(w, f) = 0 THEN mag \div One ELSE -((-mag) \div One))
round_ties_even(w, f) == round_by(w, f, LAMBDA mag : half_even(mag, One))

abs_f(w, f) == signed_as(w, 0, f)
neg_f(w, f) == signed_as(w, 1 - sign(w, f), f)
copysign(w, a, b) == signed_as(w, sign(w, b), a)

(* ==, < and the like: a NaN is unordered, the two zeros are equal.         *)
ordered(w, a, b) == ~is_nan(w, a) /\ ~is_nan(w, b)
key(w, f) == IF sign(w, f) = 1 THEN -unsigned_part(w, f) ELSE unsigned_part(w, f)
feq(w, a, b) == ordered(w, a, b) /\ key(w, a) = key(w, b)
flt(w, a, b) == ordered(w, a, b) /\ key(w, a) < key(w, b)
fle(w, a, b) == ordered(w, a, b) /\ key(w, a) <= key(w, b)
=============================================================================
