---------------------------- MODULE WasmNumerics ----------------------------
(***************************************************************************)
(* WebAssembly's numeric instructions, as its specification gives them: an *)
(* integer is a bit pattern without a sign, and what traps traps before    *)
(* anything else happens.  Floats are the patterns of RustNumbers.         *)
(***************************************************************************)
EXTENDS RustNumbers, Sequences

Instr(ty, names) == {[ty |-> ty, f |-> f] : f \in names}

IntUnary == {"Clz", "Ctz", "Popcnt", "Extend8S", "Extend16S"}
IntBinary ==
  {"Add", "Sub", "Mul", "DivU", "DivS", "RemU", "RemS", "And", "Or", "Xor",
   "Shl", "ShrU", "ShrS", "Rotl", "Rotr"}
IntCompare == {"Eq", "Ne", "LtU", "LtS", "GtU", "GtS", "LeU", "LeS", "GeU", "GeS"}
FloatUnary == {"Abs", "Neg", "Ceil", "Floor", "Trunc", "Nearest", "Sqrt"}
FloatBinary == {"Add", "Sub", "Mul", "Div", "Min", "Max", "Copysign"}
FloatCompare == {"Eq", "Ne", "Lt", "Gt", "Le", "Ge"}

Ints == {"I32", "I64"}
Floats == {"F32", "F64"}
Width(ty) == IF ty \in {"I32", "F32"} THEN W32 ELSE W64

(* Conversions, by the type and signedness they read.                       *)
Trunc == [TruncF32U |-> <<"F32", FALSE>>, TruncF32S |-> <<"F32", TRUE>>,
          TruncF64U |-> <<"F64", FALSE>>, TruncF64S |-> <<"F64", TRUE>>]
TruncSat == [TruncSatF32U |-> <<"F32", FALSE>>, TruncSatF32S |-> <<"F32", TRUE>>,
             TruncSatF64U |-> <<"F64", FALSE>>, TruncSatF64S |-> <<"F64", TRUE>>]
Convert == [ConvertI32U |-> <<"I32", FALSE>>, ConvertI32S |-> <<"I32", TRUE>>,
            ConvertI64U |-> <<"I64", FALSE>>, ConvertI64S |-> <<"I64", TRUE>>]
Others == [WrapI64 |-> "I64", Extend32S |-> "I64", ExtendI32U |-> "I32", ExtendI32S |-> "I32",
           ReinterpretF32 |-> "F32", ReinterpretF64 |-> "F64", ReinterpretI32 |-> "I32",
           ReinterpretI64 |-> "I64", DemoteF64 |-> "F64", PromoteF32 |-> "F32", IsNull |-> "Ref"]

Numerics ==
  UNION {Instr(ty, IntUnary \cup {"Eqz"} \cup IntBinary \cup IntCompare
                   \cup DOMAIN Trunc \cup DOMAIN TruncSat) : ty \in Ints}
  \cup UNION {Instr(ty, FloatUnary \cup FloatBinary \cup FloatCompare \cup DOMAIN Convert) : ty \in Floats}
  \cup Instr("I32", {"WrapI64", "ReinterpretF32", "IsNull"})
  \cup Instr("I64", {"Extend32S", "ExtendI32U", "ExtendI32S", "ReinterpretF64"})
  \cup Instr("F32", {"DemoteF64", "ReinterpretI32"})
  \cup Instr("F64", {"PromoteF32", "ReinterpretI64"})

Binary(o) == o.f \in IntCompare \cup FloatCompare
             \/ o.f \in (IF o.ty \in Ints THEN IntBinary ELSE FloatBinary)

(* The types an instruction takes, the deepest operand first.               *)
Params(o) ==
  LET source == IF o.f \in DOMAIN Trunc THEN Trunc[o.f][1]
                ELSE IF o.f \in DOMAIN TruncSat THEN TruncSat[o.f][1]
                ELSE IF o.f \in DOMAIN Convert THEN Convert[o.f][1]
                ELSE IF o.f \in DOMAIN Others THEN Others[o.f] ELSE o.ty
  IN  IF Binary(o) THEN <<o.ty, o.ty>> ELSE <<source>>

Result(o) == IF o.f \in IntCompare \cup FloatCompare \cup {"Eqz"} THEN "I32" ELSE o.ty

-----------------------------------------------------------------------------
IntegerResult(w, f, a, b) ==
  LET s == signed(w, a)
      t == signed(w, b)
      k == b % w
      wrap(x) == Some(x % 2^w)
  IN  CASE f = "Add" -> wrap(a + b)
        [] f = "Sub" -> wrap(a - b)
        [] f = "Mul" -> wrap(s * t)
        [] f = "DivU" -> IF b = 0 THEN None ELSE wrap(a \div b)
        [] f = "DivS" -> IF t = 0 \/ quotient(s, t) = 2^(w - 1) THEN None ELSE wrap(quotient(s, t))
        [] f = "RemU" -> IF b = 0 THEN None ELSE wrap(a % b)
        [] f = "RemS" -> IF t = 0 THEN None ELSE wrap(s - t * quotient(s, t))
        [] f = "And" -> Some(number(bits(w, a) \cap bits(w, b)))
        [] f = "Or" -> Some(number(bits(w, a) \cup bits(w, b)))
        [] f = "Xor" -> Some(number((bits(w, a) \cup bits(w, b)) \ (bits(w, a) \cap bits(w, b))))
        [] f = "Shl" -> wrap(a * 2^k)
        [] f = "ShrU" -> wrap(a \div 2^k)
        [] f = "ShrS" -> wrap(s \div 2^k)
        [] f = "Rotl" -> wrap(((a * 2^k) % 2^w) + (a \div 2^(w - k)))
        [] f = "Rotr" -> wrap((a \div 2^k) + (a % 2^k) * 2^(w - k))

IntegerRelation(w, f, a, b) ==
  LET s == signed(w, a)
      t == signed(w, b)
  IN  CASE f = "Eq" -> a = b  [] f = "Ne" -> a # b
        [] f = "LtU" -> a < b [] f = "LtS" -> s < t
        [] f = "GtU" -> a > b [] f = "GtS" -> s > t
        [] f = "LeU" -> a <= b [] f = "LeS" -> s <= t
        [] f = "GeU" -> a >= b [] f = "GeS" -> s >= t

Extended(w, from, a) == Some(unsigned(w, signed(from, a)))

IntegerUnary(w, f, a) ==
  CASE f = "Clz" -> Some(Cardinality({k \in 1 .. w : a < 2^(w - k)}))
    [] f = "Ctz" -> Some(Cardinality({k \in 1 .. w : a % 2^k = 0}))
    [] f = "Popcnt" -> Some(Cardinality(bits(w, a)))
    [] f = "Extend8S" -> Extended(w, W8, a)
    [] f = "Extend16S" -> Extended(w, W16, a)

(* Zero operands of opposite signs: min is the negative, max the positive.  *)
FloatResult(w, f, a, b) ==
  CASE f = "Copysign" -> Some(copysign(w, a, b))
    [] f \in {"Min", "Max"} ->
         IF ~ordered(w, a, b) THEN Some(NAN(w))
         ELSE IF value(w, a) = 0 /\ value(w, b) = 0
           THEN Some(IF f = "Min" THEN (IF sign(w, a) = 1 THEN a ELSE b)
                     ELSE (IF sign(w, a) = 0 THEN a ELSE b))
         ELSE Some(IF flt(w, a, b) = (f = "Min") THEN a ELSE b)
    [] OTHER -> Some(Ieee(w, f, a, b))

FloatRelation(w, f, a, b) ==
  CASE f = "Eq" -> feq(w, a, b) [] f = "Ne" -> ~feq(w, a, b)
    [] f = "Lt" -> flt(w, a, b) [] f = "Gt" -> flt(w, b, a)
    [] f = "Le" -> fle(w, a, b) [] f = "Ge" -> fle(w, b, a)

FloatUnaryResult(w, f, a) ==
  CASE f = "Abs" -> Some(abs_f(w, a))
    [] f = "Neg" -> Some(neg_f(w, a))
    [] f = "Ceil" -> Some(ceil(w, a))
    [] f = "Floor" -> Some(floor(w, a))
    [] f = "Trunc" -> Some(trunc(w, a))
    [] f = "Nearest" -> Some(round_ties_even(w, a))
    [] f = "Sqrt" -> Some(Ieee(w, f, a, a))

(* A number truncates if some integer of the target is within one of it,    *)
(* toward zero; anything else traps, or saturates.                          *)
Truncated(w, is_signed, from, a) ==
  LET low == IF is_signed THEN IMin(w) ELSE 0
      high == IF is_signed THEN IMax(w) ELSE UMax(w)
      z == value(from, a)
  IN  IF is_nan(from, a) \/ is_infinite(from, a) THEN None
      ELSE IF z <= One * (low - 1) \/ z >= One * (high + 1) THEN None
      ELSE Some(unsigned(w, quotient(z, One)))

Saturates(w, is_signed, from, a) ==
  LET t == Truncated(w, is_signed, from, a)
      below == sign(from, a) = 1
  IN  IF is_nan(from, a) THEN Some(0)
      ELSE IF t # None THEN t
      ELSE IF is_signed THEN Some(unsigned(w, IF below THEN IMin(w) ELSE IMax(w)))
      ELSE Some(IF below THEN 0 ELSE UMax(w))

Converted(o, a) ==
  LET w == Width(o.ty)
  IN  CASE o.f = "WrapI64" -> Some(a % 2^W32)
        [] o.f = "Extend32S" -> Extended(w, W32, a)
        [] o.f = "ExtendI32S" -> Extended(w, W32, a)
        [] o.f = "ExtendI32U" -> Some(a)
        [] o.f \in {"DemoteF64", "PromoteF32"} -> Some(convert(w, Width(Others[o.f]), a))
        [] o.f = "IsNull" -> Some(as_int(a = 0))
        [] OTHER -> Some(a)          \* a reinterpretation

(* The meaning of instruction o on patterns x, the deepest operand first: a *)
(* pattern, or None for a trap.  A reference is 0 for null.                 *)
Reference(o, x) ==
  LET w == Width(o.ty)
      a == x[1]
      b == x[Len(x)]
  IN  CASE o.f = "Eqz" -> Some(as_int(a = 0))
        [] o.f \in IntCompare /\ o.ty \in Ints -> Some(as_int(IntegerRelation(w, o.f, a, b)))
        [] o.f \in IntBinary /\ o.ty \in Ints -> IntegerResult(w, o.f, a, b)
        [] o.f \in IntUnary /\ o.ty \in Ints -> IntegerUnary(w, o.f, a)
        [] o.f \in FloatCompare /\ o.ty \in Floats -> Some(as_int(FloatRelation(w, o.f, a, b)))
        [] o.f \in FloatBinary /\ o.ty \in Floats -> FloatResult(w, o.f, a, b)
        [] o.f \in FloatUnary /\ o.ty \in Floats -> FloatUnaryResult(w, o.f, a)
        [] o.f \in DOMAIN Trunc -> Truncated(w, Trunc[o.f][2], Width(Trunc[o.f][1]), a)
        [] o.f \in DOMAIN TruncSat -> Saturates(w, TruncSat[o.f][2], Width(TruncSat[o.f][1]), a)
        [] o.f \in DOMAIN Convert ->
             LET from == Width(Convert[o.f][1])
             IN  Some(from_int(w, IF Convert[o.f][2] THEN signed(from, a) ELSE a))
        [] OTHER -> Converted(o, a)
=============================================================================
