------------------------------- MODULE IrValues -------------------------------
(***************************************************************************)
(* Types, constants and values of the LLVM IR builder: which types have a  *)
(* size or a width, what a literal folds into, and when two operands can   *)
(* be brought to one type.                                                 *)
(*                                                                         *)
(* A type is a record; interning makes equal types one id, so equality of  *)
(* ids is equality here.  An Option is a sequence of at most one element.  *)
(* Integers have the widths the constants give; a float is a code, of      *)
(* which those a `float` holds are fixed by rounding.                      *)
(***************************************************************************)
EXTENDS Integers, Sequences, SequencesExt

CONSTANTS
  W8, W16, W32, W64,     \* the widths of i8 .. i64, and of the floats
  RoundToFloat,          \* the double codes, each with the nearest float
  NaN                    \* the code of a NaN

ASSUME WidthsAscend == 1 < W8 /\ W8 < W16 /\ W16 < W32 /\ W32 < W64
ASSUME RoundingIdempotent ==
  /\ NaN \in DOMAIN RoundToFloat
  /\ \A x \in DOMAIN RoundToFloat : RoundToFloat[RoundToFloat[x]] = RoundToFloat[x]

None == <<>>
Some(x) == <<x>>

-----------------------------------------------------------------------------
(* Type                                                                     *)

T(name) == [type |-> name]
Array(size, element) == [type |-> "Array", size |-> size, element_ty |-> element]
Struct(fields, packed) == [type |-> "Struct", fields |-> fields, packed |-> packed]
Func(params, result) == [type |-> "Func", params |-> params, result |-> result]

I1 == T("I1")
Ptr == T("Ptr")
Void == T("Void")

is_i1(t) == t = I1
is_ptr(t) == t = Ptr
is_void(t) == t = Void
is_i32(t) == t = T("I32")
is_first_class(t) == t.type \notin {"Void", "Func"}
is_integer(t) == t.type \in {"I1", "I8", "I16", "I32", "I64"}
is_float(t) == t.type \in {"Half", "Bfloat", "Float", "Double"}

width(t) ==
  CASE t.type = "I1" -> Some(1)
    [] t.type = "I8" -> Some(W8)
    [] t.type \in {"I16", "Half", "Bfloat"} -> Some(W16)
    [] t.type \in {"I32", "Float"} -> Some(W32)
    [] t.type \in {"I64", "Double"} -> Some(W64)
    [] OTHER -> None

struct_ty(fields, packed) ==
  IF \A k \in DOMAIN fields : is_first_class(fields[k]) THEN Some(Struct(fields, packed)) ELSE None

array_ty(element, size) == IF is_first_class(element) THEN Some(Array(size, element)) ELSE None

-----------------------------------------------------------------------------
(* ConstValue and the Const impl of each Rust literal.                      *)

Const(variant, n) == [variant |-> variant, n |-> n]
NullPtr == Const("NullPtr", 0)

const_ty(c) == IF c = NullPtr THEN Ptr ELSE T(c.variant)

as_unsigned(w, n) == n % 2^w
as_signed(w, n) == LET u == as_unsigned(w, n) IN IF u < 2^(w - 1) THEN u ELSE u - 2^w

(* An integer of width w in the narrower width v, checked against the range *)
(* of the reading asked for.                                                *)
narrowed(w, v, n, signedness) ==
  IF signedness = "Signed"
  THEN IF n \in -(2^(v - 1)) .. 2^(v - 1) - 1 THEN Some(n) ELSE None
  ELSE IF as_unsigned(w, n) < 2^v THEN Some(as_signed(v, as_unsigned(w, n))) ELSE None

widened(w, n, signedness) == IF signedness = "Signed" THEN n ELSE as_unsigned(w, n)

integer_cast(w, n, ty, signedness) ==
  LET v == width(ty)[1]
      folded == IF v < w THEN narrowed(w, v, n, signedness)
                ELSE IF v = w THEN Some(n) ELSE Some(widened(w, n, signedness))
  IN  IF signedness = "NotApplicable" \/ ~is_integer(ty) \/ is_i1(ty) \/ folded = None THEN None
      ELSE Some(Const(ty.type, folded[1]))

bool_try_cast(n, ty) == IF is_i1(ty) THEN Some(Const("I1", n)) ELSE None
i8_try_cast(n, ty, signedness) == integer_cast(W8, n, ty, signedness)
i16_try_cast(n, ty, signedness) == integer_cast(W16, n, ty, signedness)
i32_try_cast(n, ty, signedness) == integer_cast(W32, n, ty, signedness)
i64_try_cast(n, ty, signedness) == integer_cast(W64, n, ty, signedness)

f32_try_cast(x, ty) == IF ty.type \in {"Float", "Double"} THEN Some(Const(ty.type, x)) ELSE None

f64_try_cast(x, ty) ==
  CASE ty.type = "Float" /\ (x = NaN \/ RoundToFloat[x] = x) -> Some(Const("Float", RoundToFloat[x]))
    [] ty.type = "Double" -> Some(Const("Double", x))
    [] OTHER -> None

null_try_cast(ty) == IF is_ptr(ty) THEN Some(NullPtr) ELSE None

(* An I1 is stored as an i8, and folds as one.                              *)
const_try_cast(c, ty, signedness) ==
  CASE c.variant \in {"I1", "I8"} -> i8_try_cast(c.n, ty, signedness)
    [] c.variant = "I16" -> i16_try_cast(c.n, ty, signedness)
    [] c.variant = "I32" -> i32_try_cast(c.n, ty, signedness)
    [] c.variant = "I64" -> i64_try_cast(c.n, ty, signedness)
    [] c.variant = "Float" -> f32_try_cast(c.n, ty)
    [] c.variant = "Double" -> f64_try_cast(c.n, ty)
    [] c = NullPtr -> null_try_cast(ty)

(* A Rust literal, `bool` among them, given a type.                         *)
const_literal(literal, cast) ==
  CASE cast = None -> Some(literal)
    [] cast # None /\ literal.variant = "I1" -> bool_try_cast(literal.n, cast[1])
    [] OTHER -> const_try_cast(literal, cast[1], "Signed")

(* As an i32: an i64 loses its high bits.                                   *)
try_integer(c) ==
  IF c.variant \in {"I1", "I8", "I16", "I32", "I64"} THEN Some(as_signed(W32, c.n)) ELSE None

-----------------------------------------------------------------------------
(* Value: its type, and where it comes from.                                *)

from_register(name, ty) == [ty |-> ty, reg |-> name]
from_const(c) == [ty |-> const_ty(c), const |-> c]
from_global(name) == [ty |-> Ptr, global |-> name]
const_gep(operands) == [ty |-> Ptr, gep |-> operands]
incomplete(ty) == [ty |-> ty, incomplete |-> TRUE]   \* ptrtoint, inttoptr, bitcast and trunc

try_const(v) == IF "const" \in DOMAIN v THEN Some(v.const) ELSE None

into_i1(v) == IF is_i1(v.ty) THEN Some(v) ELSE None

try_cast(v, ty, signedness) ==
  LET folded == const_try_cast(v.const, ty, signedness)
  IN  IF ~is_first_class(ty) THEN None
      ELSE IF "const" \in DOMAIN v
           THEN IF folded = None THEN None ELSE Some([ty |-> ty, const |-> folded[1]])
      ELSE IF v.ty = ty THEN Some(v) ELSE None

(* An operand whose type the caller asserts, or leaves to be inferred.      *)
asserted(v, ty) == IF ty = None THEN Some(v) ELSE try_cast(v, ty[1], "Signed")

try_cast_two(a, b, ty, signedness) ==
  LET both(x, y) == IF x = None \/ y = None THEN None ELSE Some(<<x[1], y[1]>>)
  IN  IF ty # None THEN both(try_cast(a, ty[1], signedness), try_cast(b, ty[1], signedness))
      ELSE IF a.ty = b.ty THEN Some(<<a, b>>)
      ELSE IF width(a.ty) = None \/ width(b.ty) = None THEN None
      ELSE IF width(a.ty)[1] >= width(b.ty)[1] THEN both(Some(a), try_cast(b, a.ty, signedness))
      ELSE both(try_cast(a, b.ty, signedness), Some(b))

-----------------------------------------------------------------------------
(* getelementptr: what the indices after the first land on.                 *)

descend(ty, index) ==
  LET i == IF try_const(index) = None THEN None ELSE try_integer(index.const)
  IN  CASE ty = None -> None
        [] ty # None /\ ty[1].type = "Struct" ->
             IF is_i32(index.ty) /\ i # None /\ i[1] \in 0 .. Len(ty[1].fields) - 1
             THEN Some(ty[1].fields[i[1] + 1]) ELSE None
        [] ty # None /\ ty[1].type = "Array" ->
             IF i = None \/ i[1] \in 0 .. ty[1].size - 1 THEN Some(ty[1].element_ty) ELSE None
        [] OTHER -> None

walk_pointee_ty_in_gep(ty, indices) == FoldLeft(descend, Some(ty), indices)

result_pointee_ty(gep) ==
  IF Len(gep.indices) <= 1 THEN Some(gep.source_ty)
  ELSE walk_pointee_ty_in_gep(gep.source_ty, Tail(gep.indices))

-----------------------------------------------------------------------------
(* How the operations read their operands, and which types a cast connects. *)

icmp_signedness(cond) ==
  CASE cond \in {"eq", "ne"} -> None
    [] cond \in {"ugt", "uge", "ult", "ule"} -> Some("Unsigned")
    [] cond \in {"sgt", "sge", "slt", "sle"} -> Some("Signed")

\* A slip: the logical shift forgotten among the unsigned operations.
ibinop_signedness_lshr_signed(op) == IF op \in {"udiv", "urem"} THEN "Unsigned" ELSE "Signed"

ibinop_signedness(op) == IF op \in {"udiv", "urem", "lshr"} THEN "Unsigned" ELSE "Signed"

is_cast_allowed(op, src, dest) ==
  LET both(is(_)) == is(src) /\ is(dest)
      narrows == width(src)[1] > width(dest)[1]
      widens == width(src)[1] < width(dest)[1]
  IN  CASE op = "trunc" -> both(is_integer) /\ narrows
        [] op \in {"zext", "sext"} -> both(is_integer) /\ widens
        [] op = "fptrunc" -> both(is_float) /\ narrows
        [] op = "fpext" -> both(is_float) /\ widens
        [] op \in {"fptoui", "fptosi"} -> is_float(src) /\ is_integer(dest)
        [] op \in {"uitofp", "sitofp"} -> is_integer(src) /\ is_float(dest)
        [] op = "ptrtoint" -> is_ptr(src) /\ is_integer(dest)
        [] op = "inttoptr" -> is_integer(src) /\ is_ptr(dest)
        [] op = "bitcast" -> width(src) # None /\ width(src) = width(dest)
=============================================================================
