------------------------------- MODULE Numerics -------------------------------
(***************************************************************************)
(* Every numeric instruction, executed by both machines on the same        *)
(* operands, against WebAssembly's definition.                             *)
(*                                                                         *)
(*   o            the instruction, x its operands, the deepest first       *)
(*   stack        the stack machine's operands, one below o's              *)
(*   height       the height its lowering has booked                       *)
(*   registers    the register machine's operand registers, likewise       *)
(*   next_reg     the number of registers its lowering counts in use       *)
(*   stack_state, reg_state   "ready", "done" or "trapped"                 *)
(***************************************************************************)
EXTENDS WasmNumerics

CONSTANTS
  TAG_SHIFT,
  Operands(_, _)   \* the patterns tried for a type, alone or in pairs

VARIABLES o, x, stack, height, stack_state, registers, next_reg, reg_state

vars == <<o, x, stack, height, stack_state, registers, next_reg, reg_state>>

S == INSTANCE StackNumerics
R == INSTANCE RegNumerics

Below == 1   \* an operand that o leaves alone

Init ==
  /\ o \in Numerics
  /\ x \in IF Binary(o) THEN Operands(o.ty, 2) \X Operands(o.ty, 2)
           ELSE {<<v>> : v \in Operands(Params(o)[1], 1)}
  /\ stack = <<Below>> \o x /\ height = Len(stack)
  /\ registers = <<Below>> \o x /\ next_reg = Len(registers)
  /\ stack_state = "ready" /\ reg_state = "ready"

-----------------------------------------------------------------------------
StackUnaryArm(p) ==
  CASE o.f = "IsNull" -> S!RefIsNull(p)
    [] o.ty = "I32" /\ o.f \in IntUnary \cup {"Eqz"} -> S!I32Unary(o.f, p)
    [] o.ty = "I64" /\ o.f \in IntUnary \cup {"Eqz", "Extend32S", "ExtendI32U", "ExtendI32S"} ->
         S!I64Unary(o.f, p)
    [] o.ty = "F32" /\ o.f \in FloatUnary -> S!F32Unary(o.f, p)
    [] o.ty = "F64" /\ o.f \in FloatUnary -> S!F64Unary(o.f, p)
    [] o.ty = "I32" /\ o.f \notin IntUnary \cup {"Eqz", "IsNull"} -> S!I32FromOthers(o.f, p)
    [] o.ty = "I64" /\ o.f \in DOMAIN Trunc \cup DOMAIN TruncSat \cup {"ReinterpretF64"} ->
         S!I64FromFloats(o.f, p)
    [] o.ty = "F32" /\ o.f \notin FloatUnary -> S!F32FromOthers(o.f, p)
    [] o.ty = "F64" /\ o.f \notin FloatUnary -> S!F64FromOthers(o.f, p)

Arithmetic == {"Add", "Sub", "Mul", "Div", "DivU", "DivS", "RemU", "RemS"}

StackBinaryArm(p) ==
  CASE o.f \in IntCompare /\ o.ty = "I32" -> S!I32Compare(o.f, p)
    [] o.f \in IntCompare /\ o.ty = "I64" -> S!I64Compare(o.f, p)
    [] o.f \in FloatCompare /\ o.ty = "F32" -> S!F32Compare(o.f, p)
    [] o.f \in FloatCompare /\ o.ty = "F64" -> S!F64Compare(o.f, p)
    [] o.f \in {"Min", "Max", "Copysign"} /\ o.ty = "F32" -> S!F32MinMax(o.f, p)
    [] o.f \in {"Min", "Max", "Copysign"} /\ o.ty = "F64" -> S!F64MinMax(o.f, p)
    [] o.f \in Arithmetic /\ o.ty = "I32" -> S!I32Arithmetic(o.f, p)
    [] o.f \in Arithmetic /\ o.ty = "I64" -> S!I64Arithmetic(o.f, p)
    [] o.f \in Arithmetic /\ o.ty = "F32" -> S!F32Arithmetic(o.f, p)
    [] o.f \in Arithmetic /\ o.ty = "F64" -> S!F64Arithmetic(o.f, p)
    [] o.f \notin IntCompare \cup Arithmetic /\ o.ty = "I32" -> S!I32Bitwise(o.f, p)
    [] o.f \notin IntCompare \cup Arithmetic /\ o.ty = "I64" -> S!I64Bitwise(o.f, p)

Effect ==
  CASE o.f = "IsNull" -> S!UnaryOperator
    [] o.ty = "I32" /\ o.f # "IsNull" -> S!I32Effect(o.f)
    [] o.ty = "I64" -> S!I64Effect(o.f)
    [] o.ty = "F32" -> S!F32Effect(o.f)
    [] o.ty = "F64" -> S!F64Effect(o.f)

(* The arm pops n values, the last operand first.                           *)
StackArm(n, Arm(_)) ==
  LET kept == SubSeq(stack, 1, Len(stack) - n)
      r == Arm([k \in 1 .. n |-> stack[Len(stack) - k + 1]])
  IN  /\ stack_state = "ready"
      /\ height' = height - Effect.pops + Effect.pushes
      /\ stack' = IF r = None THEN kept ELSE kept \o r
      /\ stack_state' = IF r = None THEN "trapped" ELSE "done"
      /\ UNCHANGED <<o, x, registers, next_reg, reg_state>>

StackUnary  == ~Binary(o) /\ StackArm(1, StackUnaryArm)
StackBinary == Binary(o) /\ StackArm(2, StackBinaryArm)

-----------------------------------------------------------------------------
Unaries == {"Clz", "Ctz", "Eqz", "Popcnt", "Extend8S", "Extend16S", "Extend32S", "ExtendI32U",
            "ExtendI32S", "WrapI64", "ReinterpretF32", "ReinterpretF64"}
Shifts == {"Rotl", "Rotr", "Shl", "ShrS", "ShrU"}

RegIntArm(in) ==
  CASE o.ty = "I32" /\ o.f \in Unaries -> R!I32Unary(o.f, in)
    [] o.ty = "I64" /\ o.f \in Unaries -> R!I64Unary(o.f, in)
    [] o.ty = "I32" /\ o.f \in IntCompare -> R!I32Compare(o.f, in)
    [] o.ty = "I64" /\ o.f \in IntCompare -> R!I64Compare(o.f, in)
    [] o.ty = "I32" /\ o.f \in {"DivU", "DivS"} -> R!I32Divide(o.f, in)
    [] o.ty = "I64" /\ o.f \in {"DivU", "DivS"} -> R!I64Divide(o.f, in)
    [] o.ty = "I32" /\ o.f \in {"RemU", "RemS"} -> R!I32Remainder(o.f, in)
    [] o.ty = "I64" /\ o.f \in {"RemU", "RemS"} -> R!I64Remainder(o.f, in)
    [] o.ty = "I32" /\ o.f \in Shifts -> R!I32Shift(o.f, in)
    [] o.ty = "I64" /\ o.f \in Shifts -> R!I64Shift(o.f, in)
    [] o.ty = "I32" /\ o.f \in {"Add", "Sub", "Mul", "And", "Or", "Xor"} -> R!I32Arithmetic(o.f, in)
    [] o.ty = "I64" /\ o.f \in {"Add", "Sub", "Mul", "And", "Or", "Xor"} -> R!I64Arithmetic(o.f, in)
    [] o.ty = "I32" /\ o.f \in DOMAIN Trunc \cup DOMAIN TruncSat -> R!I32FromFloats(o.f, in)
    [] o.ty = "I64" /\ o.f \in DOMAIN Trunc \cup DOMAIN TruncSat -> R!I64FromFloats(o.f, in)
    [] o.f = "IsNull" -> R!RefIsNull(in)

RegFloatArm(in) ==
  CASE o.f \in FloatCompare /\ o.ty = "F32" -> R!F32Compare(o.f, in)
    [] o.f \in FloatCompare /\ o.ty = "F64" -> R!F64Compare(o.f, in)
    [] o.f \in {"Min", "Max"} /\ o.ty = "F32" -> R!F32MaxMin(o.f, in)
    [] o.f \in {"Min", "Max"} /\ o.ty = "F64" -> R!F64MaxMin(o.f, in)
    [] o.f \in {"Add", "Sub", "Mul", "Div", "Copysign"} /\ o.ty = "F32" -> R!F32Arithmetic(o.f, in)
    [] o.f \in {"Add", "Sub", "Mul", "Div", "Copysign"} /\ o.ty = "F64" -> R!F64Arithmetic(o.f, in)
    [] o.f \in FloatUnary \cup {"ReinterpretI32"} /\ o.ty = "F32" -> R!F32Unary(o.f, in)
    [] o.f \in FloatUnary \cup {"ReinterpretI64"} /\ o.ty = "F64" -> R!F64Unary(o.f, in)
    [] o.f \in DOMAIN Convert \cup {"DemoteF64"} /\ o.ty = "F32" -> R!F32Convert(o.f, in)
    [] o.f \in DOMAIN Convert \cup {"PromoteF32"} /\ o.ty = "F64" -> R!F64Convert(o.f, in)

Signature ==
  CASE o.ty = "I32" -> IF o.f = "IsNull" THEN 1 ELSE R!I32Signature(o.f)
    [] o.ty = "I64" -> R!I64Signature(o.f)
    [] o.ty = "F32" -> R!F32Signature(o.f)
    [] o.ty = "F64" -> R!F64Signature(o.f)

(* The lowering takes the operands its signature counts off the registers   *)
(* in use and gives the result the first of them.                           *)
RegNumeric ==
  LET base == next_reg - Signature
      in == SubSeq(registers, base + 1, next_reg)
      r == IF o.ty \in Ints THEN RegIntArm(in) ELSE RegFloatArm(in)
  IN  /\ reg_state = "ready"
      /\ next_reg' = base + 1
      /\ registers' = IF r = None THEN registers ELSE [registers EXCEPT ![base + 1] = r[1]]
      /\ reg_state' = IF r = None THEN "trapped" ELSE "done"
      /\ UNCHANGED <<o, x, stack, height, stack_state>>

Next == StackUnary \/ StackBinary \/ RegNumeric

Spec == Init /\ [][Next]_vars

-----------------------------------------------------------------------------
(* A NaN result may be any NaN, except where only its sign is touched.      *)
Matches(expected, v) ==
  \/ v = expected
  \/ /\ Result(o) \in Floats /\ o.f \notin {"Abs", "Neg", "Copysign"}
     /\ is_nan(Width(Result(o)), expected) /\ is_nan(Width(Result(o)), v)

(* The arms of StackInstruction::execute: the whole word that is pushed is  *)
(* the one WebAssembly defines, nothing below the operands changes, and it  *)
(* traps exactly when it should.                                            *)
StackNumericsCorrect ==
  LET r == Reference(o, x)
  IN  /\ stack_state = "trapped" => r = None
      /\ stack_state = "done" => /\ r # None
                                 /\ Len(stack) = 2 /\ stack[1] = Below
                                 /\ Matches(r[1], stack[2])

(* The arms of RegInstruction::execute, with the operands their declared    *)
(* signature gives them.                                                    *)
RegNumericsCorrect ==
  LET r == Reference(o, x)
  IN  /\ reg_state = "trapped" => r = None
      /\ reg_state = "done" => /\ r # None
                               /\ next_reg = 2 /\ registers[1] = Below
                               /\ Matches(r[1], registers[2])

(* What each lowering books for an instruction (StackEffectResult) is what  *)
(* its arm does, or every later branch would restore a wrong height.        *)
EffectsBooked ==
  /\ stack_state = "done" => height = Len(stack)
  /\ stack_state = "done" /\ reg_state = "done" => next_reg = height
=============================================================================
