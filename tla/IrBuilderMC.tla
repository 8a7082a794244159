------------------------------ MODULE IrBuilderMC ------------------------------
(***************************************************************************)
(* Plans for the IR builder: arithmetic on literals at the ends of their   *)
(* widths; names, phis and terminators; slots and the pointers into them;  *)
(* symbols and calls; addresses of functions.                              *)
(***************************************************************************)
EXTENDS IrBuilder

I8 == T("I8")
I16 == T("I16")
I32 == T("I32")
I64 == T("I64")
Float == T("Float")
Double == T("Double")
Half == T("Half")
Integers == {I1, I8, I16, I32, I64}

(* Doubles 0 and 1 are floats too, 2 lies between floats, 3 is a NaN.       *)
RoundingOf == (0 :> 0) @@ (1 :> 1) @@ (2 :> 1) @@ (3 :> 3)

Given(k) == [given |-> k]
Lit(variant, n) == from_const(Const(variant, n))
Typed(ty, n) == from_const(const_literal(Const("I32", n), Some(ty))[1])
True == Lit("I1", 1)
Null == from_const(NullPtr)

Ends(variant, w) == {Lit(variant, n) : n \in {-(2^(w - 1)), -1, 0, 2^(w - 1) - 1}}
IntLiterals ==
  {True} \union Ends("I8", W8) \union Ends("I16", W16) \union Ends("I32", W32) \union Ends("I64", W64)
FloatLiterals == {Lit("Float", 1), Lit("Double", 1), Lit("Double", 2), Lit("Double", NaN)}
Literals == IntLiterals \union FloatLiterals \union {Null}

Unnamed == None
Named(base) == Some(<<base, <<>>>>)
Numbered(base, n) == Some(<<base, <<n>>>>)

Define(name, params, result) ==
  [call |-> "define", name |-> name, result |-> result,
   param_list |-> [k \in DOMAIN params |-> [ty |-> params[k][1], name |-> params[k][2]]]]
AddBlock(func, name) == [call |-> "add_block", in |-> func, name |-> name]
Declare(name, tys, result) == [call |-> "declare", name |-> name, param_tys |-> tys, result |-> result]
Global(name, ty, init) == [call |-> "global", name |-> name, ty |-> ty, initializer |-> init]

Param(name, ty) == from_register(name[1], ty)
Nth(n, ty) == from_register(<<"", <<n>>>>, ty)

Binary(call, word, ty, a, b, block, reg) ==
  [call |-> call, word |-> word, ty |-> ty, a |-> a, b |-> b, block |-> block, reg |-> reg]
Cast(word, val, ty, dest) ==
  [call |-> "cast", word |-> word, val |-> val, ty |-> ty, dest |-> dest, block |-> 1, reg |-> Unnamed]
Ret(block, returned, ty) == [call |-> "ret", block |-> block, returned |-> returned, ty |-> ty]
Br(block, to) == [call |-> "br", block |-> block, label |-> to]
CondBr(block, cond, yes, no) ==
  [call |-> "condbr", block |-> block, cond |-> cond, true_label |-> yes, false_label |-> no]
Unreachable(block) == [call |-> "unreachable", block |-> block]
Switch(cond, ty, cases) ==
  [call |-> "switch", block |-> 1, cond |-> cond, ty |-> ty, default_label |-> 1,
   cases |-> [k \in DOMAIN cases |-> [const |-> cases[k].const, label |-> 1]]]
Select(cond, ty, a, b) ==
  [call |-> "select", block |-> 1, cond |-> cond, ty |-> ty, a |-> a, b |-> b, reg |-> Unnamed]
Phi(block, branches, reg) == [call |-> "phi", block |-> block, branches |-> branches, reg |-> reg]
From(block, val) == [block |-> block, val |-> val]
Alloca(ty, count, count_ty, align) ==
  [call |-> "alloca", block |-> 1, ty |-> ty, count |-> count, count_ty |-> count_ty, align |-> align,
   reg |-> Unnamed]
Load(block, ptr, ty, align) ==
  [call |-> "load", block |-> block, ptr |-> ptr, ty |-> ty, align |-> align, reg |-> Unnamed]
Store(block, ptr, val, ty, align) ==
  [call |-> "store", block |-> block, ptr |-> ptr, val |-> val, ty |-> ty, align |-> align]
Gep(block, ptr, ty, indices) ==
  [call |-> "gep", block |-> block, ptr |-> ptr, source_ty |-> ty, indices |-> indices, reg |-> Unnamed]
Call(call, func, params, return_ty) ==
  [call |-> call, block |-> 1, func |-> func, params |-> params, return_ty |-> return_ty, reg |-> Unnamed]
Arg(val, ty) == [val |-> val, ty |-> ty]

-----------------------------------------------------------------------------
(* Literals beside registers and each other, inferred and asserted.         *)

ArithmeticParams == <<<<I16, Named("x")>>, <<I64, Unnamed>>, <<Double, Named("d")>>, <<Ptr, Named("p")>>, <<Float, Named("f")>>>>
X == Param(Named("x"), I16)
Wide == Nth(0, I64)
D == Param(Named("d"), Double)
P == Param(Named("p"), Ptr)
F == Param(Named("f"), Float)
Tys == {None, Some(I1), Some(I8), Some(I32), Some(Float), Some(Double), Some(Ptr), Some(Void)}

IntegerMenu ==
  {Binary("ibinop", op, ty, a, b, 1, Unnamed) :
     op \in {"add", "udiv", "sdiv", "lshr", "ashr"}, ty \in {None, Some(I8), Some(I32)},
     a \in {X, Wide, True, Lit("I8", -1)}, b \in IntLiterals \union {P, D}}
  \union {Binary("icmp", cond, ty, a, b, 1, Named("x")) :
     cond \in {"eq", "ult", "sge"}, ty \in {None, Some(I16)}, a \in {X, Wide, P}, b \in Literals}

FloatMenu ==
  {Binary("fcmp", "olt", ty, a, b, 1, Unnamed) :
     ty \in Tys, a \in {D, F, X}, b \in Literals}
  \union {Binary("fbinop", "fadd", ty, a, b, 1, Unnamed) :
     ty \in Tys, a \in {D, F, X, Lit("Double", 2)}, b \in Literals}
  \union {[call |-> "fneg", val |-> v, block |-> 1, reg |-> Unnamed] : v \in {D, F, X} \union Literals}

CastMenu ==
  {Cast(word, val, ty, dest) :
     word \in {"trunc", "zext", "sext", "fptrunc", "fpext", "fptoui", "sitofp", "ptrtoint", "inttoptr", "bitcast"},
     val \in {X, D, P, Lit("I8", -1)}, ty \in {None, Some(I16), Some(Ptr)},
     dest \in {I1, I8, I16, I64, Half, Float, Double, Ptr, Void}}

ChoiceMenu ==
  {Switch(cond, ty, <<a, b>>) : cond \in {X, Wide, True, D, Lit("I8", -1)}, ty \in {None, Some(I16)},
     a \in Literals, b \in {Lit("I8", -1), Lit("I16", 1)}}
  \union {Select(cond, ty, a, b) : cond \in {True, X}, ty \in Tys,
     a \in {X, F, P, Lit("I32", -1)}, b \in Literals}
  \union {Ret(1, returned, ty) : returned \in {None} \union {Some(v) : v \in Literals \union {X, Wide}}, ty \in Tys}

Arithmetic(menu) ==
  <<{Define("f", ArithmeticParams, I32)}, {AddBlock(1, "entry")}, menu, {Ret(1, Some(Lit("I8", 1)), Some(I32))}>>

-----------------------------------------------------------------------------
(* Three blocks, written to in any order.                                   *)

Hints == {Unnamed, Named("x"), Numbered("x", 1), Numbered("", 0)}
N == Nth(0, I32)

Work(block, hint) == Binary("ibinop", "add", None, N, Lit("I32", 1), block, hint)
Ending(block, on) ==
  {Br(block, 2), CondBr(block, Given(on), 2, 3), Unreachable(block), Ret(block, Some(N), None)}

Naming ==
  <<{Define("f", <<<<I32, Unnamed>>, <<I32, hint>>>>, I32) : hint \in Hints},
    {AddBlock(1, "entry")}, {AddBlock(1, "loop")}, {AddBlock(1, name) : name \in {"done", "loop", "x"}},
    {Work(block, hint) : block \in {1, 2}, hint \in Hints},
    {Work(1, hint) : hint \in Hints},
    {Work(2, hint) : hint \in {Unnamed, Named("x"), Numbered("x", 1)}}>>

Branching ==
  <<{Define("f", <<<<I32, Unnamed>>, <<I1, Named("c")>>>>, I32)},
    {AddBlock(1, "entry")}, {AddBlock(1, "loop")}, {AddBlock(1, "done")},
    {Phi(block, branches, hint) : block \in {1, 2}, hint \in {Unnamed, Numbered("", 1)},
       branches \in {<<>>, <<From(1, N)>>, <<From(1, N), From(1, N)>>, <<From(1, N), From(2, True), From(3, N)>>}},
    {Work(2, Unnamed), Phi(2, <<From(2, Lit("I16", 1))>>, Unnamed)},
    {[call |-> "add_branch", val |-> Given(5), handler |-> [block |-> 2, phi |-> 1], branches |-> <<From(b, v)>>] :
       b \in {1, 2}, v \in {N, Given(6), True}},
    {Br(1, 2), Unreachable(1), CondBr(1, N, 2, 3), CondBr(1, Param(Named("c"), I1), 2, 3), Ret(1, None, Some(Void))},
    {Work(1, Unnamed), Phi(1, <<From(2, N)>>, Unnamed), Br(1, 3), Phi(2, <<From(1, N)>>, Unnamed),
     Switch(N, None, <<Lit("I32", 1)>>)}>>

-----------------------------------------------------------------------------
(* Slots, and pointers traced to them from another block.                   *)

Pair == struct_ty(<<I8, I32>>, FALSE)[1]
Row == array_ty(Pair, 2)[1]

Slots ==
  <<{Define("f", <<<<Ptr, Named("p")>>, <<I64, Unnamed>>>>, Void)},
    {AddBlock(1, "entry")}, {AddBlock(1, "next")},
    {Alloca(I64, None, None, None)},
    {Alloca(ty, count, count_ty, align) : ty \in {I8, Row, Void}, count_ty \in {None, Some(I32), Some(Float)},
       count \in {None, Some(Lit("I8", 1)), Some(D)}, align \in {None, Some(0), Some(6), Some(8)}},
    {Gep(2, ptr, ty, indices) : ptr \in {Given(4), Given(5), P, Null}, ty \in {None, Some(Row), Some(Func(<<>>, Void))},
       indices \in {<<>>, <<Wide>>, <<Wide, Lit("I64", 2)>>, <<Wide, Wide, Lit("I32", 1)>>,
                    <<Wide, Lit("I32", 1), Lit("I8", 1)>>, <<Wide, Wide, Lit("I32", 2)>>}},
    {Store(2, Given(k), val, ty, None) : k \in {4, 5, 6}, val \in {Lit("I8", -1), Wide}, ty \in {None, Some(I64)}}
      \union {Load(2, Given(k), ty, align) : k \in {4, 5, 6}, ty \in {None, Some(I32)}, align \in {None, Some(3)}}>>

-----------------------------------------------------------------------------
(* Symbols: variables, declarations and definitions under one namespace.    *)

IntoRow == const_gep([source_ty |-> Row, ptr |-> from_global("g"), indices |-> <<Typed(I64, 0), Typed(I64, 1)>>])

Symbols ==
  <<{Global("g", ty, init) : ty \in {None, Some(I32), Some(Row), Some(Void)},
       init \in {None, Some(Lit("I32", -1)), Some(Lit("I8", 1)), Some(incomplete(I32))}},
    {Declare("h", tys, result) : tys \in {<<>>, <<I8, Ptr>>, <<Void>>}, result \in {Void, I32, Func(<<>>, Void)}}
      \union {Declare("g", <<>>, Void)},
    {Define(name, <<<<I8, Unnamed>>, <<Row, hint>>>>, Void) : name \in {"g", "h", "f"}, hint \in {Named("r"), Numbered("", 0)}},
    {Define("f", <<<<I8, Unnamed>>>>, Void), Global("q", None, Some(IntoRow))},
    {AddBlock(func, "entry") : func \in {1, 2}},
    {Call(call, func, params, ty) : call \in {"call", "void_call"}, func \in {"f", "h"}, ty \in {None, Some(I32), Some(Void)},
       params \in {<<>>, <<Arg(Lit("I16", -1), Some(I8)), Arg(from_global("f"), None)>>, <<Arg(Nth(0, I8), None)>>,
                   <<Arg(Lit("I16", 3), Some(I8)), Arg(Null, None)>>}}
      \union {Load(1, ptr, ty, None) : ptr \in {IntoRow, from_global("q")}, ty \in {None, Some(Pair)}}
      \union {Store(1, IntoRow, incomplete(Pair), None, None)},
    {Ret(1, None, Some(Void))}>>

(* A function's address where a variable's belongs.                         *)
Addresses ==
  <<{Declare("h", <<>>, Void)}, {Define("f", <<<<I64, Named("r")>>>>, Void)}, {AddBlock(1, "entry")},
    {Load(1, from_global(func), ty, None) : func \in {"f", "h"}, ty \in {None, Some(I32)}}
      \union {Gep(1, from_global("h"), ty, indices) : ty \in {None, Some(I32)},
                indices \in {<<>>, <<Typed(I64, 1)>>, <<Typed(I64, 0), Typed(I32, 0)>>}},
    {Store(1, from_global("h"), Given(4), None, None), Gep(1, Given(4), None, <<>>), Load(1, Given(4), None, None)},
    {Ret(1, None, Some(Void))}>>

AllPlans ==
  <<Arithmetic(IntegerMenu), Arithmetic(FloatMenu), Arithmetic(CastMenu), Arithmetic(ChoiceMenu),
   Naming, Branching, Slots, Symbols, Addresses>>

OutOfOrder ==
  <<<<{Define("f", <<<<I32, Unnamed>>>>, I32)}, {AddBlock(1, "entry")}, {AddBlock(1, "loop")},
     {Work(block, Unnamed) : block \in {1, 2}}, {Work(block, Unnamed) : block \in {1, 2}},
     {Br(1, 2)}, {Ret(2, Some(N), None)}>>>>
=============================================================================
