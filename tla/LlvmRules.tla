------------------------------- MODULE LlvmRules -------------------------------
(***************************************************************************)
(* What `llvm-as` asks of the text, for the instructions this crate writes:*)
(* read from the lines alone, whatever built them.  LlvmObjections is what *)
(* it finds, by function and rule.  Some of its checks are the client's to *)
(* meet and left out: a function has a block, a block ends in a terminator *)
(* and has a label that needs no quotes, nothing branches to the entry     *)
(* block, a phi has one entry per predecessor, and a definition dominates  *)
(* its uses.                                                               *)
(***************************************************************************)
EXTENDS IrEmitter

PhisOf(lines) == {l \in Range(lines) : l.line = "phi"}
Terminators == {"ret", "br", "condbr", "switch", "unreachable"}

-----------------------------------------------------------------------------
(* What a line defines and what it uses, each at the type the text gives.   *)

DefinedTy(l) ==
  CASE l.line \in {"alloca", "getelementptr"} -> Ptr
    [] l.line \in {"icmp", "fcmp"} -> I1
    [] l.line = "cast" -> l.dest_ty
    [] OTHER -> l.ty

At(operands, ty) == {[ty |-> ty, operand |-> o] : o \in operands}

Uses(l) ==
  CASE l.line = "phi" -> At({l.branches[k].operand : k \in DOMAIN l.branches}, l.ty)
    [] l.line = "ret" -> At(Range(l.operand), l.ty)
    [] l.line = "condbr" -> At({l.cond}, I1)
    [] l.line = "switch" -> At({l.cond} \union Range(l.cases), l.ty)
    [] l.line = "alloca" -> Range(l.count)
    [] l.line = "load" -> {l.ptr}
    [] l.line = "store" -> {l.val, l.ptr}
    [] l.line = "getelementptr" -> {l.ptr} \union Range(l.indices)
    [] l.line = "call" -> Range(l.args)
    [] l.line \in {"icmp", "fcmp", "ibinop", "fbinop"} -> At({l.a, l.b}, l.ty)
    [] l.line = "fneg" -> At({l.a}, l.ty)
    [] l.line = "cast" -> At({l.a}, l.src_ty)
    [] l.line = "select" -> At({l.cond}, I1) \union At({l.a, l.b}, l.ty)
    [] OTHER -> {}

Labels(l) ==
  CASE l.line = "phi" -> {l.branches[k].label : k \in DOMAIN l.branches}
    [] l.line \in {"br", "condbr", "switch"} -> Range(l.labels)
    [] OTHER -> {}

-----------------------------------------------------------------------------
(* Constants have the type they are written at.                             *)

IntegerFits(ty, n) == n \in -(2^(width(ty)[1] - 1)) .. 2^width(ty)[1] - 1

LandsOn(ty, index) ==
  CASE ty = None -> None
    [] ty # None /\ ty[1].type = "Struct" ->
         IF /\ is_i32(index.ty) /\ "int" \in DOMAIN index.operand
            /\ index.operand.int + 1 \in DOMAIN ty[1].fields
         THEN Some(ty[1].fields[index.operand.int + 1]) ELSE None
    [] ty # None /\ ty[1].type = "Array" -> Some(ty[1].element_ty)
    [] OTHER -> None

IndicesLandOn(g) ==
  IF g.indices = <<>> THEN Some(g.source_ty) ELSE FoldLeft(LandsOn, Some(g.source_ty), Tail(g.indices))

GepWellTyped(g) ==
  /\ g.ptr.ty = Ptr
  /\ \A k \in DOMAIN g.indices : is_integer(g.indices[k].ty)
  /\ IndicesLandOn(g) # None

RECURSIVE UseWellTyped(_, _, _)
UseWellTyped(u, registers, symbols) ==
  LET o == u.operand
  IN  CASE "reg" \in DOMAIN o -> [reg |-> o.reg, ty |-> u.ty] \in registers
        [] "global" \in DOMAIN o -> u.ty = Ptr /\ o.global \in symbols
        [] "bool" \in DOMAIN o -> is_i1(u.ty)
        [] "int" \in DOMAIN o -> is_integer(u.ty) /\ IntegerFits(u.ty, o.int)
        [] "hex" \in DOMAIN o -> u.ty.type = "Double" \/ (u.ty.type = "Float" /\ RoundToFloat[o.hex] = o.hex)
        [] "null" \in DOMAIN o -> u.ty = Ptr
        [] "getelementptr" \in DOMAIN o ->
             LET g == o.getelementptr
             IN  /\ u.ty = Ptr
                 /\ GepWellTyped(g)
                 /\ is_first_class(g.source_ty)
                 /\ \A v \in {g.ptr} \union Range(g.indices) : UseWellTyped(v, {}, symbols)

-----------------------------------------------------------------------------
(* Operations                                                               *)

CastWellTyped(l) ==
  LET narrower == width(l.dest_ty)[1] < width(l.src_ty)[1]
      wider == width(l.dest_ty)[1] > width(l.src_ty)[1]
      from(is(_)) == is(l.src_ty)
      to(is(_)) == is(l.dest_ty)
  IN  CASE l.word = "trunc" -> from(is_integer) /\ to(is_integer) /\ narrower
        [] l.word \in {"zext", "sext"} -> from(is_integer) /\ to(is_integer) /\ wider
        [] l.word = "fptrunc" -> from(is_float) /\ to(is_float) /\ narrower
        [] l.word = "fpext" -> from(is_float) /\ to(is_float) /\ wider
        [] l.word \in {"fptoui", "fptosi"} -> from(is_float) /\ to(is_integer)
        [] l.word \in {"uitofp", "sitofp"} -> from(is_integer) /\ to(is_float)
        [] l.word = "ptrtoint" -> from(is_ptr) /\ to(is_integer)
        [] l.word = "inttoptr" -> from(is_integer) /\ to(is_ptr)
        [] l.word = "bitcast" -> width(l.src_ty) = width(l.dest_ty)

Injective(s) == \A j, k \in DOMAIN s : s[j] = s[k] => j = k
PowerOfTwo(n) == \E k \in 0 .. n : 2^k = n

LineWellTyped(l, result, signatures) ==
  CASE l.line = "ret" -> l.ty = result /\ (l.operand = <<>> <=> is_void(l.ty))
    [] l.line = "alloca" -> is_first_class(l.ty) /\ \A u \in Range(l.count) : is_integer(u.ty)
    [] l.line \in {"load", "store"} -> l.ptr.ty = Ptr
    [] l.line = "getelementptr" -> GepWellTyped(l)
    [] l.line = "call" ->
         /\ [name |-> l.name, params |-> [k \in DOMAIN l.args |-> l.args[k].ty], result |-> l.ty] \in signatures
         /\ is_void(l.ty) <=> "def" \notin DOMAIN l
    [] l.line = "icmp" -> is_integer(l.ty) \/ is_ptr(l.ty)
    [] l.line = "ibinop" -> is_integer(l.ty)
    [] l.line \in {"fcmp", "fbinop", "fneg"} -> is_float(l.ty)
    [] l.line = "cast" -> CastWellTyped(l)
    [] l.line = "switch" -> is_integer(l.ty) /\ Injective(l.cases)
    [] l.line = "select" -> is_first_class(l.ty)
    [] l.line = "phi" -> Injective([k \in DOMAIN l.branches |-> l.branches[k].label])
    [] OTHER -> TRUE

(* What goes through a register or memory has a size.                       *)
Sized(l) ==
  CASE l.line \in {"load", "phi"} -> is_first_class(l.ty)
    [] l.line = "store" -> is_first_class(l.val.ty)
    [] l.line = "getelementptr" -> is_first_class(l.source_ty)
    [] OTHER -> TRUE

(* Each access through a pointer this function made is at the type the      *)
(* text says that pointer has: the crate's own promise, opaque to LLVM.     *)
SlotOf(l) ==
  CASE l.line = "alloca" -> Some(l.ty)
    [] l.line = "getelementptr" -> IndicesLandOn(l)
    [] OTHER -> None

AccessTy(l) == IF l.line = "load" THEN l.ty ELSE l.val.ty

AccessesMatchSlots(body) ==
  \A d, l \in Range(body) :
    /\ "def" \in DOMAIN d /\ SlotOf(d) # None
    /\ l.line \in {"load", "store"} /\ l.ptr.operand = [reg |-> d.def]
    => <<AccessTy(l)>> = SlotOf(d)

-----------------------------------------------------------------------------
(* Functions and the module                                                 *)

RegistersOf(body) ==
  {[reg |-> l.def, ty |-> DefinedTy(l)] : l \in {x \in Range(body) : "def" \in DOMAIN x}}
    \union {[reg |-> p.operand.reg, ty |-> p.ty] : p \in Range(body[1].params)}

DefinitionCount(body) ==
  Cardinality({k \in DOMAIN body : "def" \in DOMAIN body[k]}) + Len(body[1].params)

LabelsOf(body) == {body[k].name : k \in {j \in DOMAIN body : body[j].line = "label"}}

(* A block's phis, its other instructions and one terminator, in order; the *)
(* entry block has no predecessor for a phi to select on.                   *)
OrderedWithinBlocks(body) ==
  \A k \in 2 .. Len(body) - 1 :
    /\ body[k].line = "phi" => /\ body[k - 1].line \in {"label", "phi"}
                               /\ \E j \in 3 .. k - 1 : body[j].line = "label"
    /\ body[k].line \in Terminators => body[k + 1].line \in {"label", "}"}

(* A label and a register are values of one namespace.                      *)
LabelsApart(body) == \A r \in RegistersOf(body) : r.reg[2] = <<>> => r.reg[1] \notin LabelsOf(body)

(* The numbers of the unnamed registers, in the order of the text.          *)
UnnamedIn(body) ==
  LET defs == each(body[1].params, LAMBDA p : p.operand.reg)
                \o each(SelectSeq(body, LAMBDA l : "def" \in DOMAIN l), LAMBDA l : l.def)
  IN  each(SelectSeq(defs, LAMBDA r : r[1] = ""), LAMBDA r : r[2][1])

Ascending(numbers) == \A j, k \in DOMAIN numbers : j < k => numbers[j] < numbers[k]
Gapless(numbers) == Range(numbers) = 0 .. Len(numbers) - 1

FunctionAccepted(body, symbols, signatures) ==
  /\ DefinitionCount(body) = Cardinality({r.reg : r \in RegistersOf(body)})
  /\ Cardinality({k \in DOMAIN body : body[k].line = "label"}) = Cardinality(LabelsOf(body))
  /\ OrderedWithinBlocks(body)
  /\ \A p \in Range(body[1].params) : is_first_class(p.ty)
  /\ \A l \in Range(body) :
       /\ LineWellTyped(l, body[1].result, signatures)
       /\ Labels(l) \subseteq LabelsOf(body)
       /\ \A u \in Uses(l) : UseWellTyped(u, RegistersOf(body), symbols)
       /\ "align" \in DOMAIN l => \A a \in Range(l.align) : PowerOfTwo(a)
  /\ AccessesMatchSlots(body)

(* The lines from each "define" to its closing brace.                       *)
BodiesOf(text) ==
  LET closing(k) == CHOOSE e \in k .. Len(text) : text[e].line = "}" /\ \A j \in k .. e - 1 : text[j].line # "}"
  IN  {SubSeq(text, k, closing(k)) : k \in {j \in DOMAIN text : text[j].line = "define"}}

SymbolLines(text) == {k \in DOMAIN text : text[k].line \in {"global", "declare", "define"}}

GlobalAccepted(l, symbols) ==
  /\ is_first_class(l.ty)
  /\ \A o \in Range(l.initializer) : UseWellTyped([ty |-> l.ty, operand |-> o], {}, symbols)

SignaturesIn(text) ==
  {[name |-> text[k].name, result |-> text[k].result,
    params |-> IF text[k].line = "declare" THEN text[k].params
               ELSE each(text[k].params, LAMBDA p : p.ty)] :
     k \in {j \in SymbolLines(text) : text[j].line # "global"}}

(* Unnamed registers ascend in the text; before LLVM 19 without gaps.       *)
BodyObjections(body, symbols, signatures) ==
  {rule \in {"order of numbers", "gap in numbers", "label and register", "size", "other"} :
     CASE rule = "order of numbers" -> ~Ascending(UnnamedIn(body))
       [] rule = "gap in numbers" -> ~Gapless(UnnamedIn(body))
       [] rule = "label and register" -> ~LabelsApart(body)
       [] rule = "size" -> \E l \in Range(body) : ~Sized(l)
       [] rule = "other" -> ~FunctionAccepted(body, symbols, signatures)}

SymbolsAccepted(text, symbols) ==
  /\ Cardinality(symbols) = Cardinality(SymbolLines(text))
  /\ \A k \in SymbolLines(text) : text[k].line = "global" => GlobalAccepted(text[k], symbols)

LlvmObjections(text) ==
  LET symbols == {text[k].name : k \in SymbolLines(text)}
      found(body) == BodyObjections(body, symbols, SignaturesIn(text))
  IN  UNION {{[func |-> body[1].name, rule |-> rule] : rule \in found(body)} : body \in BodiesOf(text)}
        \union {[rule |-> "symbols"] : s \in {t \in {text} : ~SymbolsAccepted(t, symbols)}}

LlvmAccepts(text) == LlvmObjections(text) = {}
=============================================================================
