------------------------------ MODULE WasmModules ------------------------------
(***************************************************************************)
(* Modules as a validated binary lists them, section by section, and what  *)
(* WebAssembly says instantiating one gives.  A constant expression has    *)
(* one instruction, or three that combine two operands.                    *)
(***************************************************************************)
EXTENDS LinearMemory

NullRef == -1
Val(type, n) == [ty |-> type, v |-> n]

FuncImport(name, sig) == [sec |-> "Import", kind |-> "Func", name |-> name, sig |-> sig]
GlobalImport(name, ty) == [sec |-> "Import", kind |-> "Global", name |-> name, ty |-> ty]
OtherImport == [sec |-> "Import", kind |-> "Other"]
Function(sig) == [sec |-> "Function", sig |-> sig]
Table(initial, maximum, init) ==
  [sec |-> "Table", initial |-> initial, maximum |-> maximum, init |-> init, supported |-> TRUE]
MemoryType(initial, maximum) ==
  [sec |-> "Memory", initial |-> initial, maximum |-> maximum, supported |-> TRUE]
Global(ty, init) == [sec |-> "Global", ty |-> ty, init |-> init]
Export(name, kind, index) == [sec |-> "Export", name |-> name, kind |-> kind, index |-> index]
Start(func) == [sec |-> "Start", func |-> func]
Element(kind, table, offset, items) ==
  [sec |-> "Element", kind |-> kind, table |-> table, offset |-> offset, items |-> items, funcref |-> TRUE]
Data(kind, offset, bytes) == [sec |-> "Data", kind |-> kind, offset |-> offset, bytes |-> bytes]
(* emits is the error the lowering of the body ends with, if any.           *)
Code(locals) == [sec |-> "Code", locals |-> locals, emits |-> None]

Const(val) == [i |-> "Const", val |-> val]
GlobalGet(k) == [i |-> "GlobalGet", index |-> k]
RefFunc(k) == [i |-> "RefFunc", index |-> k]
RefNull == [i |-> "RefNull"]
Arith(ty, f) == [i |-> "Arith", ty |-> ty, f |-> f]
Foreign == [i |-> "Foreign"]   \* any other that validates: v128.const, ref.i31

-----------------------------------------------------------------------------
Items(b, sec) == SelectSeq(b, LAMBDA item : item.sec = sec)
Imports(b, kind) == SelectSeq(Items(b, "Import"), LAMBDA item : item.kind = kind)
Each(s, Op(_)) == [k \in DOMAIN s |-> Op(s[k])]

(* Imports come first in every index space.                                 *)
Functions_of(b) == Each(Imports(b, "Func") \o Items(b, "Function"), LAMBDA f : f.sig)

Atom(instr, globals) ==
  CASE instr.i = "Const" -> instr.val
    [] instr.i = "GlobalGet" -> globals[instr.index + 1]
    [] instr.i = "RefFunc" -> Val("Ref", instr.index)
    [] instr.i = "RefNull" -> Val("Ref", NullRef)

Evaluate(expr, globals) ==
  IF Len(expr) = 1 THEN Atom(expr[1], globals)
  ELSE LET p == Atom(expr[1], globals).v   q == Atom(expr[2], globals).v
           f == expr[3].f   ty == expr[3].ty
       IN  Val(ty, signed(IF ty = "I32" THEN W32 ELSE W64,
                          CASE f = "Add" -> p + q [] f = "Sub" -> p - q [] f = "Mul" -> p * q))

Globals_of(b, registry) ==
  FoldLeft(LAMBDA gs, g : Append(gs, Evaluate(g.init, gs)),
           Each(Imports(b, "Global"), LAMBDA g : registry.globals[g.name]), Items(b, "Global"))

Capped(maximum, cap) == IF maximum # None /\ maximum[1] < cap THEN maximum[1] ELSE cap

Overlaid(s, at, items) == [k \in DOMAIN s |-> IF k - at \in DOMAIN items THEN items[k - at] ELSE s[k]]

(* Where an active segment begins: its offset is unsigned.                  *)
Begins(segment, globals) == unsigned(W32, Evaluate(segment.offset, globals).v)

Elements_of(segment, globals) == Each(segment.items, LAMBDA e : Evaluate(e, globals).v)

InitialTable(t, globals) ==
  [k \in 1 .. t.initial |-> IF t.init = None THEN NullRef ELSE Evaluate(t.init[1], globals).v]

(* The instance of a module nothing is wrong with.                          *)
Expected(b, registry, config) ==
  LET gs == Globals_of(b, registry)
      memories == Items(b, "Memory")
      Filled(n, t) ==
        FoldLeft(LAMBDA s, e : Overlaid(s, Begins(e, gs), Elements_of(e, gs)), InitialTable(t, gs),
                 SelectSeq(Items(b, "Element"), LAMBDA e : e.kind = "Active" /\ e.table = n - 1))
  IN  [globals |-> gs,
       memory |-> FoldLeft(LAMBDA s, d : Overlaid(s, Begins(d, gs), d.bytes),
                           [k \in 1 .. PAGE * (IF memories = <<>> THEN 0 ELSE memories[1].initial) |-> 0],
                           SelectSeq(Items(b, "Data"), LAMBDA d : d.kind = "Active")),
       max_pages |-> Capped(IF memories = <<>> THEN None ELSE memories[1].maximum, config.pages),
       tables |-> [n \in DOMAIN Items(b, "Table") |->
                     LET t == Items(b, "Table")[n]
                     IN  [table |-> Filled(n, t), maximum |-> Capped(t.maximum, config.elements)]],
       elements |-> Each(Items(b, "Element"),
                         LAMBDA e : IF e.kind = "Passive" THEN Some(Elements_of(e, gs)) ELSE None),
       datas |-> Each(Items(b, "Data"), LAMBDA d : IF d.kind = "Passive" THEN Some(d.bytes) ELSE None)]

-----------------------------------------------------------------------------
(* Everything that stands in the way of an instance; the segments only of a *)
(* module that is otherwise sound.                                          *)
Kinds(faults) == {f[1] : f \in {g \in faults : g[2]}}

(* The constant expressions of an item.                                     *)
Exprs(item) ==
  CASE item.sec = "Global" -> {item.init}
    [] item.sec = "Table" -> ToSet(item.init)
    [] item.sec = "Element" -> ToSet(item.items) \cup {item.offset}
    [] item.sec = "Data" -> {item.offset}
    [] OTHER -> {}

CompileFaults(b) ==
  Kinds({<<"Unsupported", Imports(b, "Other") # <<>> \/ Len(Items(b, "Memory")) > 1>>}
        \cup {<<"Unsupported", ~b[k].supported>> : k \in {n \in DOMAIN b : b[n].sec \in {"Table", "Memory"}}}
        \cup {<<"Unsupported", "V128" \in {b[k].locals[n] : n \in DOMAIN b[k].locals}>>
                : k \in {n \in DOMAIN b : b[n].sec = "Code"}}
        \cup {<<"Unsupported", Foreign \in UNION {ToSet(e) : e \in Exprs(b[k])}>> : k \in DOMAIN b})
  \cup UNION {ToSet(b[k].emits) : k \in {n \in DOMAIN b : b[n].sec = "Code"}}

LimitFaults(b, config) ==
  Kinds({<<"MemoryTooLarge", m.initial > config.pages>> : m \in ToSet(Items(b, "Memory"))}
        \cup {<<"TableTooLarge", t.initial > config.elements>> : t \in ToSet(Items(b, "Table"))})

ImportFaults(b, registry) ==
  LET funcs == ToSet(Imports(b, "Func"))   globals == ToSet(Imports(b, "Global"))
  IN  Kinds({<<"ImportCountMismatch", registry.func_count # Len(Imports(b, "Func"))>>,
             <<"ImportGlobalCountMismatch", registry.global_count # Len(Imports(b, "Global"))>>}
            \cup {<<"ImportNotFound", i.name \notin DOMAIN registry.funcs>> : i \in funcs}
            \cup {<<"ImportSignatureMismatch", i.name \in DOMAIN registry.funcs /\ registry.funcs[i.name] # i.sig>>
                    : i \in funcs}
            \cup {<<"CallToImportedItemReturnedError", i.name \notin DOMAIN registry.globals>> : i \in globals}
            \cup {<<"Unsupported", i.ty = "V128">> : i \in globals}
            \cup {<<"ImportGlobalTypeMismatch", i.name \in DOMAIN registry.globals /\ registry.globals[i.name].ty # i.ty>>
                    : i \in globals})

(* An active segment that begins in the upper half of the address space.    *)
PastHalf(segment, globals) == segment.kind = "Active" /\ Begins(segment, globals) >= 2 ^ (W32 - 1)

(* A segment does not fit what it initialises.                              *)
ElementUnfit(b, registry, e) ==
  /\ e.kind = "Active"
  /\ Begins(e, Globals_of(b, registry)) + Len(e.items) > Items(b, "Table")[e.table + 1].initial
DataUnfit(b, registry, d) ==
  /\ d.kind = "Active"
  /\ Begins(d, Globals_of(b, registry)) + Len(d.bytes) > PAGE * Items(b, "Memory")[1].initial

SegmentFaults(b, registry) ==
  Kinds({<<"Unsupported", ~e.funcref>> : e \in ToSet(Items(b, "Element"))}
        \cup {<<"ElementSegmentOutOfBounds", ElementUnfit(b, registry, e)>> : e \in ToSet(Items(b, "Element"))}
        \cup {<<"OutOfBoundsAccess", DataUnfit(b, registry, d)>> : d \in ToSet(Items(b, "Data"))}
        \cup {<<"ImportedFunctionNotCallable", s.func < Len(Imports(b, "Func"))>> : s \in ToSet(Items(b, "Start"))})

Faults(b, registry, config) ==
  LET early == LimitFaults(b, config) \cup ImportFaults(b, registry)
  IN  IF CompileFaults(b) # {} THEN CompileFaults(b)
      ELSE IF early # {} THEN early ELSE SegmentFaults(b, registry)
=============================================================================
