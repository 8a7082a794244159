----------------------------- MODULE Instantiation -----------------------------
(***************************************************************************)
(* Module::compile over the sections of a binary, Module::instantiate over *)
(* what it collected, and get_typed_func on the result.  A step that fails *)
(* ends the whole attempt with its error.                                  *)
(*                                                                         *)
(*   binary, import_registry, requested   the inputs                       *)
(*   rest       the payloads still to be read                              *)
(*   module     what compile has collected, in index order                 *)
(*   inst       what instantiate has built: config, memory, and the        *)
(*              globals, tables, elements and datas done so far            *)
(*   phase      what is under way; "ready" and "failed" are final          *)
(*   error      the error of a failed attempt                              *)
(*   handle     the last request for a typed function and its answer       *)
(***************************************************************************)
EXTENDS WasmModules

CONSTANTS
  Binaries,      \* validated binaries
  Registries,    \* import registries: their counts, functions and globals
  Configs,       \* the limits asked for: [pages, elements]
  Signatures     \* the signatures typed functions are asked with

VARIABLES binary, import_registry, requested, rest, module, inst, phase, error, handle

inputs == <<binary, import_registry, requested>>
vars == <<inputs, rest, module, inst, phase, error, handle>>

NewModule ==
  [func_decls |-> <<>>, imported_func_count |-> 0, globals |-> <<>>, imported_global_count |-> 0,
   tables |-> <<>>, memories |-> <<>>, exports |-> <<>>, start_section |-> None,
   elements |-> <<>>, datas |-> <<>>, func_bodies |-> <<>>]

NewInst ==
  [max_pages |-> 0, memory |-> <<>>, globals |-> <<>>, tables |-> <<>>, elements |-> <<>>, datas |-> <<>>]

Init ==
  /\ binary \in Binaries /\ import_registry \in Registries /\ requested \in Configs
  /\ rest = binary /\ module = NewModule /\ inst = NewInst
  /\ phase = "compile" /\ error = None /\ handle = None

Fail(kind) == /\ phase' = "failed" /\ error' = Some(kind)
              /\ UNCHANGED <<inputs, rest, module, inst, handle>>

-----------------------------------------------------------------------------
(* The payloads of compile, each leaving the module or an error.            *)
Payload(sec) == phase = "compile" /\ rest # <<>> /\ Head(rest).sec = sec

Collected(m) == /\ module' = m /\ rest' = Tail(rest)
                /\ UNCHANGED <<inputs, inst, phase, error, handle>>

(* Both counts are taken again once the imports are all in.                 *)
ImportSection ==
  /\ Payload("Import")
  /\ LET i == Head(rest)
         func == [kind |-> "Imported", name |-> i.name, sig |-> i.sig]
         global == [kind |-> "Imported", name |-> i.name, ty |-> i.ty]
     IN  \/ /\ i.kind = "Func"
            /\ Collected([module EXCEPT !.func_decls = Append(@, func), !.imported_func_count = @ + 1])
         \/ /\ i.kind = "Global"
            /\ Collected([module EXCEPT !.globals = Append(@, global), !.imported_global_count = @ + 1])
         \/ i.kind = "Other" /\ Fail("Unsupported")

FunctionSection ==
  /\ Payload("Function")
  /\ Collected([module EXCEPT !.func_decls = Append(@, [kind |-> "Local", sig |-> Head(rest).sig])])

(* Constant expressions are lowered as they are met; an operator outside    *)
(* the few emit_instruction_for_const_expr knows ends compile.              *)
Emitted(exprs, m) ==
  IF \A e \in exprs : Foreign \notin ToSet(e) THEN Collected(m) ELSE Fail("Unsupported")

(* Only tables of funcref and memories, both of 32-bit indices.             *)
TableSection ==
  /\ Payload("Table")
  /\ IF Head(rest).supported THEN Emitted(ToSet(Head(rest).init), [module EXCEPT !.tables = Append(@, Head(rest))])
     ELSE Fail("Unsupported")

MemorySection ==
  /\ Payload("Memory")
  /\ IF Head(rest).supported THEN Collected([module EXCEPT !.memories = Append(@, Head(rest))])
     ELSE Fail("Unsupported")

GlobalSection ==
  /\ Payload("Global")
  /\ Emitted({Head(rest).init},
             [module EXCEPT !.globals = Append(@, [kind |-> "Local", ty |-> Head(rest).ty, init |-> Head(rest).init])])

ExportSection ==
  /\ Payload("Export")
  /\ Collected([module EXCEPT !.exports = (Head(rest).name :> [kind |-> Head(rest).kind, index |-> Head(rest).index]) @@ @])

StartSection == Payload("Start") /\ Collected([module EXCEPT !.start_section = Some(Head(rest).func)])

ElementSection ==
  /\ Payload("Element")
  /\ Emitted({Head(rest).offset} \cup ToSet(Head(rest).items), [module EXCEPT !.elements = Append(@, Head(rest))])

DataSection ==
  /\ Payload("Data")
  /\ Emitted({Head(rest).offset}, [module EXCEPT !.datas = Append(@, Head(rest))])

(* A body belongs to the function its position makes it, behind the         *)
(* imports; an error of its lowering is compile's own.                      *)
CodeSectionEntry ==
  /\ Payload("Code")
  /\ LET decl == module.func_decls[Len(module.func_bodies) + module.imported_func_count + 1]
         locals == decl.sig.params \o Head(rest).locals
     IN  IF "V128" \in ToSet(Head(rest).locals) THEN Fail("Unsupported")
         ELSE IF Head(rest).emits # None THEN Fail(Head(rest).emits[1])
         ELSE Collected([module EXCEPT !.func_bodies = Append(@, [locals |-> locals, results |-> Len(decl.sig.results)])])

EndOfBinary ==
  /\ phase = "compile" /\ rest = <<>>
  /\ IF Len(module.memories) > 1 THEN Fail("Unsupported")
     ELSE phase' = "imports" /\ UNCHANGED <<inputs, rest, module, inst, error, handle>>

-----------------------------------------------------------------------------
Built(i) == /\ inst' = i
            /\ UNCHANGED <<inputs, rest, module, phase, error, handle>>
Then_to(next) == /\ phase' = next
                 /\ UNCHANGED <<inputs, rest, module, inst, error, handle>>

imports == SubSeq(module.func_decls, 1, module.imported_func_count)

(* What is wrong with one import, parameters before results.                *)
import_error(decl) ==
  IF decl.name \notin DOMAIN import_registry.funcs THEN Some("ImportNotFound")
  ELSE IF import_registry.funcs[decl.name] # decl.sig THEN Some("ImportSignatureMismatch") ELSE None

ValidateImports ==
  /\ phase = "imports"
  /\ LET wrong == SelectSeq(imports, LAMBDA decl : import_error(decl) # None)
     IN  CASE import_registry.func_count # module.imported_func_count -> Fail("ImportCountMismatch")
           [] import_registry.func_count = module.imported_func_count /\ wrong # <<>> ->
                Fail(import_error(wrong[1])[1])
           [] OTHER -> Then_to("memory")

initial_pages == IF module.memories = <<>> THEN 0 ELSE module.memories[1].initial

(* A slip: a declared maximum replaces the configured one.                  *)
max_memory_pages_declared ==
  IF module.memories = <<>> \/ module.memories[1].maximum = None THEN requested.pages
  ELSE module.memories[1].maximum[1]

max_memory_pages ==
  LET declared == IF module.memories = <<>> THEN None ELSE module.memories[1].maximum
  IN  IF declared = None THEN requested.pages ELSE Min({declared[1], requested.pages})

AllocateMemory ==
  /\ phase = "memory"
  /\ IF initial_pages > max_memory_pages THEN Fail("MemoryTooLarge")
     ELSE /\ inst' = [inst EXCEPT !.max_pages = max_memory_pages, !.memory = allocate_initial_memory(initial_pages)]
          /\ IF import_registry.global_count # module.imported_global_count
             THEN phase' = "failed" /\ error' = Some("ImportGlobalCountMismatch")
             ELSE phase' = "globals" /\ error' = error
          /\ UNCHANGED <<inputs, rest, module, handle>>

(* A constant expression sees the globals before it.                        *)
const_expr_evaluator(expr, globals) ==
  LET w(ty) == IF ty = "I32" THEN W32 ELSE W64
      Step(stack, instr) ==
        CASE instr.i = "Const" -> Append(stack, instr.val)
          [] instr.i = "GlobalGet" -> Append(stack, globals[instr.index + 1])
          [] instr.i = "RefNull" -> Append(stack, Val("Ref", NullRef))
          [] instr.i = "RefFunc" -> Append(stack, Val("Ref", instr.index))
          [] instr.i = "Arith" ->
               LET b == Last(stack).v   a == Last(Front(stack)).v   f == instr.f
               IN  Append(Front(Front(stack)),
                          Val(instr.ty, signed(w(instr.ty), IF f = "Add" THEN a + b ELSE IF f = "Sub" THEN a - b ELSE a * b)))
  IN  Last(FoldLeft(Step, <<>>, expr))

evaluated(expr) == const_expr_evaluator(expr, inst.globals)

(* Imported or local, the next global.  The registry's own error for one it *)
(* does not have is passed on as such.                                      *)
InitGlobal ==
  /\ phase = "globals"
  /\ LET i == Len(inst.globals) + 1   global == module.globals[i]
         With(val) == Built([inst EXCEPT !.globals = Append(@, val)])
     IN  IF i > Len(module.globals) THEN Then_to("tables")
         ELSE IF global.kind = "Local" THEN With(evaluated(global.init))
         ELSE IF global.name \notin DOMAIN import_registry.globals THEN Fail("CallToImportedItemReturnedError")
         ELSE IF global.ty = "V128" THEN Fail("Unsupported")
         ELSE IF import_registry.globals[global.name].ty # global.ty THEN Fail("ImportGlobalTypeMismatch")
         ELSE With(import_registry.globals[global.name])

InitTable ==
  /\ phase = "tables"
  /\ LET i == Len(inst.tables) + 1   t == module.tables[i]
         maximum == IF t.maximum = None THEN requested.elements ELSE Min({t.maximum[1], requested.elements})
         slot == IF t.init = None THEN NullRef ELSE evaluated(t.init[1]).v
     IN  IF i > Len(module.tables) THEN Then_to("elements")
         ELSE IF t.initial > maximum THEN Fail("TableTooLarge")
         ELSE Built([inst EXCEPT !.tables = Append(@, [table |-> [k \in 1 .. t.initial |-> slot], maximum |-> maximum])])

(* `as_i32() as usize`, which extends the sign.                             *)
segment_offset(expr) == unsigned(W64, evaluated(expr).v)

written(table, offset, items) ==
  [k \in DOMAIN table |-> IF k - offset \in DOMAIN items THEN items[k - offset] ELSE table[k]]

ApplyElement ==
  /\ phase = "elements"
  /\ LET i == Len(inst.elements) + 1   e == module.elements[i]
         item_vals == [k \in DOMAIN e.items |-> evaluated(e.items[k]).v]
         offset == segment_offset(e.offset)   len == Len(inst.tables[e.table + 1].table)
     IN  IF i > Len(module.elements) THEN Then_to("datas")
         ELSE IF ~e.funcref THEN Fail("Unsupported")
         ELSE IF e.kind = "Passive" THEN Built([inst EXCEPT !.elements = Append(@, Some(item_vals))])
         ELSE IF e.kind = "Declared" THEN Built([inst EXCEPT !.elements = Append(@, None)])
         ELSE IF offset > len \/ Len(item_vals) > len - offset THEN Fail("ElementSegmentOutOfBounds")
         ELSE Built([inst EXCEPT !.elements = Append(@, None),
                                 !.tables[e.table + 1].table = written(@, offset, item_vals)])

ApplyData ==
  /\ phase = "datas"
  /\ LET i == Len(inst.datas) + 1   d == module.datas[i]
         w == write(inst.memory, segment_offset(d.offset), d.bytes)
     IN  IF i > Len(module.datas) THEN Then_to("start")
         ELSE IF d.kind = "Passive" THEN Built([inst EXCEPT !.datas = Append(@, Some(d.bytes))])
         ELSE IF ~w.ok THEN Fail("OutOfBoundsAccess")
         ELSE Built([inst EXCEPT !.datas = Append(@, None), !.memory = w.memory])

(* The start function runs on the finished instance; it may trap.           *)
RunStart ==
  /\ phase = "start"
  /\ CASE module.start_section = None -> Then_to("ready")
       [] module.start_section # None /\ module.start_section[1] < module.imported_func_count ->
            Fail("ImportedFunctionNotCallable")
       [] module.start_section # None /\ module.start_section[1] >= module.imported_func_count ->
            Then_to("ready") \/ Fail("StartFunctionError")

-----------------------------------------------------------------------------
Answer(kind) == [kind |-> kind, func |-> None]

(* A slip: an import exported again gets a handle.                          *)
typed_func_of_any(export, sig) ==
  LET ty == module.func_decls[export.index + 1].sig
  IN  IF ty # sig THEN Answer("IncorrectParamsResultsStructure")
      ELSE [kind |-> "TypedFunc", func |-> Some(export.index)]

typed_func(export, sig) ==
  LET ty == module.func_decls[export.index + 1].sig
  IN  IF export.index < module.imported_func_count THEN Answer("ImportedFunctionNotCallable")
      ELSE IF ty # sig THEN Answer("IncorrectParamsResultsStructure")
      ELSE [kind |-> "TypedFunc", func |-> Some(export.index)]

get_typed_func ==
  /\ phase = "ready"
  /\ \E name \in DOMAIN module.exports \cup {"absent"}, sig \in Signatures :
       handle' = Some([name |-> name, sig |-> sig,
                       answer |-> IF name \notin DOMAIN module.exports THEN Answer("ExportNotFound")
                                  ELSE IF module.exports[name].kind # "Func" THEN Answer("ExportNotA")
                                  ELSE typed_func(module.exports[name], sig)])
  /\ UNCHANGED <<inputs, rest, module, inst, phase, error>>

Next ==
  \/ ImportSection \/ FunctionSection \/ TableSection \/ MemorySection \/ GlobalSection \/ ExportSection
  \/ StartSection \/ ElementSection \/ CodeSectionEntry \/ DataSection \/ EndOfBinary
  \/ ValidateImports \/ AllocateMemory \/ InitGlobal \/ InitTable \/ ApplyElement \/ ApplyData \/ RunStart
  \/ get_typed_func

Spec == Init /\ [][Next]_vars

-----------------------------------------------------------------------------
(* Module::instantiate hands out exactly the instance WebAssembly defines   *)
(* for the binary, within the declared and the configured limits, and only  *)
(* if nothing stands in the way of one; an error names a fault there is.    *)
(* One exception: the offset of an active segment goes to usize through     *)
(* i32, so one in the upper half of the address space is refused though     *)
(* WebAssembly lets it in; the error is then of that very segment.          *)
InstanceCorrect ==
  /\ phase = "ready" => /\ Faults(binary, import_registry, requested) = {}
                        /\ inst = Expected(binary, import_registry, requested)
  /\ phase = "failed" => \/ error[1] \in Faults(binary, import_registry, requested)
                         \/ error[1] = "StartFunctionError" /\ Items(binary, "Start") # <<>>
                         \/ /\ error[1] = "ElementSegmentOutOfBounds"
                            /\ PastHalf(module.elements[Len(inst.elements) + 1], inst.globals)
                         \/ /\ error[1] = "OutOfBoundsAccess"
                            /\ PastHalf(module.datas[Len(inst.datas) + 1], inst.globals)

(* get_typed_func: a handle is given for an exported function that has a    *)
(* body, and that body, found behind the imports, was compiled for the very *)
(* signature asked for.                                                     *)
TypedFuncsExact ==
  handle # None =>
    LET h == handle[1]
        exported == {e \in ToSet(Items(binary, "Export")) : e.name = h.name /\ e.kind = "Func"}
        callable == {e \in exported : e.index >= Len(Imports(binary, "Func"))
                                        /\ Functions_of(binary)[e.index + 1] = h.sig}
    IN  /\ (h.answer.kind = "TypedFunc") = (callable # {})
        /\ h.answer.kind = "TypedFunc" =>
             LET body == module.func_bodies[h.answer.func[1] - module.imported_func_count + 1]
             IN  /\ SubSeq(body.locals, 1, Len(h.sig.params)) = h.sig.params
                 /\ body.results = Len(h.sig.results)
=============================================================================
