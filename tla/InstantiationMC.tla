--------------------------- MODULE InstantiationMC ---------------------------
(* Modules that vary in their imports, exports and start function, and      *)
(* modules that vary in their globals, tables, memory and segments.         *)
EXTENDS Instantiation

MCIeee(w, f, a, b) == 0   \* nothing here computes on floats

Plain == [params |-> <<>>, results |-> <<>>]
Unary == [params |-> <<"I32">>, results |-> <<"I64">>]
MCSignatures == {Plain, Unary, [Unary EXCEPT !.results = <<"I32">>]}

I32(n) == Const(Val("I32", n))
Optional(s) == {<<>>} \cup {<<x>> : x \in s}
UpTo(s, n) == UNION {[1 .. k -> s] : k \in 0 .. n}

-----------------------------------------------------------------------------
ImportItems ==
  {FuncImport("f", Plain), FuncImport("g", Unary), GlobalImport("m", "I32"), GlobalImport("n", "Ref"),
   GlobalImport("v", "V128"), OtherImport}

(* Two bodies, and every function exported, the last twice, beside a memory.*)
Importing(is, start, locals) ==
  LET count == Len(Imports(is, "Func")) + 2
      exports == [k \in 1 .. count |-> Export(CASE k = 1 -> "a" [] k = 2 -> "b" [] k = 3 -> "c" [] k = 4 -> "d", "Func", k - 1)]
  IN  is \o <<Function(Unary), Function(Plain)>> \o <<MemoryType(1, None)>> \o exports
         \o <<Export("again", "Func", count - 1), Export("memory", "Memory", 0)>>
         \o start \o <<Code(locals), Code(<<>>)>>

ImportingBinaries ==
  {Importing(is, start, <<"I32">>) : is \in UpTo(ImportItems, 2), start \in {<<>>, <<Start(1)>>}}
    \cup {Importing(is, <<>>, <<"V128">>) : is \in UpTo({FuncImport("f", Plain)}, 1)}
    \cup {Front(Importing(<<>>, <<>>, <<>>)) \o <<[Code(<<>>) EXCEPT !.emits = Some(kind)]>> :
            kind \in {"RegisterFrameTooLarge", "Unsupported", "UtilsError"}}

-----------------------------------------------------------------------------
Half == 2 ^ (W32 - 1) \div PAGE   \* pages of half the address space

(* Offsets that fit, that do not, that are negative and that wrap; one in   *)
(* the upper half of the address space that fits the largest of each kind.  *)
Offsets ==
  {<<I32(0)>>, <<I32(2)>>, <<I32(3)>>, <<I32(-1)>>, <<I32(IMin(W32) + 1)>>, <<GlobalGet(0)>>,
   <<I32(IMax(W32)), I32(IMax(W32)), Arith("I32", "Mul")>>, <<I32(1), GlobalGet(1), Arith("I32", "Sub")>>}

Globals == <<Global("I32", <<I32(2), GlobalGet(0), Arith("I32", "Add")>>), Global("Ref", <<RefFunc(0)>>)>>

Tables ==
  {<<>>, <<Table(3, None, None)>>, <<Table(3, Some(3), Some(<<GlobalGet(2)>>))>>, <<Table(5, None, None)>>,
   <<Table(2 ^ (W32 - 1) + 3, None, None)>>,
   <<Table(2, None, None), Table(4, Some(9), Some(<<RefFunc(0)>>))>>,
   <<[Table(3, None, None) EXCEPT !.supported = FALSE]>>}

Elements(tables) ==
  IF tables = <<>> THEN {<<>>, <<Element("Passive", 0, <<>>, <<<<RefNull>>>>)>>}
  ELSE UpTo({Element("Active", Len(tables) - 1, o, <<<<RefFunc(0)>>, <<RefNull>>>>) : o \in Offsets}
            \cup {Element("Active", 0, <<I32(1)>>, <<<<GlobalGet(2)>>>>),
                  Element("Passive", 0, <<>>, <<<<RefNull>>>>), Element("Declared", 0, <<>>, <<<<RefFunc(0)>>>>),
                  [Element("Passive", 0, <<>>, <<>>) EXCEPT !.funcref = FALSE],
                  [Element("Passive", 0, <<>>, <<<<Foreign>>>>) EXCEPT !.funcref = FALSE]}, 2)

Memories ==
  {<<>>, <<MemoryType(0, None)>>, <<MemoryType(1, Some(1))>>, <<MemoryType(1, Some(3))>>, <<MemoryType(2, None)>>,
   <<MemoryType(Half + 2, None)>>,
   <<[MemoryType(1, None) EXCEPT !.supported = FALSE]>>, <<MemoryType(1, None), MemoryType(1, None)>>}

Datas(memories) ==
  IF memories = <<>> THEN {<<>>, <<Data("Passive", <<>>, <<3>>)>>}
  ELSE UpTo({Data("Active", o, <<1, 2>>) : o \in Offsets \cup {<<I32(PAGE - 1)>>, <<I32(PAGE)>>}}
            \cup {Data("Active", <<I32(PAGE)>>, <<>>), Data("Passive", <<>>, <<3>>)}, 2)

Local(tables, memories, elements, datas) ==
  <<GlobalImport("m", "I32"), Function(Plain)>> \o tables \o memories \o Globals \o elements \o <<Code(<<>>)>> \o datas

LocalBinaries ==
  UNION {{Local(ts, <<>>, es, <<>>) : es \in Elements(ts)} : ts \in Tables}
    \cup UNION {{Local(<<>>, ms, <<>>, ds) : ds \in Datas(ms)} : ms \in Memories}
    \cup {<<Global("V128", <<Foreign>>)>>}

MCBinaries == ImportingBinaries \cup LocalBinaries

Registry(fc, fs, gc, gs) == [func_count |-> fc, funcs |-> fs, global_count |-> gc, globals |-> gs]

MCRegistries ==
  {Registry(fc, fs, gc, gs) :
     fc \in 0 .. 2, gc \in 0 .. 2,
     fs \in {"f" :> Plain @@ "g" :> Unary, "f" :> Unary},
     gs \in {"m" :> Val("I32", 1) @@ "n" :> Val("Ref", 0) @@ "v" :> Val("I64", 0), "m" :> Val("I64", 1)}}

MCConfigs == {[pages |-> 1, elements |-> 4], [pages |-> Half + 2, elements |-> 2 ^ (W32 - 1) + 3]}
=============================================================================
