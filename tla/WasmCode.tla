------------------------------ MODULE WasmCode ------------------------------
(***************************************************************************)
(* The function bodies both lowerings read, and what they mean.            *)
(*                                                                         *)
(* A body is a sequence of operators, as wasmparser's OperatorsReader      *)
(* yields them.  This module says which sequences are valid (the validator *)
(* runs before any lowering does) and what a valid body computes (the      *)
(* WebAssembly semantics).  Both are external to the repository.  Every    *)
(* value is an i32, so a type is an arity.                                 *)
(***************************************************************************)
EXTENDS Integers, Sequences

CONSTANTS
  ResultsCount,  \* results of the function
  Fuel           \* bound on the operators one run of the reference may execute

(* Operators.  Every record has the fields op, x (a local, a constant or a  *)
(* depth), ty (params and results of a block or a callee) and arms (the     *)
(* depths of a br_table, default last).                                     *)
Op(name, x)         == [op |-> name, x |-> x, ty |-> <<0, 0>>, arms |-> <<>>]
BlockOp(name, p, r) == [op |-> name, x |-> 0, ty |-> <<p, r>>, arms |-> <<>>]
TableOp(depths)     == [op |-> "BrTable", x |-> 0, ty |-> <<0, 0>>, arms |-> depths]

ASSUME ResultsAssumption == ResultsCount \in Nat

Openers == {"Block", "Loop", "If"}
Opens(o) == o.op \in Openers

(* What an operator pops and pushes, for those that touch only operands.    *)
Arity ==
  [Const     |-> <<0, 1>>, LocalGet |-> <<0, 1>>, LocalSet  |-> <<1, 0>>,
   LocalTee  |-> <<1, 1>>, Drop     |-> <<1, 0>>, Nop       |-> <<0, 0>>,
   GlobalGet |-> <<0, 1>>, GlobalSet |-> <<1, 0>>,
   I32Eqz    |-> <<1, 1>>, I32LtU   |-> <<2, 1>>, Select    |-> <<3, 1>>]

Plain(o) == o.op \in DOMAIN Arity

(* A call pops the arguments; an indirect one pops its table slot first.    *)
IsCall(o) == o.op \in {"Call", "CallIndirect"}
CallPops(o) == o.ty[1] + IF o.op = "CallIndirect" THEN 1 ELSE 0

(* What the reader yields is one of these, with an arity of every type and  *)
(* depths that are naturals; a br_table has its default.                    *)
Names ==
  DOMAIN Arity \cup Openers \cup
    {"Else", "End", "Call", "CallIndirect", "Br", "BrIf", "BrTable", "Return", "Unreachable"}

IsOperator(o) ==
  /\ o.op \in Names
  /\ o.op \in {"Br", "BrIf"} => o.x \in Nat
  /\ o.ty \in Nat \X Nat
  /\ o.arms \in Seq(Nat)
  /\ o.op = "BrTable" => o.arms # <<>>

-----------------------------------------------------------------------------
(* Validation: the height of the operand stack and the open labels.  A      *)
(* label's code becomes unreachable after an unconditional transfer, and    *)
(* its operand stack is then polymorphic: a pop below the label's height    *)
(* succeeds.                                                                *)

Label(kind, height, params, results) ==
  [kind |-> kind, height |-> height, params |-> params, results |-> results,
   unreachable |-> FALSE]

NewValidator == [height |-> 0, labels |-> <<Label("Func", 0, 0, ResultsCount)>>]

Innermost(v) == v.labels[Len(v.labels)]
Target(v, depth) == v.labels[Len(v.labels) - depth]
BranchArity(l) == IF l.kind = "Loop" THEN l.params ELSE l.results

CanPop(v, n) == Innermost(v).unreachable \/ v.height - n >= Innermost(v).height

Effect(v, pops, pushes) ==
  LET h == v.height - pops
      base == Innermost(v).height
  IN  [v EXCEPT !.height = (IF h < base THEN base ELSE h) + pushes]

(* The rest of the innermost label cannot execute.                          *)
MarkUnreachable(v) ==
  [v EXCEPT !.height = Innermost(v).height,
            !.labels[Len(v.labels)].unreachable = TRUE]

Depths(o) == IF o.op = "BrTable" THEN {o.arms[i] : i \in 1 .. Len(o.arms)} ELSE {o.x}

(* May operator o come next?                                                *)
Allowed(v, o) ==
  LET top == Innermost(v)
  IN  CASE Plain(o) -> CanPop(v, Arity[o.op][1])
        [] IsCall(o) -> CanPop(v, CallPops(o))
        [] o.op \in {"Block", "Loop"} -> CanPop(v, o.ty[1])
        [] o.op = "If" -> CanPop(v, o.ty[1] + 1)
        [] o.op = "Else" -> /\ top.kind = "If" /\ CanPop(v, top.results)
                            /\ Effect(v, top.results, 0).height = top.height
        [] o.op = "End" -> /\ CanPop(v, top.results)
                           /\ Effect(v, top.results, 0).height = top.height
                           /\ top.kind = "If" => top.params = top.results
        [] o.op \in {"Br", "BrIf", "BrTable"} ->
             \E n \in {0, 1, 2} : \A d \in Depths(o) :
               /\ d < Len(v.labels)
               /\ BranchArity(Target(v, d)) = n
               /\ CanPop(v, n + IF o.op = "Br" THEN 0 ELSE 1)
        [] o.op = "Return" -> CanPop(v, ResultsCount)
        [] o.op = "Unreachable" -> TRUE

(* The validator after operator o.                                          *)
Validated(v, o) ==
  LET top == Innermost(v)
      open(e, kind) ==
        [height |-> e.height + o.ty[1],
         labels |-> Append(e.labels, Label(kind, e.height, o.ty[1], o.ty[2]))]
  IN  CASE Plain(o) -> Effect(v, Arity[o.op][1], Arity[o.op][2])
        [] IsCall(o) -> Effect(v, CallPops(o), o.ty[2])
        [] o.op \in {"Block", "Loop"} -> open(Effect(v, o.ty[1], 0), o.op)
        [] o.op = "If" -> open(Effect(v, o.ty[1] + 1, 0), "If")
        [] o.op = "Else" ->
             [height |-> top.height + top.params,
              labels |-> [v.labels EXCEPT ![Len(v.labels)] =
                            Label("Else", top.height, top.params, top.results)]]
        [] o.op = "End" ->
             [height |-> top.height + top.results,
              labels |-> SubSeq(v.labels, 1, Len(v.labels) - 1)]
        [] o.op = "BrIf" -> Effect(v, 1, 0)
        [] o.op \in {"Br", "BrTable", "Return", "Unreachable"} -> MarkUnreachable(v)

-----------------------------------------------------------------------------
(* Meaning.  A run is a record: the position of the next operator, the      *)
(* operands, the open labels, the locals, the global and the status.        *)

(* The nesting depth after each position; a label opened at i closes at the *)
(* first later position that returns to the depth before i.                 *)
DepthAt(ops) ==
  LET d[i \in 0 .. Len(ops)] ==
        IF i = 0 THEN 1
        ELSE d[i - 1] + IF Opens(ops[i]) THEN 1 ELSE IF ops[i].op = "End" THEN -1 ELSE 0
  IN  d

MatchingEnd(ops, i) ==
  LET d == DepthAt(ops)
  IN  CHOOSE j \in i + 1 .. Len(ops) :
        d[j] = d[i] - 1 /\ \A k \in i + 1 .. j - 1 : d[k] >= d[i]

(* The else of the if at i, or its end when it has none.                    *)
FalseArm(ops, i) ==
  LET d == DepthAt(ops)
      e == {j \in i + 1 .. MatchingEnd(ops, i) : ops[j].op = "Else" /\ d[j] = d[i]}
  IN  IF e = {} THEN MatchingEnd(ops, i) ELSE CHOOSE j \in e : TRUE

LastN(s, n) == SubSeq(s, Len(s) - n + 1, Len(s))
Under(s, n) == SubSeq(s, 1, Len(s) - n)

(* Leave for the label depth labels out, carrying its arity.                *)
Branch(ops, r, depth) ==
  LET k == Len(r.labels) - depth
      l == r.labels[k]
      kept == SubSeq(r.vals, 1, l.height) \o LastN(r.vals, l.arity)
  IN  IF l.loop THEN [r EXCEPT !.pc = l.target, !.vals = kept, !.labels = SubSeq(r.labels, 1, k)]
      ELSE [r EXCEPT !.pc = l.target, !.vals = kept, !.labels = SubSeq(r.labels, 1, k - 1)]

Compute(o, a) ==
  CASE o.op = "I32Eqz" -> IF a[1] = 0 THEN 1 ELSE 0
    [] o.op = "I32LtU" -> IF a[1] < a[2] THEN 1 ELSE 0
    [] o.op = "Select" -> IF a[3] # 0 THEN a[1] ELSE a[2]

(* The callee, which tells its arguments and its results apart by position. *)
Callee(a, results) ==
  LET sum[k \in 0 .. Len(a)] == IF k = 0 THEN 0 ELSE sum[k - 1] + k * a[k]
  IN  [j \in 1 .. results |-> (j + sum[Len(a)]) % 3]

(* The table has one element: any other slot is out of bounds.              *)
InTable(slot) == slot = 0

Enter(ops, r, i, pops) ==
  LET o == ops[i]
      rest == Under(r.vals, pops)
      loop == o.op = "Loop"
  IN  [r EXCEPT !.vals = rest,
                !.labels = Append(r.labels,
                   [loop |-> loop, height |-> Len(rest) - o.ty[1],
                    arity |-> IF loop THEN o.ty[1] ELSE o.ty[2],
                    target |-> IF loop THEN i + 1 ELSE MatchingEnd(ops, i) + 1]),
                !.pc = i + 1]

Evaluate(ops, r) ==
  LET i == r.pc
      o == ops[i]
      top == r.vals[Len(r.vals)]
      next == [r EXCEPT !.pc = i + 1]
      pushing(v) == [next EXCEPT !.vals = Append(r.vals, v)]
  IN  CASE o.op = "Const"     -> pushing(o.x)
        [] o.op = "LocalGet"  -> pushing(r.locals[o.x])
        [] o.op = "GlobalGet" -> pushing(r.global)
        [] o.op = "LocalSet"  -> [next EXCEPT !.vals = Under(r.vals, 1), !.locals[o.x] = top]
        [] o.op = "LocalTee"  -> [next EXCEPT !.locals[o.x] = top]
        [] o.op = "GlobalSet" -> [next EXCEPT !.vals = Under(r.vals, 1), !.global = top]
        [] o.op = "Drop"      -> [next EXCEPT !.vals = Under(r.vals, 1)]
        [] o.op = "Nop"       -> next
        [] o.op \in {"I32Eqz", "I32LtU", "Select"} ->
             LET n == Arity[o.op][1]
             IN  [next EXCEPT !.vals = Append(Under(r.vals, n), Compute(o, LastN(r.vals, n)))]
        [] o.op = "CallIndirect" /\ ~InTable(top) -> [r EXCEPT !.trapped = TRUE]
        [] IsCall(o) ->
             LET args == SubSeq(LastN(r.vals, CallPops(o)), 1, o.ty[1])
             IN  [next EXCEPT !.vals = Under(r.vals, CallPops(o)) \o Callee(args, o.ty[2])]
        [] o.op \in {"Block", "Loop"} -> Enter(ops, r, i, 0)
        [] o.op = "If" ->
             LET e == Enter(ops, r, i, 1)
             IN  IF top # 0 THEN e
                 ELSE IF ops[FalseArm(ops, i)].op = "Else"
                      THEN [e EXCEPT !.pc = FalseArm(ops, i) + 1]
                      ELSE [e EXCEPT !.pc = FalseArm(ops, i)]
        [] o.op = "Else" ->     \* the first arm is done: on to the end
             [r EXCEPT !.pc = r.labels[Len(r.labels)].target - 1]
        [] o.op = "End" -> [next EXCEPT !.labels = SubSeq(r.labels, 1, Len(r.labels) - 1)]
        [] o.op = "Br" -> Branch(ops, r, o.x)
        [] o.op = "BrIf" ->
             LET p == [next EXCEPT !.vals = Under(r.vals, 1)]
             IN  IF top # 0 THEN Branch(ops, p, o.x) ELSE p
        [] o.op = "BrTable" ->
             Branch(ops, [r EXCEPT !.vals = Under(r.vals, 1)],
                    IF top < Len(o.arms) - 1 THEN o.arms[top + 1] ELSE o.arms[Len(o.arms)])
        [] o.op = "Return" -> Branch(ops, r, Len(r.labels) - 1)
        [] o.op = "Unreachable" -> [r EXCEPT !.trapped = TRUE]

Halted(ops, r) == r.pc > Len(ops) \/ r.trapped

(* What the body computes from these locals and this global; not halted     *)
(* when the fuel runs out.                                                  *)
Meaning(ops, locals, global) ==
  LET start == [pc |-> 1, vals |-> <<>>, locals |-> locals, global |-> global,
                trapped |-> FALSE,
                labels |-> <<[loop |-> FALSE, height |-> 0, arity |-> ResultsCount,
                              target |-> Len(ops) + 1]>>]
      run[n \in 0 .. Fuel] ==
        IF n = 0 THEN start
        ELSE LET r == run[n - 1] IN IF Halted(ops, r) THEN r ELSE Evaluate(ops, r)
  IN  run[Fuel]
=============================================================================
