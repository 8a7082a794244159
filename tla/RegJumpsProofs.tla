--------------------------- MODULE RegJumpsProofs ---------------------------
(***************************************************************************)
(* In every body the register lowering produces, each jump goes to its own *)
(* place, the Loop, Else or End of the label it names.                     *)
(*                                                                         *)
(* While a body is lowered, every open label knows which operator opened   *)
(* it, and a jump that was emitted either has the index of its own place   *)
(* or is owed it by its own label and no other: the label of its if, the   *)
(* one of its else, or the one with the branch in its                      *)
(* breaks_pending_list.  Every rule keeps that; the end of the body leaves *)
(* no label, so nothing is owed, and BackpatchMap moves no jump.           *)
(***************************************************************************)
EXTENDS RegLoweringProofs

-----------------------------------------------------------------------------
(* Where the jumps go.  q is the body as far as it is read, is what it has  *)
(* become, os the operator each instruction came from, cs the open labels.  *)

(* Instruction t is what operator p became.                                 *)
Became(q, os, is, t, p) == t \in 0 .. Len(is) - 1 /\ os[t + 1] = p /\ is[t + 1].op = q[p].op

Breaks(b) == {b.attached_breaks[j] : j \in 1 .. Len(b.attached_breaks)}

(* The open labels that will tell the branch at index i, in position arm.   *)
Awaited(cs, i, arm) == {k \in 1 .. Len(cs) : <<i, arm>> \in Breaks(cs[k])}

(* An instruction has a name, and a jump the fields it is patched in.       *)
Wellmade(x) ==
  /\ "op" \in DOMAIN x
  /\ x.op = "If" => "else_index" \in DOMAIN x /\ "end_index" \in DOMAIN x
  /\ x.op = "Else" => "end_index" \in DOMAIN x
  /\ x.op \in {"Br", "BrIf", "Return"} => "target_index" \in DOMAIN x
  /\ x.op = "BrTable" =>
       /\ "br_targets" \in DOMAIN x
       /\ \A j \in DOMAIN x.br_targets : "target_index" \in DOMAIN x.br_targets[j]

(* The branch at index i, in position arm, leaves for level k: it goes to   *)
(* the Loop that operator p opened there, or to the End of the label that p *)
(* opened, for which it waits as long as that is open.                      *)
Lands(q, os, cs, is, t, i, arm, k) ==
  \E p : /\ OpenAt(q, p, os[i + 1] - 1, k)
         /\ \/ IsLoop(q, p) /\ Became(q, os, is, t, p) /\ Awaited(cs, i, arm) = {}
            \/ ~IsLoop(q, p) /\ OpenAt(q, p, Len(q), k) /\ Awaited(cs, i, arm) = {k}
            \/ /\ ~IsLoop(q, p) /\ Awaited(cs, i, arm) = {}
               /\ \E e \in 1 .. Len(q) : ClosedAt(q, p, e, k) /\ Became(q, os, is, t, e)

(* t is where the if at p goes when it is false, y as ElseIs has it.        *)
ElseKnown(q, os, is, t, y) == IF y = -1 THEN t = Unset ELSE Became(q, os, is, t, y + 1)

(* The If at index i knows its End and its Else, or its label is open.      *)
IfLands(q, os, cs, is, x, i) ==
  \E k : \/ /\ k \in 1 .. Len(cs) /\ OpenAt(q, os[i + 1], Len(q), k)
            /\ cs[k].kind = "If" /\ cs[k].index = i
         \/ \E e \in 1 .. Len(q) : \E y :
              /\ ClosedAt(q, os[i + 1], e, k) /\ Became(q, os, is, x.end_index, e)
              /\ ElseIs(q, os[i + 1], e, k, y) /\ ElseKnown(q, os, is, x.else_index, y)

ElseLands(q, os, cs, is, x, i) ==
  LET k == DepthAt(q)[os[i + 1]]
  IN  \E p : /\ p # 0 /\ OpenAt(q, p, os[i + 1] - 1, k)
             /\ \/ /\ k \in 1 .. Len(cs) /\ OpenAt(q, p, Len(q), k)
                   /\ cs[k].kind = "If" /\ cs[k].else_index = i
                \/ \E e \in 1 .. Len(q) :
                     ClosedAt(q, p, e, k) /\ Became(q, os, is, x.end_index, e)

(* A jump at index i goes to its own place, or waits for its own label.     *)
JumpLands(q, os, cs, is, x, i) ==
  LET o == q[os[i + 1]]
      d == DepthAt(q)[os[i + 1] - 1]
  IN  /\ x.op \in Jumping => o.op = x.op
      /\ x.op = "If" => IfLands(q, os, cs, is, x, i)
      /\ x.op = "Else" => ElseLands(q, os, cs, is, x, i)
      /\ x.op \in {"Br", "BrIf"} => Lands(q, os, cs, is, x.target_index, i, 0, d - o.x)
      /\ x.op = "BrTable" =>
           /\ DOMAIN x.br_targets = DOMAIN o.arms
           /\ \A j \in DOMAIN x.br_targets :
                Lands(q, os, cs, is, x.br_targets[j].target_index, i, j, d - o.arms[j])
      /\ x.op = "Return" => Lands(q, os, cs, is, x.target_index, i, 0, 1)

(* Label b, at level k, is one that operator p opened; it knows where its   *)
(* Loop or its If is, and its Else once it has one.                         *)
LabelKnows(q, os, is, b, k) ==
  \E p : /\ OpenAt(q, p, Len(q), k) /\ (b.kind = "Loop" <=> IsLoop(q, p))
         /\ b.kind \in {"Loop", "If"} => Became(q, os, is, b.index, p)
         /\ b.kind = "If" =>
              p # 0 /\ \E y : ElseIs(q, p, Len(q), k, y) /\ ElseKnown(q, os, is, b.else_index, y)

(* Every instruction has its operator.                                      *)
Offsets(q, os, is) ==
  /\ IsSeq(os) /\ IsSeq(is) /\ Len(os) = Len(is)
  /\ \A i \in 1 .. Len(is) : os[i] \in 1 .. Len(q)

JumpsTracked(q, os, cs, is) ==
  /\ Offsets(q, os, is)
  /\ cs # <<>> => cs[1].kind = "Func"
  /\ \A k \in 1 .. Len(cs) : LabelKnows(q, os, is, cs[k], k)
  /\ \A i \in 1 .. Len(is) : Wellmade(is[i]) /\ JumpLands(q, os, cs, is, is[i], i - 1)
  /\ \A i, arm : i \notin 0 .. Len(is) - 1 => Awaited(cs, i, arm) = {}

(* The label of an if that may still have an else is one here, and has none *)
(* yet.                                                                     *)
IfsMatch(cs, ls) ==
  \A k \in 1 .. Len(cs) : ls[k].kind = "If" => cs[k].kind = "If" /\ cs[k].else_index = Unset

JumpsKnown ==
  /\ Traced(ops, valid)
  /\ JumpsTracked(ops, instruction_offsets, lowering.control_stack, lowering.instructions)
  /\ IfsMatch(lowering.control_stack, valid.labels)

(* No label is left, and every jump of the resolved code has its place.     *)
JumpsLanded ==
  /\ Traced(ops, valid) /\ valid.labels = <<>> /\ lowering.control_stack = <<>>
  /\ Offsets(ops, instruction_offsets, lowering.instructions)
  /\ \A i \in 1 .. Len(lowering.instructions) :
       JumpLands(ops, instruction_offsets, lowering.control_stack, lowering.instructions,
                 lowering.instructions[i], i - 1)

JumpsInv ==
  /\ LoweringInv
  /\ status = "lowering" => JumpsKnown
  /\ status = "lowered" => JumpsLanded

-----------------------------------------------------------------------------
(* What the helpers of the rules emit is no jump.                           *)

Still(x) == "op" \in DOMAIN x /\ x.op \notin Jumping

Continues(is, js) ==
  /\ IsSeq(is) /\ IsSeq(js) /\ Len(is) <= Len(js)
  /\ \A i \in 1 .. Len(is) : js[i] = is[i]
  /\ \A i \in Len(is) + 1 .. Len(js) : Still(js[i])

(* M is L with labels kept and no jump added.                               *)
Calm(L, M) ==
  /\ Formed(M) /\ M.control_stack = L.control_stack
  /\ Continues(L.instructions, M.instructions)

LEMMA ContinuesItself ==
  ASSUME NEW is, IsSeq(is)
  PROVE  Continues(is, is)
BY DEF Continues, IsSeq

LEMMA ContinuesChain ==
  ASSUME NEW is, NEW js, NEW ks, Continues(is, js), Continues(js, ks)
  PROVE  Continues(is, ks)
<1>1. PICK l \in Nat, m \in Nat, n \in Nat : l = Len(is) /\ m = Len(js) /\ n = Len(ks)
  BY DEF Continues, IsSeq
<1>2. l <= m /\ m <= n
  BY <1>1 DEF Continues
<1>3. ASSUME NEW i \in 1 .. l
      PROVE  ks[i] = is[i]
  <2>1. i \in 1 .. m
    BY <1>2
  <2> QED
    BY <1>1, <2>1 DEF Continues
<1>4. ASSUME NEW i \in l + 1 .. n
      PROVE  Still(ks[i])
  <2>1. CASE i \in 1 .. m
    <3>1. i \in l + 1 .. m
      BY <2>1
    <3>2. Still(js[i]) /\ ks[i] = js[i]
      BY <1>1, <2>1, <3>1 DEF Continues
    <3> QED
      BY <3>2
  <2>2. CASE i \notin 1 .. m
    <3>1. i \in m + 1 .. n
      BY <2>2
    <3> QED
      BY <1>1, <3>1 DEF Continues
  <2> QED
    BY <2>1, <2>2
<1>5. IsSeq(is) /\ IsSeq(ks) /\ l <= n
  BY <1>2 DEF Continues
<1> QED
  BY <1>1, <1>3, <1>4, <1>5 DEF Continues

LEMMA CalmChain ==
  ASSUME NEW L, NEW M, NEW N, Calm(L, M), Calm(M, N)
  PROVE  Calm(L, N)
BY ContinuesChain DEF Calm

LEMMA CalmItself ==
  ASSUME NEW L, Formed(L)
  PROVE  Calm(L, L)
BY ContinuesItself DEF Calm, Formed

LEMMA EmitShape ==
  ASSUME NEW L, Formed(L), NEW x, NEW M, M = emit(L, x)
  PROVE  /\ Formed(M) /\ M.control_stack = L.control_stack
         /\ M.instructions = Append(L.instructions, x)
<1>1. IsSeq(Append(L.instructions, x))
  BY AppendIsSeq DEF Formed
<1>2. PICK q : q = Append(L.instructions, x)
  OBVIOUS
<1> QED
  BY <1>1, <1>2 DEF Formed, emit

LEMMA EmitCalm ==
  ASSUME NEW L, Formed(L), NEW x, Still(x), NEW M, M = emit(L, x)
  PROVE  Calm(L, M) /\ len(M) = len(L) + 1
<1>1. /\ Formed(M) /\ M.control_stack = L.control_stack
      /\ M.instructions = Append(L.instructions, x)
  BY EmitShape
<1>2. PICK is, js : is = L.instructions /\ js = M.instructions
  OBVIOUS
<1>3. IsSeq(is) /\ Longer(is, x, js)
  BY <1>1, <1>2, AppendLonger DEF Formed
<1>4. PICK n \in Nat : n = Len(is)
  BY <1>3 DEF IsSeq
<1>5. /\ IsSeq(js) /\ Len(js) = n + 1 /\ js[n + 1] = x
      /\ \A i \in 1 .. n : js[i] = is[i]
  BY <1>1, <1>2, <1>3, <1>4 DEF Longer, Formed
<1>6. ASSUME NEW i \in n + 1 .. n + 1
      PROVE  Still(js[i])
  BY <1>5
<1>7. Continues(is, js)
  BY <1>3, <1>4, <1>5, <1>6 DEF Continues
<1> QED
  BY <1>1, <1>2, <1>4, <1>5, <1>7 DEF Calm, len

(* ... and no more than the stack changes.                                  *)
LEMMA SimCalm ==
  ASSUME NEW L, Formed(L), NEW s, NEW M, M = [L EXCEPT !.sim = s]
  PROVE  Calm(L, M) /\ M.instructions = L.instructions
<1>1. Formed(M) /\ M.control_stack = L.control_stack /\ M.instructions = L.instructions
  BY DEF Formed
<1> QED
  BY <1>1, ContinuesItself DEF Calm, Formed

LEMMA EffectsCalm ==
  ASSUME NEW L, Formed(L), NEW pops, NEW pushes, NEW source,
         NEW M, M = pops_and_pushes_registers(L, pops, pushes, source)
  PROVE  Calm(L, M) /\ M.instructions = L.instructions
<1>1. PICK R : R = record_run(L, source, top_locations(L.sim, pops))
  OBVIOUS
<1>2. /\ Formed(R) /\ R.control_stack = L.control_stack
      /\ R.instructions = L.instructions
  BY <1>1, RecordGood
<1>3. PICK s : M = [R EXCEPT !.sim = s]
  BY <1>1 DEF pops_and_pushes_registers
<1>4. Calm(R, M) /\ M.instructions = R.instructions
  BY <1>2, <1>3, SimCalm
<1> QED
  BY <1>2, <1>4 DEF Calm

LEMMA MaterializeCalm ==
  ASSUME NEW L, Formed(L), NEW n, NEW M, M = materialize(L, n)
  PROVE  Calm(L, M) /\ len(M) = IF n = 0 THEN len(L) ELSE len(L) + 1
<1>1. CASE n = 0
  BY <1>1, CalmItself DEF materialize
<1>2. CASE n # 0
  <2>1. PICK P : P = pops_and_pushes_registers(L, n, n, "Emit")
    OBVIOUS
  <2>2. Calm(L, P) /\ P.instructions = L.instructions
    BY <2>1, EffectsCalm
  <2>3. PICK x : M = emit(P, x) /\ x = Move(output_start(L, n))
    BY <1>2, <2>1 DEF materialize
  <2>4. Still(x)
    BY <2>3 DEF Still, Jumping, Move
  <2>5. Calm(P, M) /\ len(M) = len(P) + 1
    BY <2>2, <2>3, <2>4, EmitCalm DEF Calm
  <2> QED
    BY <1>2, <2>2, <2>5, CalmChain DEF len
<1> QED
  BY <1>1, <1>2

LEMMA RescueCalm ==
  ASSUME NEW L, Formed(L), NEW x, NEW M, M = rescue(L, x)
  PROVE  Calm(L, M)
<1>1. CASE ~borrowed(L.sim, x)
  BY <1>1, CalmItself DEF rescue
<1>2. CASE borrowed(L.sim, x)
  <2>1. PICK s : s = set_lazy(L.sim, x)
    OBVIOUS
  <2>2. PICK P : P = [L EXCEPT !.sim = s]
    OBVIOUS
  <2>3. Calm(L, P)
    BY <2>2, SimCalm
  <2>4. PICK y : M = emit(P, y) /\ y = LocalSpillInstr(x, reserved(L.sim))
    BY <1>2, <2>1, <2>2 DEF rescue
  <2>5. Still(y)
    BY <2>4 DEF Still, Jumping, LocalSpillInstr
  <2>6. Calm(P, M)
    BY <2>3, <2>4, <2>5, EmitCalm DEF Calm
  <2> QED
    BY <2>3, <2>6, CalmChain
<1> QED
  BY <1>1, <1>2

LEMMA SpillLiveCalm ==
  ASSUME NEW L, Formed(L), NEW M, M = spill_live_locals(L)
  PROVE  Calm(L, M)
<1>1. PICK f : IsRescues(f, L, LocalsCount) /\ M = f[LocalsCount]
  BY RescuesDefined
<1>2. LocalsCount \in Nat
  BY LimitsAssumption
<1> DEFINE S == {k \in 0 .. LocalsCount : Calm(L, f[k])}
<1>3. 0 \in S
  BY <1>1, <1>2, CalmItself DEF IsRescues
<1>4. ASSUME NEW k \in 0 .. LocalsCount, k \in S, k < LocalsCount
      PROVE  k + 1 \in S
  <2>1. k + 1 \in 0 .. LocalsCount /\ f[k + 1] = rescue(f[k], k)
    BY <1>1, <1>2, <1>4 DEF IsRescues
  <2>2. Calm(L, f[k]) /\ Formed(f[k])
    BY <1>4 DEF Calm
  <2>3. Calm(f[k], f[k + 1])
    BY <2>1, <2>2, RescueCalm
  <2> QED
    BY <2>1, <2>2, <2>3, CalmChain
<1>5. 0 .. LocalsCount \subseteq S
  <2> HIDE DEF S
  <2> QED
    BY <1>2, <1>3, <1>4, CountingTo
<1> QED
  BY <1>1, <1>2, <1>5

LEMMA TruncationCalm ==
  ASSUME NEW L, Formed(L), NEW base, NEW arity, NEW source,
         NEW M, M = br_truncation_registers(L, base, arity, source)
  PROVE  Calm(L, M) /\ M.instructions = L.instructions
<1>1. PICK R : R = IF arity = 0 THEN L ELSE record_run(L, source, top_locations(L.sim, arity))
  OBVIOUS
<1>2. /\ Formed(R) /\ R.control_stack = L.control_stack
      /\ R.instructions = L.instructions
  BY <1>1, RecordGood
<1>3. M = R \/ \E s : M = [R EXCEPT !.sim = s]
  <2>1. \A p : [R EXCEPT !.sim.max_registers = p] =
               [R EXCEPT !.sim = [R.sim EXCEPT !.max_registers = p]]
    BY <1>2 DEF Formed
  <2> QED
    BY <1>1, <2>1 DEF br_truncation_registers
<1>4. Calm(R, M) /\ M.instructions = R.instructions
  <2>1. CASE M = R
    BY <1>2, <2>1, CalmItself
  <2>2. CASE \E s : M = [R EXCEPT !.sim = s]
    BY <1>2, <2>2, SimCalm
  <2> QED
    BY <1>3, <2>1, <2>2
<1> QED
  BY <1>2, <1>4 DEF Calm

LEMMA ResetCalm ==
  ASSUME NEW L, Formed(L), NEW M, M = reset_enclosing_block_layout(L)
  PROVE  Calm(L, M) /\ M.instructions = L.instructions
<1>1. PICK s : M = [L EXCEPT !.sim = s]
  BY DEF reset_enclosing_block_layout
<1> QED
  BY <1>1, SimCalm

-----------------------------------------------------------------------------
(* The jumps that are there stay tracked as operators are read.             *)

(* The body q becomes r with one operator more.                             *)
Extends(q, r) ==
  /\ Len(q) \in Nat /\ Len(r) = Len(q) + 1
  /\ \A i \in 1 .. Len(q) : r[i] = q[i]
  /\ \A i \in 0 .. Len(q) : DepthAt(r)[i] = DepthAt(q)[i]
  /\ \A p, i, k : OpenAt(q, p, i, k) => OpenAt(r, p, i, k)
  /\ \A p, e, k : ClosedAt(q, p, e, k) => ClosedAt(r, p, e, k)
  /\ \A p \in Nat : \A e \in 0 .. Len(q) : \A k, y :
       ElseIs(q, p, e, k, y) => ElseIs(r, p, e, k, y)
  /\ \A p \in 0 .. Len(q) : IsLoop(r, p) = IsLoop(q, p)

(* It leaves the first m labels open, and gives them no else.               *)
StayOpen(q, r, m) ==
  \A k \in 1 .. m : \A p : OpenAt(q, p, Len(q), k) => OpenAt(r, p, Len(r), k)

StayElse(q, r, m) ==
  \A k \in 1 .. m : \A p \in 0 .. Len(q) : \A y :
    ElseIs(q, p, Len(q), k, y) => ElseIs(r, p, Len(r), k, y)

LEMMA BodyExtends ==
  ASSUME NEW q, IsSeq(q), NEW o, NEW r, r = Append(q, o)
  PROVE  Extends(q, r)
<1>1. /\ Len(r) = Len(q) + 1 /\ Len(q) \in Nat
      /\ \A i \in 1 .. Len(q) : r[i] = q[i]
  BY AppendReads
<1>2. \A i \in 0 .. Len(q) : DepthAt(r)[i] = DepthAt(q)[i]
  <2>1. Grown(DepthAt(q), DepthAt(r), Len(q), o)
    BY DepthExtends
  <2> QED
    BY <2>1 DEF Grown
<1>3. \A p, i, k : OpenAt(q, p, i, k) => OpenAt(r, p, i, k)
  BY OpenExtends
<1>4. \A p, e, k : ClosedAt(q, p, e, k) => ClosedAt(r, p, e, k)
  BY ClosedExtends
<1>5. \A p \in Nat : \A e \in 0 .. Len(q) : \A k, y :
        ElseIs(q, p, e, k, y) => ElseIs(r, p, e, k, y)
  BY ElseExtends
<1>6. \A p \in 0 .. Len(q) : IsLoop(r, p) = IsLoop(q, p)
  BY LoopExtends
<1> QED
  BY <1>1, <1>2, <1>3, <1>4, <1>5, <1>6 DEF Extends

LEMMA LabelsStayOpen ==
  ASSUME NEW q, IsSeq(q), NEW o, NEW r, r = Append(q, o), NEW m \in Nat,
         DepthAt(q)[Len(q)] + Delta(o) >= m
  PROVE  StayOpen(q, r, m)
<1>1. SUFFICES ASSUME NEW k \in 1 .. m, NEW p, OpenAt(q, p, Len(q), k)
               PROVE  OpenAt(r, p, Len(r), k)
  BY DEF StayOpen
<1>2. PICK d \in Int, c \in Int : d = DepthAt(q)[Len(q)] /\ c = Delta(o)
  <2>1. Len(q) \in Nat /\ Len(q) \in 0 .. Len(q)
    BY DEF IsSeq
  <2>2. DepthAt(q)[Len(q)] \in Int
    BY <2>1, DepthSteps
  <2> QED
    BY <2>2 DEF Delta
<1>3. d + c >= k
  BY <1>2
<1>4. OpenAt(r, p, Len(q) + 1, k)
  BY <1>1, <1>2, <1>3, OpenGrows
<1> QED
  BY <1>4, AppendReads

LEMMA LabelsStayElse ==
  ASSUME NEW q, IsSeq(q), NEW o, NEW r, r = Append(q, o), NEW m \in Nat,
         o.op = "Else" => DepthAt(q)[Len(q)] > m
  PROVE  StayElse(q, r, m)
<1>1. SUFFICES ASSUME NEW k \in 1 .. m, NEW p \in 0 .. Len(q), NEW y, ElseIs(q, p, Len(q), k, y)
               PROVE  ElseIs(r, p, Len(r), k, y)
  BY DEF StayElse
<1>2. ~ (o.op = "Else" /\ DepthAt(r)[Len(q) + 1] = k)
  <2>1. SUFFICES ASSUME o.op = "Else"
                 PROVE  DepthAt(r)[Len(q) + 1] # k
    OBVIOUS
  <2>2. Len(q) \in Nat /\ Len(q) \in 0 .. Len(q)
    BY DEF IsSeq
  <2>3. PICK d \in Int : d = DepthAt(q)[Len(q)]
    BY <2>2, DepthSteps
  <2>4. DepthAt(r)[Len(q) + 1] = d + 0
    <3>1. Grown(DepthAt(q), DepthAt(r), Len(q), o)
      BY DepthExtends
    <3>2. Delta(o) = 0
      BY <2>1 DEF Delta, Opens, Openers
    <3> QED
      BY <2>3, <3>1, <3>2 DEF Grown
  <2> QED
    BY <2>1, <2>3, <2>4
<1>3. ElseIs(r, p, Len(q) + 1, k, y)
  BY <1>1, <1>2, ElseGrows
<1> QED
  BY <1>3, AppendReads

(* js has the instructions of is, patched perhaps, and perhaps more.        *)
SameNames(is, js) ==
  /\ Len(is) \in Nat /\ Len(js) \in Nat /\ Len(is) <= Len(js)
  /\ \A i \in 1 .. Len(is) : js[i].op = is[i].op

(* Those it has more come from operator n.                                  *)
Dated(os, is, ps, js, n) ==
  /\ IsSeq(ps) /\ Len(ps) = Len(js)
  /\ \A i \in 1 .. Len(is) : ps[i] = os[i]
  /\ \A i \in Len(is) + 1 .. Len(js) : ps[i] = n

(* The next operator is read, and its instructions are emitted.             *)
Goes(q, os, is, r, ps, js) ==
  /\ Offsets(q, os, is) /\ Extends(q, r)
  /\ SameNames(is, js) /\ Dated(os, is, ps, js, Len(r))

LEMMA BecameStill ==
  ASSUME NEW q, NEW os, NEW is, NEW r, NEW ps, NEW js, Goes(q, os, is, r, ps, js),
         NEW t, NEW p, Became(q, os, is, t, p)
  PROVE  Became(r, ps, js, t, p)
<1>1. PICK m \in Nat, n \in Nat : m = Len(is) /\ n = Len(js) /\ m <= n
  BY DEF Goes, SameNames
<1>2. t \in 0 .. m - 1 /\ os[t + 1] = p /\ is[t + 1].op = q[p].op
  BY <1>1 DEF Became
<1>3. t \in 0 .. n - 1 /\ t + 1 \in 1 .. m
  BY <1>1, <1>2
<1>4. js[t + 1].op = is[t + 1].op /\ ps[t + 1] = os[t + 1] /\ os[t + 1] \in 1 .. Len(q)
  BY <1>1, <1>3 DEF Goes, SameNames, Dated, Offsets
<1>5. r[p] = q[p]
  BY <1>2, <1>4 DEF Goes, Extends
<1> QED
  BY <1>1, <1>2, <1>3, <1>4, <1>5 DEF Became

LEMMA ElseKnownStill ==
  ASSUME NEW q, NEW os, NEW is, NEW r, NEW ps, NEW js, Goes(q, os, is, r, ps, js),
         NEW t, NEW y, ElseKnown(q, os, is, t, y)
  PROVE  ElseKnown(r, ps, js, t, y)
BY BecameStill DEF ElseKnown

(* ds has the labels of cs, with what they know and what they owe the first *)
(* n instructions, and perhaps more.                                        *)
Kept(cs, ds, n) ==
  /\ Len(cs) <= Len(ds)
  /\ \A k \in 1 .. Len(cs) :
       /\ ds[k].kind = cs[k].kind /\ ds[k].index = cs[k].index
       /\ cs[k].else_index # Unset => ds[k].else_index = cs[k].else_index
  /\ \A i \in 0 .. n - 1 : \A arm : Awaited(ds, i, arm) = Awaited(cs, i, arm)

(* The instructions of is are the first of js.                              *)
Starts(is, js) ==
  /\ Len(is) \in Nat /\ Len(js) \in Nat /\ Len(is) <= Len(js)
  /\ \A i \in 1 .. Len(is) : js[i] = is[i]

LEMMA StartsNames ==
  ASSUME NEW is, NEW js, Starts(is, js)
  PROVE  SameNames(is, js)
BY DEF Starts, SameNames

LEMMA LabelStill ==
  ASSUME NEW q, NEW os, NEW is, NEW r, NEW ps, NEW js, Goes(q, os, is, r, ps, js),
         NEW m, StayOpen(q, r, m), StayElse(q, r, m), NEW k \in 1 .. m,
         NEW b, LabelKnows(q, os, is, b, k),
         NEW c, c.kind = b.kind, c.index = b.index, c.else_index = b.else_index
  PROVE  LabelKnows(r, ps, js, c, k)
<1>1. PICK p : /\ OpenAt(q, p, Len(q), k) /\ (b.kind = "Loop" <=> IsLoop(q, p))
               /\ b.kind \in {"Loop", "If"} => Became(q, os, is, b.index, p)
               /\ b.kind = "If" => p # 0 /\ \E y : /\ ElseIs(q, p, Len(q), k, y)
                                                   /\ ElseKnown(q, os, is, b.else_index, y)
  BY DEF LabelKnows
<1>2. p \in 0 .. Len(q)
  BY <1>1 DEF OpenAt
<1>3. OpenAt(r, p, Len(r), k) /\ IsLoop(r, p) = IsLoop(q, p)
  BY <1>1, <1>2 DEF StayOpen, Goes, Extends
<1>4. b.kind \in {"Loop", "If"} => Became(r, ps, js, b.index, p)
  BY <1>1, BecameStill
<1>5. ASSUME b.kind = "If"
      PROVE  p # 0 /\ \E y : /\ ElseIs(r, p, Len(r), k, y)
                             /\ ElseKnown(r, ps, js, b.else_index, y)
  <2>1. PICK y : ElseIs(q, p, Len(q), k, y) /\ ElseKnown(q, os, is, b.else_index, y)
    BY <1>1, <1>5
  <2>2. ElseIs(r, p, Len(r), k, y)
    BY <1>2, <2>1 DEF StayElse
  <2>3. ElseKnown(r, ps, js, b.else_index, y)
    BY <2>1, ElseKnownStill
  <2> QED
    BY <1>1, <1>5, <2>2, <2>3
<1> QED
  BY <1>1, <1>3, <1>4, <1>5 DEF LabelKnows

(* The branch at index i is still owed its place, or has it.                *)
LEMMA LandsStill ==
  ASSUME NEW q, NEW os, NEW is, NEW r, NEW ps, NEW js, Goes(q, os, is, r, ps, js),
         NEW cs, NEW ds, Len(cs) \in Nat, StayOpen(q, r, Len(cs)), Kept(cs, ds, Len(is)),
         NEW i \in 0 .. Len(is) - 1, NEW arm, NEW t, NEW k, Lands(q, os, cs, is, t, i, arm, k)
  PROVE  Lands(r, ps, ds, js, t, i, arm, k)
<1>1. PICK p : /\ OpenAt(q, p, os[i + 1] - 1, k)
               /\ \/ IsLoop(q, p) /\ Became(q, os, is, t, p) /\ Awaited(cs, i, arm) = {}
                  \/ ~IsLoop(q, p) /\ OpenAt(q, p, Len(q), k) /\ Awaited(cs, i, arm) = {k}
                  \/ /\ ~IsLoop(q, p) /\ Awaited(cs, i, arm) = {}
                     /\ \E e \in 1 .. Len(q) : ClosedAt(q, p, e, k) /\ Became(q, os, is, t, e)
  BY DEF Lands
<1>2. Awaited(ds, i, arm) = Awaited(cs, i, arm)
  BY DEF Kept
<1>3. os[i + 1] \in 1 .. Len(q) /\ ps[i + 1] = os[i + 1]
  <2>1. i + 1 \in 1 .. Len(is)
    BY DEF Goes, SameNames
  <2> QED
    BY <2>1 DEF Goes, Offsets, Dated
<1>4. OpenAt(r, p, ps[i + 1] - 1, k)
  BY <1>1, <1>3 DEF Goes, Extends
<1>5. IsLoop(r, p) = IsLoop(q, p)
  <2>1. p \in 0 .. Len(q)
    <3>1. os[i + 1] - 1 \in 0 .. Len(q) /\ p \in 0 .. os[i + 1] - 1
      BY <1>1 DEF OpenAt
    <3> QED
      BY <3>1 DEF Goes, Extends
  <2> QED
    BY <2>1 DEF Goes, Extends
<1>6. CASE IsLoop(q, p) /\ Became(q, os, is, t, p) /\ Awaited(cs, i, arm) = {}
  <2>1. Became(r, ps, js, t, p)
    BY <1>6, BecameStill
  <2> QED
    BY <1>2, <1>4, <1>5, <1>6, <2>1 DEF Lands
<1>7. CASE ~IsLoop(q, p) /\ OpenAt(q, p, Len(q), k) /\ Awaited(cs, i, arm) = {k}
  <2>1. k \in 1 .. Len(cs)
    BY <1>7 DEF Awaited
  <2>2. OpenAt(r, p, Len(r), k)
    BY <1>7, <2>1 DEF StayOpen
  <2> QED
    BY <1>2, <1>4, <1>5, <1>7, <2>2 DEF Lands
<1>8. CASE /\ ~IsLoop(q, p) /\ Awaited(cs, i, arm) = {}
           /\ \E e \in 1 .. Len(q) : ClosedAt(q, p, e, k) /\ Became(q, os, is, t, e)
  <2>1. PICK e \in 1 .. Len(q) : ClosedAt(q, p, e, k) /\ Became(q, os, is, t, e)
    BY <1>8
  <2>2. ClosedAt(r, p, e, k) /\ Became(r, ps, js, t, e)
    BY <2>1, BecameStill DEF Goes, Extends
  <2>3. e \in 1 .. Len(r)
    BY <2>2 DEF ClosedAt
  <2> QED
    BY <1>2, <1>4, <1>5, <1>8, <2>2, <2>3 DEF Lands
<1> QED
  BY <1>1, <1>6, <1>7, <1>8

LEMMA IfStill ==
  ASSUME NEW q, NEW os, NEW is, NEW r, NEW ps, NEW js, Goes(q, os, is, r, ps, js),
         NEW cs, NEW ds, Len(cs) \in Nat, Len(ds) \in Nat, StayOpen(q, r, Len(cs)),
         Kept(cs, ds, Len(is)), NEW i \in 0 .. Len(is) - 1,
         NEW x, IfLands(q, os, cs, is, x, i)
  PROVE  IfLands(r, ps, ds, js, x, i)
<1>1. os[i + 1] \in 1 .. Len(q) /\ ps[i + 1] = os[i + 1]
  <2>1. i + 1 \in 1 .. Len(is)
    BY DEF Goes, SameNames
  <2> QED
    BY <2>1 DEF Goes, Offsets, Dated
<1>2. PICK k : \/ /\ k \in 1 .. Len(cs) /\ OpenAt(q, os[i + 1], Len(q), k)
                  /\ cs[k].kind = "If" /\ cs[k].index = i
               \/ \E e \in 1 .. Len(q) : \E y :
                    /\ ClosedAt(q, os[i + 1], e, k) /\ Became(q, os, is, x.end_index, e)
                    /\ ElseIs(q, os[i + 1], e, k, y) /\ ElseKnown(q, os, is, x.else_index, y)
  BY DEF IfLands
<1>3. CASE /\ k \in 1 .. Len(cs) /\ OpenAt(q, os[i + 1], Len(q), k)
           /\ cs[k].kind = "If" /\ cs[k].index = i
  <2>1. k \in 1 .. Len(ds) /\ ds[k].kind = "If" /\ ds[k].index = i
    BY <1>3 DEF Kept
  <2>2. OpenAt(r, ps[i + 1], Len(r), k)
    BY <1>1, <1>3 DEF StayOpen
  <2> QED
    BY <2>1, <2>2 DEF IfLands
<1>4. CASE \E e \in 1 .. Len(q) : \E y :
             /\ ClosedAt(q, os[i + 1], e, k) /\ Became(q, os, is, x.end_index, e)
             /\ ElseIs(q, os[i + 1], e, k, y) /\ ElseKnown(q, os, is, x.else_index, y)
  <2>0. PICK e \in 1 .. Len(q) : \E y :
               /\ ClosedAt(q, os[i + 1], e, k) /\ Became(q, os, is, x.end_index, e)
               /\ ElseIs(q, os[i + 1], e, k, y) /\ ElseKnown(q, os, is, x.else_index, y)
    BY <1>4
  <2>1. PICK y :
               /\ ClosedAt(q, os[i + 1], e, k) /\ Became(q, os, is, x.end_index, e)
               /\ ElseIs(q, os[i + 1], e, k, y) /\ ElseKnown(q, os, is, x.else_index, y)
    BY <2>0
  <2>2. ClosedAt(r, ps[i + 1], e, k) /\ e \in 1 .. Len(r)
    BY <1>1, <2>1 DEF Goes, Extends, ClosedAt
  <2>3. Became(r, ps, js, x.end_index, e) /\ ElseKnown(r, ps, js, x.else_index, y)
    BY <2>1, BecameStill, ElseKnownStill
  <2>4. ElseIs(r, ps[i + 1], e, k, y)
    <3>1. os[i + 1] \in Nat /\ e \in 0 .. Len(q)
      BY <1>1, <2>1
    <3> QED
      BY <1>1, <2>1, <3>1 DEF Goes, Extends
  <2> QED
    BY <2>2, <2>3, <2>4 DEF IfLands
<1> QED
  BY <1>2, <1>3, <1>4

LEMMA ElseStill ==
  ASSUME NEW q, NEW os, NEW is, NEW r, NEW ps, NEW js, Goes(q, os, is, r, ps, js),
         NEW cs, NEW ds, Len(cs) \in Nat, Len(ds) \in Nat, StayOpen(q, r, Len(cs)),
         Kept(cs, ds, Len(is)), NEW i \in 0 .. Len(is) - 1,
         NEW x, ElseLands(q, os, cs, is, x, i)
  PROVE  ElseLands(r, ps, ds, js, x, i)
<1>1. os[i + 1] \in 1 .. Len(q) /\ ps[i + 1] = os[i + 1]
  <2>1. i + 1 \in 1 .. Len(is)
    BY DEF Goes, SameNames
  <2> QED
    BY <2>1 DEF Goes, Offsets, Dated
<1>2. PICK k : k = DepthAt(q)[os[i + 1]]
  OBVIOUS
<1>3. k = DepthAt(r)[ps[i + 1]]
  <2>1. os[i + 1] \in 0 .. Len(q)
    BY <1>1
  <2> QED
    BY <1>1, <1>2, <2>1 DEF Goes, Extends
<1>4. PICK p : /\ p # 0 /\ OpenAt(q, p, os[i + 1] - 1, k)
               /\ \/ /\ k \in 1 .. Len(cs) /\ OpenAt(q, p, Len(q), k)
                     /\ cs[k].kind = "If" /\ cs[k].else_index = i
                  \/ \E e \in 1 .. Len(q) :
                       ClosedAt(q, p, e, k) /\ Became(q, os, is, x.end_index, e)
  BY <1>2 DEF ElseLands
<1>5. OpenAt(r, p, ps[i + 1] - 1, k)
  BY <1>1, <1>4 DEF Goes, Extends
<1>6. CASE /\ k \in 1 .. Len(cs) /\ OpenAt(q, p, Len(q), k)
           /\ cs[k].kind = "If" /\ cs[k].else_index = i
  <2>1. i # Unset
    BY DEF Unset, Goes, SameNames
  <2>2. k \in 1 .. Len(ds) /\ ds[k].kind = "If" /\ ds[k].else_index = i
    BY <1>6, <2>1 DEF Kept
  <2>3. OpenAt(r, p, Len(r), k)
    BY <1>6 DEF StayOpen
  <2> QED
    BY <1>3, <1>4, <1>5, <2>2, <2>3 DEF ElseLands
<1>7. CASE \E e \in 1 .. Len(q) : ClosedAt(q, p, e, k) /\ Became(q, os, is, x.end_index, e)
  <2>1. PICK e \in 1 .. Len(q) : ClosedAt(q, p, e, k) /\ Became(q, os, is, x.end_index, e)
    BY <1>7
  <2>2. ClosedAt(r, p, e, k) /\ e \in 1 .. Len(r)
    BY <2>1 DEF Goes, Extends, ClosedAt
  <2>3. Became(r, ps, js, x.end_index, e)
    BY <2>1, BecameStill
  <2> QED
    BY <1>3, <1>4, <1>5, <2>2, <2>3 DEF ElseLands
<1> QED
  BY <1>4, <1>6, <1>7

LEMMA JumpLandsStill ==
  ASSUME NEW q, NEW os, NEW is, NEW r, NEW ps, NEW js, Goes(q, os, is, r, ps, js),
         NEW cs, NEW ds, Len(cs) \in Nat, Len(ds) \in Nat, StayOpen(q, r, Len(cs)),
         Kept(cs, ds, Len(is)), NEW i \in 0 .. Len(is) - 1,
         NEW x, JumpLands(q, os, cs, is, x, i)
  PROVE  JumpLands(r, ps, ds, js, x, i)
<1>1. os[i + 1] \in 1 .. Len(q) /\ ps[i + 1] = os[i + 1]
  <2>1. i + 1 \in 1 .. Len(is)
    BY DEF Goes, SameNames
  <2> QED
    BY <2>1 DEF Goes, Offsets, Dated
<1>2. PICK o, d : o = q[os[i + 1]] /\ d = DepthAt(q)[os[i + 1] - 1]
  OBVIOUS
<1>3. o = r[ps[i + 1]] /\ d = DepthAt(r)[ps[i + 1] - 1]
  <2>1. os[i + 1] - 1 \in 0 .. Len(q)
    BY <1>1 DEF Goes, Extends
  <2> QED
    BY <1>1, <1>2, <2>1 DEF Goes, Extends
<1>4. \A t, arm, k : Lands(q, os, cs, is, t, i, arm, k) => Lands(r, ps, ds, js, t, i, arm, k)
  BY LandsStill
<1>5. x.op = "If" => IfLands(r, ps, ds, js, x, i)
  BY IfStill DEF JumpLands
<1>6. x.op = "Else" => ElseLands(r, ps, ds, js, x, i)
  BY ElseStill DEF JumpLands
<1>7. /\ x.op \in Jumping => o.op = x.op
      /\ x.op \in {"Br", "BrIf"} => Lands(q, os, cs, is, x.target_index, i, 0, d - o.x)
      /\ x.op = "BrTable" =>
           /\ DOMAIN x.br_targets = DOMAIN o.arms
           /\ \A j \in DOMAIN x.br_targets :
                Lands(q, os, cs, is, x.br_targets[j].target_index, i, j, d - o.arms[j])
      /\ x.op = "Return" => Lands(q, os, cs, is, x.target_index, i, 0, 1)
  BY <1>2 DEF JumpLands
<1>8. /\ x.op \in Jumping => o.op = x.op
      /\ x.op \in {"Br", "BrIf"} => Lands(r, ps, ds, js, x.target_index, i, 0, d - o.x)
      /\ x.op = "BrTable" =>
           /\ DOMAIN x.br_targets = DOMAIN o.arms
           /\ \A j \in DOMAIN x.br_targets :
                Lands(r, ps, ds, js, x.br_targets[j].target_index, i, j, d - o.arms[j])
      /\ x.op = "Return" => Lands(r, ps, ds, js, x.target_index, i, 0, 1)
  BY <1>4, <1>7
<1> QED
  BY <1>3, <1>5, <1>6, <1>8 DEF JumpLands

(* The labels ds are those of cs, or more.                                  *)
Widens(cs, ds, n) ==
  /\ Len(cs) \in Nat \ {0} /\ cs # <<>> /\ Len(ds) \in Nat
  /\ Kept(cs, ds, n)

(* So a rule keeps the jumps tracked when the one it adds is, and the       *)
(* labels know what they should.                                            *)
LEMMA TrackedStill ==
  ASSUME NEW q, NEW os, NEW is, NEW r, NEW ps, NEW js, Goes(q, os, is, r, ps, js),
         NEW cs, NEW ds, Widens(cs, ds, Len(is)), StayOpen(q, r, Len(cs)),
         JumpsTracked(q, os, cs, is), Starts(is, js), IsSeq(js),
         \A k \in 1 .. Len(ds) : LabelKnows(r, ps, js, ds[k], k),
         \A i \in Len(is) + 1 .. Len(js) :
           Wellmade(js[i]) /\ JumpLands(r, ps, ds, js, js[i], i - 1),
         \A i, arm : i \notin 0 .. Len(js) - 1 => Awaited(ds, i, arm) = {}
  PROVE  JumpsTracked(r, ps, ds, js)
<1>1. ds[1].kind = "Func"
  <2>1. 1 \in 1 .. Len(cs)
    BY DEF Widens
  <2> QED
    BY <2>1 DEF Widens, Kept, JumpsTracked
<1>2. PICK m \in Nat, n \in Nat, l \in Nat :
        m = Len(is) /\ n = Len(js) /\ m <= n /\ l = Len(q) /\ Len(r) = l + 1
  BY DEF Starts, Goes, Extends
<1>3. ASSUME NEW i \in 1 .. n
      PROVE  /\ Wellmade(js[i]) /\ JumpLands(r, ps, ds, js, js[i], i - 1)
             /\ ps[i] \in 1 .. l + 1
  <2>1. CASE i \in 1 .. m
    <3>1. js[i] = is[i] /\ Wellmade(is[i]) /\ JumpLands(q, os, cs, is, is[i], i - 1)
      BY <1>2, <2>1 DEF Starts, JumpsTracked
    <3>2. PICK j \in 0 .. m - 1 : j = i - 1
      BY <2>1
    <3>3. PICK x : x = is[i]
      OBVIOUS
    <3>4. JumpLands(r, ps, ds, js, x, j)
      BY <1>2, <3>1, <3>2, <3>3, JumpLandsStill DEF Widens
    <3>5. ps[i] = os[i] /\ os[i] \in 1 .. l
      BY <1>2, <2>1 DEF Goes, Dated, Offsets
    <3> QED
      BY <3>1, <3>2, <3>3, <3>4, <3>5
  <2>2. CASE i \notin 1 .. m
    <3>1. i \in m + 1 .. n
      BY <1>2, <2>2
    <3>2. ps[i] = l + 1
      BY <1>2, <3>1 DEF Goes, Dated
    <3> QED
      BY <1>2, <3>1, <3>2
  <2> QED
    BY <2>1, <2>2
<1>4. Offsets(r, ps, js)
  BY <1>2, <1>3 DEF Offsets, Goes, Dated
<1> QED
  BY <1>1, <1>2, <1>3, <1>4 DEF JumpsTracked

LEMMA StillLands ==
  ASSUME NEW x, Still(x), NEW q, NEW os, NEW cs, NEW is, NEW i
  PROVE  Wellmade(x) /\ JumpLands(q, os, cs, is, x, i)
BY DEF Still, Jumping, Wellmade, JumpLands

LEMMA ContinuesStarts ==
  ASSUME NEW is, NEW js, Continues(is, js)
  PROVE  Starts(is, js)
BY DEF Continues, Starts, IsSeq

(* Of what a rule adds only a last instruction may be a jump.               *)
LEMMA TrackedCalm ==
  ASSUME NEW q, NEW os, NEW is, NEW r, NEW ps, NEW js, Goes(q, os, is, r, ps, js),
         NEW cs, NEW ds, Widens(cs, ds, Len(is)), StayOpen(q, r, Len(cs)),
         JumpsTracked(q, os, cs, is), Continues(is, js),
         \A k \in 1 .. Len(ds) : LabelKnows(r, ps, js, ds[k], k),
         \A i, arm : i \notin 0 .. Len(js) - 1 => Awaited(ds, i, arm) = {}
  PROVE  JumpsTracked(r, ps, ds, js)
<1>1. Starts(is, js) /\ IsSeq(js)
  BY ContinuesStarts DEF Continues
<1>2. \A i \in Len(is) + 1 .. Len(js) : Still(js[i])
  BY DEF Continues
<1>3. \A i \in Len(is) + 1 .. Len(js) :
        Wellmade(js[i]) /\ JumpLands(r, ps, ds, js, js[i], i - 1)
  BY <1>2, StillLands
<1> QED
  BY <1>1, <1>3, TrackedStill

LEMMA AppendStarts ==
  ASSUME NEW is, IsSeq(is), NEW x, NEW js, js = Append(is, x)
  PROVE  /\ Starts(is, js) /\ IsSeq(js)
         /\ \E n \in Nat : n = Len(is) /\ Len(js) = n + 1 /\ js[n + 1] = x
<1>1. Longer(is, x, js) /\ IsSeq(js)
  BY AppendLonger, AppendIsSeq
<1>2. PICK n \in Nat : n = Len(is)
  BY DEF IsSeq
<1>3. Len(js) = n + 1 /\ js[n + 1] = x /\ \A i \in 1 .. n : js[i] = is[i]
  BY <1>1, <1>2 DEF Longer
<1> QED
  BY <1>1, <1>2, <1>3 DEF Starts, IsSeq

LEMMA StartsChain ==
  ASSUME NEW is, NEW js, NEW ks, Starts(is, js), Starts(js, ks)
  PROVE  Starts(is, ks)
BY DEF Starts

LEMMA TrackedJump ==
  ASSUME NEW q, NEW os, NEW is, NEW r, NEW ps, NEW js, Goes(q, os, is, r, ps, js),
         NEW cs, NEW ds, Widens(cs, ds, Len(is)), StayOpen(q, r, Len(cs)),
         JumpsTracked(q, os, cs, is), NEW ms, Continues(is, ms), NEW x, js = Append(ms, x),
         \A k \in 1 .. Len(ds) : LabelKnows(r, ps, js, ds[k], k),
         Wellmade(x), JumpLands(r, ps, ds, js, x, Len(ms)),
         \A i, arm : i \notin 0 .. Len(ms) => Awaited(ds, i, arm) = {}
  PROVE  JumpsTracked(r, ps, ds, js)
<1>1. IsSeq(ms) /\ Starts(is, ms)
  BY ContinuesStarts DEF Continues
<1>2. Starts(ms, js) /\ IsSeq(js)
  BY <1>1, AppendStarts
<1>2a. PICK n \in Nat : n = Len(ms) /\ Len(js) = n + 1 /\ js[n + 1] = x
  BY <1>1, AppendStarts
<1>3. Starts(is, js)
  BY <1>1, <1>2, StartsChain
<1>4. PICK l \in Nat : l = Len(is) /\ l <= n
  BY <1>1, <1>2a DEF Starts
<1>5. ASSUME NEW i \in l + 1 .. n + 1
      PROVE  Wellmade(js[i]) /\ JumpLands(r, ps, ds, js, js[i], i - 1)
  <2>1. CASE i \in 1 .. n
    <3>1. i \in l + 1 .. n
      BY <2>1
    <3>2. js[i] = ms[i] /\ Still(ms[i])
      BY <1>2, <1>2a, <1>4, <2>1, <3>1 DEF Starts, Continues
    <3> QED
      BY <3>2, StillLands
  <2>2. CASE i \notin 1 .. n
    <3>1. i = n + 1 /\ i - 1 = n
      BY <2>2
    <3> QED
      BY <1>2a, <3>1
  <2> QED
    BY <2>1, <2>2
<1>6. \A i, arm : i \notin 0 .. Len(js) - 1 => Awaited(ds, i, arm) = {}
  <2>1. 0 .. Len(js) - 1 = 0 .. Len(ms)
    BY <1>2a
  <2> QED
    BY <2>1
<1> QED
  BY <1>2, <1>2a, <1>3, <1>4, <1>5, <1>6, TrackedStill

(* The offsets after L has become M, as offsets_to has them.                *)
OffsetsTo(os, is, js, n) == os \o [k \in 1 .. Len(js) - Len(is) |-> n]

LEMMA OffsetsDated ==
  ASSUME NEW os, NEW is, NEW js, NEW n, IsSeq(os), Len(os) = Len(is), SameNames(is, js)
  PROVE  Dated(os, is, OffsetsTo(os, is, js, n), js, n)
<1>1. PICK l \in Nat, m \in Nat, z \in Nat :
        l = Len(is) /\ m = Len(js) /\ z = m - l /\ m = l + z
  BY DEF SameNames
<1> DEFINE S == {os[i] : i \in 1 .. l} \cup {n}
<1>2. PICK zs : zs = [k \in 1 .. z |-> n]
  OBVIOUS
<1>3. os \in Seq(S) /\ zs \in Seq(S) /\ Len(zs) = z /\ Len(os) = l
  <2>1. os \in [1 .. l -> S] /\ zs \in [1 .. z -> S]
    BY <1>1, <1>2 DEF IsSeq
  <2> HIDE DEF S
  <2>2. os \in Seq(S) /\ zs \in Seq(S)
    BY <2>1
  <2>3. Len(zs) = z
    BY <1>2, <2>2
  <2> QED
    BY <1>1, <2>2, <2>3
<1> HIDE DEF S
<1>4. PICK ps : ps = os \o zs
  OBVIOUS
<1>5. ps \in Seq(S) /\ Len(ps) = m
  <2>1. PICK a \in Seq(S) : a = os
    BY <1>3
  <2>2. PICK b \in Seq(S) : b = zs
    BY <1>3
  <2>3. a \o b \in Seq(S) /\ Len(a \o b) = Len(a) + Len(b)
    BY ONLY <2>1, <2>2
  <2> QED
    BY ONLY <1>1, <1>3, <1>4, <2>1, <2>2, <2>3
<1>6. IsSeq(ps)
  BY <1>5 DEF IsSeq
<1>7. \A i \in 1 .. l : ps[i] = os[i]
  BY <1>3, <1>4
<1>8. ASSUME NEW i \in l + 1 .. m
      PROVE  ps[i] = n
  <2>1. ps[i] = zs[i - l]
    BY <1>1, <1>3, <1>4
  <2> QED
    BY <1>1, <1>2, <2>1
<1>9. OffsetsTo(os, is, js, n) = ps
  BY <1>1, <1>2, <1>4 DEF OffsetsTo
<1> QED
  BY <1>1, <1>5, <1>6, <1>7, <1>8, <1>9 DEF Dated

-----------------------------------------------------------------------------
(* What the rules do to the labels and the instructions.                    *)

LEMMA NumericCalm ==
  ASSUME NEW L, Formed(L), NEW o, o.op \in DOMAIN Arity, NEW M, M = LowerNumeric(L, o)
  PROVE  Calm(L, M)
<1>1. PICK P : P = pops_and_pushes_registers(L, Arity[o.op][1], Arity[o.op][2], "Emit")
  OBVIOUS
<1>2. Calm(L, P)
  BY <1>1, EffectsCalm
<1>3. PICK r, x : M = emit(P, x) /\ x = [Instr(o.op) EXCEPT !.out = r]
  BY <1>1 DEF LowerNumeric
<1>4. Still(x)
  BY <1>3, PlainNames DEF Still, Jumping, Instr
<1>5. Calm(P, M)
  BY <1>2, <1>3, <1>4, EmitCalm DEF Calm
<1> QED
  BY <1>2, <1>5, CalmChain

LEMMA LocalSetCalm ==
  ASSUME NEW L, Formed(L), NEW x, NEW M, M = LowerLocalSet(L, x)
  PROVE  Calm(L, M)
<1>1. PICK R : R = rescue(L, x)
  OBVIOUS
<1>2. PICK P : P = pops_and_pushes_registers(R, 1, 0, "Emit")
  OBVIOUS
<1>3. PICK y : y = WriteLocal("LocalSet", x)
  OBVIOUS
<1>4. Calm(L, R) /\ Calm(R, P) /\ Formed(P)
  <2>1. Calm(L, R)
    BY <1>1, RescueCalm
  <2>2. Calm(R, P)
    BY <1>2, <2>1, EffectsCalm DEF Calm
  <2> QED
    BY <2>1, <2>2 DEF Calm
<1>5. M = emit(P, y) /\ Still(y)
  BY <1>1, <1>2, <1>3 DEF LowerLocalSet, Still, Jumping, WriteLocal
<1>6. Calm(P, M)
  BY <1>4, <1>5, EmitCalm
<1> QED
  BY <1>4, <1>6, CalmChain

LEMMA RecordCalm ==
  ASSUME NEW L, Formed(L), NEW source, NEW slots, NEW M, M = record_run(L, source, slots)
  PROVE  Calm(L, M)
<1>1. Formed(M) /\ M.control_stack = L.control_stack /\ M.instructions = L.instructions
  BY RecordGood
<1> QED
  BY <1>1, ContinuesItself DEF Calm, Formed

LEMMA LocalTeeCalm ==
  ASSUME NEW L, Formed(L), NEW x, NEW M, M = LowerLocalTee(L, x)
  PROVE  Calm(L, M)
<1>1. PICK R : R = rescue(L, x)
  OBVIOUS
<1>2. PICK P : P = record_run(R, "Emit", top_locations(R.sim, 1))
  OBVIOUS
<1>3. PICK y : y = WriteLocal("LocalTee", x)
  OBVIOUS
<1>4. Calm(L, R) /\ Calm(R, P) /\ Formed(P)
  <2>1. Calm(L, R)
    BY <1>1, RescueCalm
  <2>2. Calm(R, P)
    BY <1>2, <2>1, RecordCalm DEF Calm
  <2> QED
    BY <2>1, <2>2 DEF Calm
<1>5. M = emit(P, y) /\ Still(y)
  BY <1>1, <1>2, <1>3 DEF LowerLocalTee, Still, Jumping, WriteLocal
<1>6. Calm(P, M)
  BY <1>4, <1>5, EmitCalm
<1> QED
  BY <1>4, <1>6, CalmChain

LEMMA PlainCalm ==
  ASSUME NEW L, Formed(L), NEW o, Plain(o), NEW M, M = LowerPlain(L, o)
  PROVE  Calm(L, M)
<1>1. CASE o.op \in {"Const", "LocalGet", "Drop"}
  <2>1. PICK s : M = [L EXCEPT !.sim = s]
    BY <1>1 DEF LowerPlain
  <2> QED
    BY <2>1, SimCalm
<1>2. CASE o.op = "LocalSet"
  BY <1>2, LocalSetCalm DEF LowerPlain
<1>3. CASE o.op = "LocalTee"
  BY <1>3, LocalTeeCalm DEF LowerPlain
<1>4. CASE o.op = "Nop"
  BY <1>4, CalmItself DEF LowerPlain
<1>5. CASE o.op \notin {"Const", "LocalGet", "Drop", "LocalSet", "LocalTee", "Nop"}
  <2>1. M = LowerNumeric(L, o)
    BY <1>5 DEF LowerPlain
  <2> QED
    BY <2>1, NumericCalm DEF Plain
<1> QED
  BY <1>1, <1>2, <1>3, <1>4, <1>5

LEMMA CallCalm ==
  ASSUME NEW L, Formed(L), NEW ty, NEW M, M = LowerCall(L, ty)
  PROVE  Calm(L, M)
<1>1. PICK P : P = materialize(L, ty[1])
  OBVIOUS
<1>2. PICK x : x = CallInstr("Call", register_index_at_depth(L.sim, ty[1]), ty)
  OBVIOUS
<1>3. PICK Q : Q = emit(P, x)
  OBVIOUS
<1>4. PICK s : M = [Q EXCEPT !.sim = s]
  BY <1>1, <1>2, <1>3 DEF LowerCall
<1>5. Calm(L, P)
  BY <1>1, MaterializeCalm
<1>6. Still(x)
  BY <1>2 DEF Still, Jumping, CallInstr
<1>7. Calm(P, Q)
  BY <1>3, <1>5, <1>6, EmitCalm DEF Calm
<1>8. Calm(Q, M)
  BY <1>4, <1>7, SimCalm DEF Calm
<1> QED
  BY <1>5, <1>7, <1>8, CalmChain

LEMMA CallIndirectCalm ==
  ASSUME NEW L, Formed(L), NEW ty, NEW M, M = LowerCallIndirect(L, ty)
  PROVE  Calm(L, M)
<1>1. PICK S : S = pops_and_pushes_registers(L, 1, 0, "CallIndirectSlot")
  OBVIOUS
<1>2. PICK P : P = pops_and_pushes_registers(S, ty[1], ty[1], "CallIndirectMov")
  OBVIOUS
<1>3. PICK x : x = CallInstr("CallIndirect", register_index_at_depth(L.sim, ty[1] + 1), ty)
  OBVIOUS
<1>4. PICK Q : Q = emit(P, x)
  OBVIOUS
<1>5. PICK s : M = [Q EXCEPT !.sim = s]
  BY <1>1, <1>2, <1>3, <1>4 DEF LowerCallIndirect
<1>6. Calm(L, S)
  BY <1>1, EffectsCalm
<1>7. Calm(S, P)
  BY <1>2, <1>6, EffectsCalm DEF Calm
<1>8. Still(x)
  BY <1>3 DEF Still, Jumping, CallInstr
<1>9. Calm(P, Q)
  BY <1>4, <1>7, <1>8, EmitCalm DEF Calm
<1>10. Calm(Q, M)
  BY <1>5, <1>9, SimCalm DEF Calm
<1> QED
  BY <1>6, <1>7, <1>9, <1>10, CalmChain

LEMMA UnreachableCalm ==
  ASSUME NEW L, Formed(L), NEW M, M = LowerUnreachable(L)
  PROVE  Calm(L, M)
<1>1. PICK x : x = Instr("Unreachable")
  OBVIOUS
<1>2. PICK P : P = emit(L, x)
  OBVIOUS
<1>3. Still(x)
  BY <1>1 DEF Still, Jumping, Instr
<1>4. Calm(L, P)
  BY <1>2, <1>3, EmitCalm
<1>5. Calm(P, M)
  BY <1>1, <1>2, <1>4, ResetCalm DEF Calm, LowerUnreachable
<1> QED
  BY <1>4, <1>5, CalmChain

(* ds is cs, but for the branches attached.                                 *)
Marked(cs, ds) ==
  /\ Len(ds) = Len(cs)
  /\ \A k \in 1 .. Len(cs) :
       /\ ds[k].kind = cs[k].kind /\ ds[k].index = cs[k].index
       /\ ds[k].else_index = cs[k].else_index

LEMMA MarkedItself ==
  ASSUME NEW a
  PROVE  Marked(a, a)
BY DEF Marked

(* The label of cs that position arm of a branch waits for, by targets.     *)
Waits(cs, targets, arm) ==
  {k \in {targets[a] : a \in DOMAIN targets \cap {arm}} : cs[k].kind # "Loop"}

Only(arm, k) == [a \in {arm} |-> k]

(* ds is cs with the branch at index i attached as targets has it.          *)
Gains(cs, ds, i, targets) ==
  /\ Marked(cs, ds)
  /\ \A arm : Awaited(ds, i, arm) = Awaited(cs, i, arm) \cup Waits(cs, targets, arm)
  /\ \A j, arm : j # i => Awaited(ds, j, arm) = Awaited(cs, j, arm)

LEMMA BreaksAppend ==
  ASSUME NEW b \in LoweringBlock, NEW p \in Nat \X Nat,
         NEW d, d = [b EXCEPT !.attached_breaks = Append(b.attached_breaks, p)]
  PROVE  /\ d \in LoweringBlock
         /\ d.kind = b.kind /\ d.index = b.index /\ d.else_index = b.else_index
         /\ Breaks(d) = Breaks(b) \cup {p}
<1>0. PICK S : S = Nat \X Nat
  OBVIOUS
<1>1. PICK q \in Seq(S) : q = b.attached_breaks
  BY <1>0, BlockFields
<1>2. PICK r : r = Append(q, p)
  OBVIOUS
<1>3. PICK n : n = Len(q)
  OBVIOUS
<1>4. /\ n \in Nat /\ r \in Seq(S) /\ Len(r) = n + 1 /\ r[n + 1] = p
      /\ \A j \in 1 .. n : r[j] = q[j]
  BY ONLY <1>1, <1>2, <1>3, <1>0, p \in Nat \X Nat
<1>5. d = [b EXCEPT !.attached_breaks = r]
  BY <1>1, <1>2
<1>6. /\ d \in LoweringBlock /\ d.attached_breaks = r
      /\ d.kind = b.kind /\ d.index = b.index /\ d.else_index = b.else_index
  BY ONLY <1>0, <1>4, <1>5, b \in LoweringBlock DEF LoweringBlock
<1>7. Breaks(b) = {q[j] : j \in 1 .. n} /\ Breaks(d) = {r[j] : j \in 1 .. n + 1}
  <2>1. Len(r) = n + 1
    BY <1>4
  <2>2. Breaks(b) = {q[j] : j \in 1 .. Len(q)}
    BY <1>1 DEF Breaks
  <2>3. Breaks(d) = {r[j] : j \in 1 .. Len(r)}
    BY <1>6 DEF Breaks
  <2> QED
    BY <1>3, <2>1, <2>2, <2>3
<1>8. {r[j] : j \in 1 .. n + 1} = {q[j] : j \in 1 .. n} \cup {p}
  <2>1. \A j \in 1 .. n + 1 : j = n + 1 \/ j \in 1 .. n
    BY <1>4
  <2>2. n + 1 \in 1 .. n + 1 /\ \A j \in 1 .. n : j \in 1 .. n + 1
    BY <1>4
  <2> QED
    BY ONLY <1>4, <2>1, <2>2
<1> QED
  BY <1>6, <1>7, <1>8

LEMMA AttachMarks ==
  ASSUME NEW L, Formed(L), NEW k \in 1 .. Len(L.control_stack),
         NEW index \in Nat, NEW arm \in Nat, NEW M, M = attach(L, k, index, arm)
  PROVE  /\ Formed(M) /\ M.instructions = L.instructions
         /\ Gains(L.control_stack, M.control_stack, index, Only(arm, k))
<1>1. PICK cs \in Seq(LoweringBlock) : cs = L.control_stack
  BY DEF Formed
<1>1b. PICK targets : targets = Only(arm, k)
  OBVIOUS
<1>1a. Waits(cs, targets, arm) = {l \in {k} : cs[l].kind # "Loop"}
       /\ \A a : a # arm => Waits(cs, targets, a) = {}
  BY <1>1b DEF Waits, Only
<1>2. CASE cs[k].kind = "Loop"
  <2>1. M = L /\ \A a : Waits(cs, targets, a) = {}
    BY <1>1, <1>1a, <1>2 DEF attach
  <2>2. Marked(cs, cs)
    BY MarkedItself
  <2>3. Gains(cs, cs, index, targets)
    BY <2>1, <2>2 DEF Gains
  <2> QED
    BY <1>1, <1>1b, <2>1, <2>3
<1>3. CASE cs[k].kind # "Loop"
  <2>1. PICK b \in LoweringBlock : b = cs[k]
    BY <1>1
  <2>2. PICK p \in Nat \X Nat : p = <<index, arm>>
    OBVIOUS
  <2>3. PICK d : d = [b EXCEPT !.attached_breaks = Append(b.attached_breaks, p)]
    OBVIOUS
  <2>4. /\ d \in LoweringBlock
        /\ d.kind = b.kind /\ d.index = b.index /\ d.else_index = b.else_index
        /\ Breaks(d) = Breaks(b) \cup {p}
    BY SMTT(30), <2>3, BreaksAppend
  <2>5. PICK ds : ds = [cs EXCEPT ![k] = d]
    OBVIOUS
  <2>6. M = [L EXCEPT !.control_stack = ds]
    BY <1>1, <1>3, <2>1, <2>2, <2>3, <2>5 DEF attach
  <2>7. /\ ds \in Seq(LoweringBlock) /\ Len(ds) = Len(cs) /\ ds[k] = d
        /\ \A j \in 1 .. Len(cs) : j # k => ds[j] = cs[j]
    BY <1>1, <2>4, <2>5
  <2>8. Marked(cs, ds)
    BY <2>1, <2>4, <2>7 DEF Marked
  <2>9. ASSUME NEW j, NEW a
        PROVE  Awaited(ds, j, a) = Awaited(cs, j, a) \cup
                                     IF j = index /\ a = arm THEN {k} ELSE {}
    <3>1. k \in 1 .. Len(cs)
      BY <1>1
    <3>2. <<j, a>> = p <=> j = index /\ a = arm
      BY <2>2
    <3>3. \A l \in 1 .. Len(cs) :
            <<j, a>> \in Breaks(ds[l]) <=>
              <<j, a>> \in Breaks(cs[l]) \/ (l = k /\ j = index /\ a = arm)
      BY <2>1, <2>4, <2>7, <3>2
    <3> QED
      BY <2>7, <3>1, <3>3 DEF Awaited
  <2>10. Waits(cs, targets, arm) = {k} /\ \A a : a # arm => Waits(cs, targets, a) = {}
    BY <1>1a, <1>3
  <2>11. Gains(cs, ds, index, targets)
    <3>1. \A a : Awaited(ds, index, a) = Awaited(cs, index, a) \cup Waits(cs, targets, a)
      BY <2>9, <2>10
    <3>2. ASSUME NEW j, NEW a, j # index
          PROVE  Awaited(ds, j, a) = Awaited(cs, j, a)
      <4>1. Awaited(ds, j, a) = Awaited(cs, j, a) \cup {}
        BY <2>9, <3>2
      <4> QED
        BY <4>1
    <3> QED
      BY <2>8, <3>1, <3>2 DEF Gains
  <2>12. Formed(M) /\ M.instructions = L.instructions /\ M.control_stack = ds
    BY <2>6, <2>7 DEF Formed
  <2> QED
    BY <1>1, <1>1b, <2>11, <2>12
<1> QED
  BY <1>2, <1>3

LEMMA GainsKept ==
  ASSUME NEW cs, NEW ds, NEW i, NEW targets, Gains(cs, ds, i, targets),
         NEW n \in Nat, i \in Nat, n <= i, Len(cs) \in Nat
  PROVE  Kept(cs, ds, n)
<1>1. \A j \in 0 .. n - 1 : j # i
  OBVIOUS
<1> QED
  BY <1>1 DEF Gains, Marked, Kept

(* ds is cs with b inside.                                                  *)
OpenedWith(cs, ds, b) ==
  /\ Len(ds) = Len(cs) + 1
  /\ \A k \in 1 .. Len(cs) : ds[k] = cs[k]
  /\ ds[Len(cs) + 1] = b
  /\ Breaks(b) = {}

LEMMA OpenedAwaited ==
  ASSUME NEW cs, NEW ds, NEW b, Len(cs) \in Nat, OpenedWith(cs, ds, b), NEW i, NEW arm
  PROVE  Awaited(ds, i, arm) = Awaited(cs, i, arm)
<1>1. PICK n \in Nat : n = Len(cs)
  OBVIOUS
<1>2. /\ Len(ds) = n + 1 /\ ds[n + 1] = b /\ Breaks(b) = {}
      /\ \A k \in 1 .. n : ds[k] = cs[k]
  BY <1>1 DEF OpenedWith
<1>3. \A k \in 1 .. n + 1 : k = n + 1 \/ k \in 1 .. n
  OBVIOUS
<1>4. \A k \in 1 .. n : k \in 1 .. n + 1
  OBVIOUS
<1> QED
  BY <1>1, <1>2, <1>3, <1>4 DEF Awaited

LEMMA OpenedKept ==
  ASSUME NEW cs, NEW ds, NEW b, Len(cs) \in Nat, OpenedWith(cs, ds, b), NEW n
  PROVE  Kept(cs, ds, n)
BY OpenedAwaited DEF OpenedWith, Kept

LEMMA AddBlockMarks ==
  ASSUME NEW L, NEW h \in Nat, Good(L, h), NEW kind \in {"Block", "Loop", "If"},
         NEW ty, ty[1] \in Nat, ty[2] \in Nat, NEW n \in Nat,
         n = h - ty[1] - IF kind = "If" THEN 1 ELSE 0,
         NEW M, M = add_block(L, kind, ty)
  PROVE  /\ Good(M, h) /\ M.instructions = L.instructions
         /\ \E b : /\ OpenedWith(L.control_stack, M.control_stack, b)
                   /\ b.kind = kind /\ b.else_index = Unset
                   /\ b.index = IF ty[1] # 0 THEN len(L) + 1 ELSE len(L)
<1>1. Good(M, h)
  BY AddBlockGood
<1>2. PICK b, r : /\ M = [L EXCEPT !.control_stack = Append(L.control_stack, b)]
                  /\ b = NewBlock(kind, IF ty[1] # 0 THEN len(L) + 1 ELSE len(L), r, ty[1], ty[2])
  BY DEF add_block
<1>3. /\ b.kind = kind /\ b.else_index = Unset /\ b.attached_breaks = <<>>
      /\ b.index = IF ty[1] # 0 THEN len(L) + 1 ELSE len(L)
  BY <1>2 DEF NewBlock
<1>3a. Breaks(b) = {}
  <2>1. Len(b.attached_breaks) = 0
    BY <1>3
  <2>2. 1 .. Len(b.attached_breaks) = {}
    BY <2>1
  <2> QED
    BY <2>2 DEF Breaks
<1>4. PICK cs, ds : cs = L.control_stack /\ ds = Append(cs, b)
  OBVIOUS
<1>5. M.control_stack = ds /\ M.instructions = L.instructions
  BY <1>2, <1>4 DEF Good, Formed
<1>6. IsSeq(cs)
  BY <1>4 DEF Good, Formed, IsSeq
<1>7. Longer(cs, b, ds)
  BY <1>4, <1>6, AppendLonger
<1>8. OpenedWith(cs, ds, b)
  BY <1>3a, <1>7 DEF Longer, OpenedWith
<1> QED
  BY <1>1, <1>3, <1>4, <1>5, <1>8

-----------------------------------------------------------------------------
(* What each rule that opens, continues or leaves a block makes of the      *)
(* labels and the instructions.                                             *)

(* M opens block b in L.                                                    *)
OpensBlock(L, M, kind, b) ==
  /\ OpenedWith(L.control_stack, M.control_stack, b)
  /\ b.kind = kind /\ b.else_index = Unset
  /\ Formed(L) /\ Formed(M)

LEMMA BlockShape ==
  ASSUME NEW L, NEW h \in Nat, Good(L, h), NEW o, o.ty[1] \in Nat, o.ty[2] \in Nat,
         o.ty[1] <= h, NEW M, M = LowerBlock(L, o)
  PROVE  Continues(L.instructions, M.instructions) /\ \E b : OpensBlock(L, M, "Block", b)
<1>1. PICK B : B = add_block(L, "Block", o.ty)
  OBVIOUS
<1>2. PICK n \in Nat : n = h - o.ty[1]
  OBVIOUS
<1>3. n = h - o.ty[1] - IF "Block" = "If" THEN 1 ELSE 0
  BY <1>2
<1>4. PICK b : /\ Good(B, h) /\ B.instructions = L.instructions
               /\ OpenedWith(L.control_stack, B.control_stack, b)
               /\ b.kind = "Block" /\ b.else_index = Unset
  BY <1>1, <1>3, AddBlockMarks
<1>5. Calm(B, M)
  BY <1>1, <1>4, MaterializeCalm DEF LowerBlock, Good
<1> QED
  BY <1>4, <1>5 DEF Calm, Good, OpensBlock

(* The label of a loop knows where its Loop is.                             *)
LEMMA LoopShape ==
  ASSUME NEW L, NEW h \in Nat, Good(L, h), NEW o, o.ty[1] \in Nat, o.ty[2] \in Nat,
         o.ty[1] <= h, NEW M, M = LowerLoop(L, o)
  PROVE  /\ Continues(L.instructions, M.instructions)
         /\ \E b : /\ OpensBlock(L, M, "Loop", b)
                   /\ b.index \in Len(L.instructions) .. Len(M.instructions) - 1
                   /\ M.instructions[b.index + 1].op = "Loop"
<1>1. PICK S : S = spill_live_locals(L)
  OBVIOUS
<1>2. Good(S, h) /\ Calm(L, S)
  BY <1>1, SpillLiveGood, SpillLiveCalm DEF Good
<1>3. PICK B : B = add_block(S, "Loop", o.ty)
  OBVIOUS
<1>4. PICK n \in Nat : n = h - o.ty[1]
  OBVIOUS
<1>5. n = h - o.ty[1] - IF "Loop" = "If" THEN 1 ELSE 0
  BY <1>4
<1>6. PICK b : /\ Good(B, h) /\ B.instructions = S.instructions
               /\ OpenedWith(S.control_stack, B.control_stack, b)
               /\ b.kind = "Loop" /\ b.else_index = Unset
               /\ b.index = IF o.ty[1] # 0 THEN len(S) + 1 ELSE len(S)
  BY SMTT(30), <1>2, <1>3, <1>5, AddBlockMarks
<1>7. PICK P : P = materialize(B, o.ty[1])
  OBVIOUS
<1>8. Calm(B, P) /\ len(P) = IF o.ty[1] = 0 THEN len(B) ELSE len(B) + 1
  BY <1>6, <1>7, MaterializeCalm DEF Good
<1>9. b.index = len(P)
  BY <1>6, <1>8 DEF len
<1>10. PICK x : x = Instr("Loop")
  OBVIOUS
<1>11. M = emit(P, x) /\ Still(x) /\ x.op = "Loop"
  BY <1>1, <1>3, <1>7, <1>10 DEF LowerLoop, OpenLoop, Still, Jumping, Instr
<1>12. Calm(P, M)
  BY <1>8, <1>11, EmitCalm DEF Calm
<1>13. PICK cs, ds, is, js : /\ cs = L.control_stack /\ ds = M.control_stack
                             /\ is = L.instructions /\ js = M.instructions
  OBVIOUS
<1>14. /\ OpenedWith(cs, ds, b) /\ Formed(M) /\ Formed(L) /\ Continues(is, js)
  <2>1. OpenedWith(cs, ds, b) /\ Formed(M) /\ Formed(L)
    BY <1>2, <1>6, <1>8, <1>12, <1>13 DEF Calm, Good
  <2>2. Continues(is, P.instructions)
    BY <1>2, <1>6, <1>8, <1>13, ContinuesChain DEF Calm
  <2> QED
    BY <1>12, <1>13, <2>1, <2>2, ContinuesChain DEF Calm
<1>15. PICK m \in Nat : /\ b.index = m /\ Len(is) <= m /\ Len(js) = m + 1
                         /\ js[m + 1].op = "Loop"
  <2>1. Formed(P) /\ js = Append(P.instructions, x)
    BY <1>8, <1>11, <1>13, EmitShape DEF Calm
  <2>2. PICK m \in Nat : m = Len(P.instructions) /\ Len(js) = m + 1 /\ js[m + 1] = x
    BY SMTT(30), <2>1, AppendStarts DEF Formed
  <2>3. Len(is) <= m
    BY <1>2, <1>6, <1>8, <1>13, <2>2, ContinuesChain DEF Calm, Continues
  <2> QED
    BY <1>9, <1>11, <2>2, <2>3 DEF len
<1>16. Len(is) \in Nat
  BY <1>14 DEF Continues, IsSeq
<1> QED
  BY <1>6, <1>13, <1>14, <1>15, <1>16 DEF OpensBlock

(* The If itself waits for the end of the block it opens.                   *)
OpensIf(L, M, b, ms) ==
  /\ OpensBlock(L, M, "If", b) /\ Continues(L.instructions, ms)
  /\ M.instructions = Append(ms, IfInstr) /\ b.index = Len(ms)

LEMMA IfShape ==
  ASSUME NEW L, NEW h \in Nat, Good(L, h), NEW o, o.ty[1] \in Nat, o.ty[2] \in Nat,
         o.ty[1] + 1 <= h, NEW M, M = LowerIf(L, o)
  PROVE  \E b, ms : OpensIf(L, M, b, ms)
<1>1. PICK S : S = spill_live_locals(L)
  OBVIOUS
<1>2. Good(S, h) /\ Calm(L, S)
  BY <1>1, SpillLiveGood, SpillLiveCalm DEF Good
<1>3. PICK B : B = add_block(S, "If", o.ty)
  OBVIOUS
<1>4. PICK n \in Nat : n = h - (o.ty[1] + 1)
  OBVIOUS
<1>5. n = h - o.ty[1] - IF "If" = "If" THEN 1 ELSE 0
  BY <1>4
<1>6. PICK b : /\ Good(B, h) /\ B.instructions = S.instructions
               /\ OpenedWith(S.control_stack, B.control_stack, b)
               /\ b.kind = "If" /\ b.else_index = Unset
               /\ b.index = IF o.ty[1] # 0 THEN len(S) + 1 ELSE len(S)
  BY SMTT(30), <1>2, <1>3, <1>5, AddBlockMarks
<1>7. PICK P : P = IF o.ty[1] = 0 THEN B ELSE materialize(B, o.ty[1] + 1)
  OBVIOUS
<1>8. Calm(B, P) /\ len(P) = IF o.ty[1] = 0 THEN len(B) ELSE len(B) + 1
  <2>1. CASE o.ty[1] = 0
    BY <1>6, <1>7, <2>1, CalmItself DEF Good
  <2>2. CASE o.ty[1] # 0
    <3>1. PICK m : m = o.ty[1] + 1
      OBVIOUS
    <3>2. P = materialize(B, m)
      BY <1>7, <2>2, <3>1
    <3>3. m # 0
      BY <3>1
    <3>4. Calm(B, P) /\ len(P) = len(B) + 1
      BY <1>6, <3>2, <3>3, MaterializeCalm DEF Good
    <3> QED
      BY <2>2, <3>4
  <2> QED
    BY <2>1, <2>2
<1>9. PICK C : C = pops_and_pushes_registers(P, 1, 0, "Emit")
  OBVIOUS
<1>10. Calm(P, C) /\ C.instructions = P.instructions
  BY <1>8, <1>9, EffectsCalm DEF Calm
<1>11. b.index = len(C)
  BY <1>6, <1>8, <1>10 DEF len
<1>12. PICK x : x = IfInstr
  OBVIOUS
<1>13. M = emit(C, x) /\ Wellmade(x) /\ x.op = "If"
  BY <1>1, <1>3, <1>7, <1>9, <1>12 DEF LowerIf, OpenIf, Wellmade, IfInstr
<1>14. PICK cs, ds, is, ms, js :
         /\ cs = L.control_stack /\ ds = M.control_stack
         /\ is = L.instructions /\ ms = C.instructions /\ js = M.instructions
  OBVIOUS
<1>15. /\ Formed(M) /\ Formed(L) /\ js = Append(ms, x) /\ OpenedWith(cs, ds, b)
  BY <1>2, <1>6, <1>8, <1>10, <1>13, <1>14, EmitShape DEF Calm, Good
<1>16. Continues(is, ms)
  <2>1. Continues(is, P.instructions)
    BY <1>2, <1>6, <1>8, <1>14, ContinuesChain DEF Calm
  <2> QED
    BY <1>10, <1>14, <2>1
<1> QED
  <2>1. b.index = Len(ms)
    BY <1>11, <1>14 DEF len
  <2>2. OpensBlock(L, M, "If", b)
    BY <1>6, <1>14, <1>15 DEF OpensBlock
  <2>3. Continues(L.instructions, ms) /\ M.instructions = Append(ms, IfInstr)
    BY <1>12, <1>14, <1>15, <1>16
  <2>4. OpensIf(L, M, b, ms)
    BY <2>1, <2>2, <2>3 DEF OpensIf
  <2> QED
    BY <2>4

(* The Else waits for the end of the if, which learns where it is.          *)
LEMMA ElseShape ==
  ASSUME NEW L, Formed(L), L.control_stack # <<>>, curr_block(L).kind = "If",
         curr_block(L).else_index = Unset, NEW M, M = LowerElse(L)
  PROVE  \E ms, d : /\ Formed(M) /\ Continues(L.instructions, ms)
                    /\ M.instructions = Append(ms, ElseInstr)
                    /\ Len(M.control_stack) = Len(L.control_stack)
                    /\ \A k \in 1 .. Len(L.control_stack) - 1 :
                         M.control_stack[k] = L.control_stack[k]
                    /\ M.control_stack[Len(L.control_stack)] = d
                    /\ d.kind = "If" /\ d.index = curr_block(L).index
                    /\ d.else_index = Len(ms) /\ Breaks(d) = Breaks(curr_block(L))
<1>1. PICK cs \in Seq(LoweringBlock) : cs = L.control_stack
  BY DEF Formed
<1>2. PICK n \in Nat \ {0} : n = Len(cs)
  BY <1>1
<1>3. PICK b \in LoweringBlock : b = cs[n] /\ b = curr_block(L)
  BY <1>1, <1>2 DEF curr_block
<1>4. PICK e \in Nat : e = IF b.results = 0 THEN len(L) ELSE len(L) + 1
  BY LenIsNat
<1>5. PICK d : d = [b EXCEPT !.else_index = e]
  OBVIOUS
<1>6. /\ d \in LoweringBlock /\ d.kind = "If" /\ d.else_index = e /\ d.index = b.index
      /\ Breaks(d) = Breaks(b)
  <2>1. d \in LoweringBlock /\ d.kind = b.kind /\ d.else_index = e /\ d.index = b.index
        /\ d.attached_breaks = b.attached_breaks
    <3>1. PICK S : S = Seq(Nat \X Nat)
      OBVIOUS
    <3>2. e \in Int
      OBVIOUS
    <3> QED
      BY ONLY <1>5, <3>1, <3>2, b \in LoweringBlock DEF LoweringBlock
  <2> QED
    BY <1>3, <2>1 DEF Breaks
<1>7. PICK ds : ds = [cs EXCEPT ![n] = d]
  OBVIOUS
<1>8. /\ ds \in Seq(LoweringBlock) /\ Len(ds) = n /\ ds[n] = d
      /\ \A k \in 1 .. n - 1 : ds[k] = cs[k]
  BY ONLY <1>1, <1>2, <1>6, <1>7
<1>9. PICK E : E = [L EXCEPT !.control_stack[Len(L.control_stack)].else_index = e]
  OBVIOUS
<1>10. E = [L EXCEPT !.control_stack = ds]
  BY <1>1, <1>2, <1>3, <1>5, <1>7, <1>9
<1>11. Formed(E) /\ E.control_stack = ds /\ E.instructions = L.instructions
  BY <1>8, <1>10 DEF Formed
<1>12. PICK P : P = materialize(E, b.results)
  OBVIOUS
<1>13. Calm(E, P) /\ len(P) = e
  <2>1. len(E) = len(L)
    BY <1>11 DEF len
  <2> QED
    BY <1>4, <1>11, <1>12, <2>1, MaterializeCalm
<1>14. PICK s : s = pops_and_pushes(P.sim, Height(P.sim) - b.recorded_height, b.params)
  OBVIOUS
<1>15. PICK S : S = [P EXCEPT !.sim = s]
  OBVIOUS
<1>16. Calm(P, S) /\ S.instructions = P.instructions
  BY <1>13, <1>15, SimCalm DEF Calm
<1>17. PICK x : x = ElseInstr
  OBVIOUS
<1>18. M = emit(S, x) /\ Wellmade(x) /\ x.op = "Else"
  BY <1>3, <1>4, <1>9, <1>12, <1>14, <1>15, <1>17 DEF LowerElse, Wellmade, ElseInstr
<1>19. PICK is, ms, js : is = L.instructions /\ ms = S.instructions /\ js = M.instructions
  OBVIOUS
<1>20. /\ Formed(M) /\ M.control_stack = ds /\ js = Append(ms, x)
       /\ Continues(is, ms) /\ Len(ms) = e
  BY <1>11, <1>13, <1>16, <1>18, <1>19, EmitShape DEF Calm, len
<1> QED
  BY <1>1, <1>2, <1>3, <1>6, <1>8, <1>17, <1>19, <1>20

(* M leaves L for labels: x is the jump it adds, targets the label that each *)
(* of its positions is for.                                                 *)
Leaves(L, M, x, targets) ==
  /\ Formed(L) /\ Formed(M)
  /\ \E ms : /\ Continues(L.instructions, ms) /\ M.instructions = Append(ms, x)
             /\ Gains(L.control_stack, M.control_stack, Len(ms), targets)

LEMMA BrShape ==
  ASSUME NEW L, Formed(L), NEW k \in 1 .. Len(L.control_stack),
         NEW name \in {"Br", "Return"}, NEW M, M = LowerBr(L, name, k)
  PROVE  \E x : /\ Leaves(L, M, x, Only(0, k)) /\ Wellmade(x)
                /\ x.op = name /\ x.target_index = branch_target(L.control_stack[k])
<1>1. PICK cs \in Seq(LoweringBlock) : cs = L.control_stack
  BY DEF Formed
<1>2. PICK b \in LoweringBlock : b = cs[k]
  BY <1>1
<1>3. PICK n : n = branch_arity(b)
  OBVIOUS
<1>4. PICK T : T = br_truncation_registers(L, b.recorded_height, n, "Emit")
  OBVIOUS
<1>5. Calm(L, T)
  BY <1>4, TruncationCalm
<1>6. PICK i \in Nat : i = IF n = 0 THEN len(T) ELSE len(T) + 1
  BY <1>5, LenIsNat DEF Calm
<1>7. PICK A : A = attach(T, k, i, 0)
  OBVIOUS
<1>8. PICK targets : targets = Only(0, k)
  OBVIOUS
<1>8a. /\ Formed(A) /\ A.instructions = T.instructions
       /\ Gains(cs, A.control_stack, i, targets)
  <2>1. Formed(T) /\ T.control_stack = cs
    BY <1>1, <1>5 DEF Calm
  <2>2. k \in 1 .. Len(T.control_stack) /\ 0 \in Nat
    BY <1>1, <2>1
  <2> QED
    BY <1>7, <1>8, <2>1, <2>2, AttachMarks
<1>9. PICK P : P = IF n = 0 THEN A ELSE emit(A, Move(truncation_base(L.sim, b.recorded_height)))
  OBVIOUS
<1>10. Calm(A, P) /\ len(P) = i
  <2>1. CASE n = 0
    BY <1>6, <1>8a, <1>9, <2>1, CalmItself DEF len
  <2>2. CASE n # 0
    <3>1. PICK y : y = Move(truncation_base(L.sim, b.recorded_height))
      OBVIOUS
    <3>2. Still(y) /\ P = emit(A, y)
      BY <1>9, <2>2, <3>1 DEF Still, Jumping, Move
    <3>3. Calm(A, P) /\ len(P) = len(A) + 1
      BY <1>8a, <3>2, EmitCalm
    <3> QED
      BY <1>6, <1>8a, <2>2, <3>3 DEF len
  <2> QED
    BY <2>1, <2>2
<1>11. PICK x : x = Jump(name, branch_target(b), 0)
  OBVIOUS
<1>12. Wellmade(x) /\ x.op = name /\ x.target_index = branch_target(b)
  BY <1>11 DEF Wellmade, Jump
<1>13. PICK Q : Q = emit(P, x)
  OBVIOUS
<1>14. M = reset_enclosing_block_layout(Q)
  BY <1>1, <1>2, <1>3, <1>4, <1>6, <1>7, <1>9, <1>11, <1>13 DEF LowerBr
<1>15. Formed(Q) /\ Q.control_stack = P.control_stack /\ Q.instructions = Append(P.instructions, x)
  BY <1>10, <1>13, EmitShape DEF Calm
<1>16. Calm(Q, M) /\ M.instructions = Q.instructions
  BY <1>14, <1>15, ResetCalm
<1>17. PICK ds, is, ms, js : /\ ds = M.control_stack /\ is = L.instructions
                             /\ ms = P.instructions /\ js = M.instructions
  OBVIOUS
<1>18. /\ js = Append(ms, x) /\ Len(ms) = i /\ ds = A.control_stack /\ ds \in Seq(LoweringBlock)
  BY <1>8a, <1>10, <1>15, <1>16, <1>17 DEF Calm, len, Formed
<1>19. Continues(is, ms)
  BY <1>5, <1>8a, <1>10, <1>17, ContinuesChain DEF Calm
<1>20. Gains(cs, ds, Len(ms), targets) /\ Formed(M)
  BY <1>8a, <1>16, <1>18 DEF Calm
<1> QED
  BY <1>1, <1>2, <1>8, <1>12, <1>17, <1>18, <1>19, <1>20 DEF Leaves

LEMMA BrIfShape ==
  ASSUME NEW L, Formed(L), NEW depth, block_at(L, depth) \in 1 .. Len(L.control_stack),
         NEW M, M = LowerBrIf(L, depth)
  PROVE  \E x : /\ Leaves(L, M, x, Only(0, block_at(L, depth))) /\ Wellmade(x)
                /\ x.op = "BrIf"
                /\ x.target_index = branch_target(L.control_stack[block_at(L, depth)])
<1>1. PICK cs \in Seq(LoweringBlock) : cs = L.control_stack
  BY DEF Formed
<1>2. PICK S : S = spill_live_locals(L)
  OBVIOUS
<1>3. Calm(L, S)
  BY <1>2, SpillLiveCalm
<1>4. PICK k \in 1 .. Len(cs) : k = block_at(S, depth)
  BY <1>1, <1>3 DEF block_at, Calm
<1>5. PICK b \in LoweringBlock : b = cs[k] /\ b = S.control_stack[k]
  BY <1>1, <1>3 DEF Calm
<1>6. PICK C : C = pops_and_pushes_registers(S, 1, 0, "BrIfCond")
  OBVIOUS
<1>7. Calm(S, C)
  BY <1>3, <1>6, EffectsCalm DEF Calm
<1>8. PICK T : T = br_truncation_registers(C, b.recorded_height, branch_arity(b), "BrIfMov")
  OBVIOUS
<1>9. Calm(C, T)
  BY <1>7, <1>8, TruncationCalm DEF Calm
<1>10. PICK i \in Nat : i = len(T)
  BY <1>9, LenIsNat DEF Calm
<1>11. PICK A : A = attach(T, k, i, 0)
  OBVIOUS
<1>12. PICK targets : targets = Only(0, k)
  OBVIOUS
<1>12a. /\ Formed(A) /\ A.instructions = T.instructions
        /\ Gains(cs, A.control_stack, i, targets)
  <2>1. Formed(T) /\ T.control_stack = cs
    BY <1>1, <1>3, <1>7, <1>9 DEF Calm
  <2>2. k \in 1 .. Len(T.control_stack) /\ 0 \in Nat
    BY <1>1, <2>1
  <2> QED
    BY <1>11, <1>12, <2>1, <2>2, AttachMarks
<1>13. PICK r : r = truncation_base(C.sim, b.recorded_height)
  OBVIOUS
<1>14. PICK x : x = Jump("BrIf", branch_target(b), r)
  OBVIOUS
<1>15. Wellmade(x) /\ x.op = "BrIf" /\ x.target_index = branch_target(b)
  BY <1>14 DEF Wellmade, Jump
<1>16. M = emit(A, x)
  BY <1>2, <1>4, <1>5, <1>6, <1>8, <1>10, <1>11, <1>13, <1>14 DEF LowerBrIf, BranchIf
<1>17. PICK ds, is, ms, js : /\ ds = M.control_stack /\ is = L.instructions
                             /\ ms = T.instructions /\ js = M.instructions
  OBVIOUS
<1>18. /\ js = Append(ms, x) /\ Len(ms) = i /\ ds = A.control_stack /\ ds \in Seq(LoweringBlock)
  BY SMTT(30), <1>10, <1>12a, <1>16, <1>17, EmitShape DEF len, Formed
<1>19. Continues(is, ms)
  <2>1. Calm(L, T)
    BY <1>3, <1>7, <1>9, CalmChain
  <2> QED
    BY <1>17, <2>1 DEF Calm
<1>20. Gains(cs, ds, Len(ms), targets) /\ Formed(M)
  BY <1>12a, <1>16, <1>18, EmitShape
<1>21. k = block_at(L, depth)
  BY <1>1, <1>3, <1>4 DEF block_at, Calm
<1> QED
  BY <1>1, <1>5, <1>12, <1>15, <1>17, <1>18, <1>19, <1>20, <1>21 DEF Leaves

(* Every arm of a br_table is attached under the index the table will have. *)
LEMMA GainsNone ==
  ASSUME NEW cs, NEW i, NEW targets, DOMAIN targets = {}
  PROVE  Gains(cs, cs, i, targets)
BY MarkedItself DEF Gains, Waits

First(g, n) == [j \in 1 .. n |-> g[j]]

LEMMA GainsMore ==
  ASSUME NEW cs, Len(cs) \in Nat, NEW ds, NEW es, NEW i, NEW m \in Nat, NEW g,
         g[m + 1] \in 1 .. Len(cs),
         Gains(cs, ds, i, First(g, m)),
         Gains(ds, es, i, Only(m + 1, g[m + 1]))
  PROVE  Gains(cs, es, i, First(g, m + 1))
<1>1. PICK t, u, w : /\ t = First(g, m) /\ u = Only(m + 1, g[m + 1])
                     /\ w = First(g, m + 1)
  OBVIOUS
<1>1a. /\ t = [j \in 1 .. m |-> g[j]] /\ u = [j \in {m + 1} |-> g[m + 1]]
       /\ w = [j \in 1 .. m + 1 |-> g[j]]
  BY <1>1 DEF First, Only
<1>2. Marked(cs, es)
  BY DEF Gains, Marked
<1>3. ds[g[m + 1]].kind = cs[g[m + 1]].kind
  BY DEF Gains, Marked
<1>4. 1 .. m + 1 = 1 .. m \cup {m + 1} /\ m + 1 \notin 1 .. m
  OBVIOUS
<1>5. ASSUME NEW a
      PROVE  Waits(cs, w, a) = Waits(cs, t, a) \cup Waits(ds, u, a)
  <2>1. CASE a = m + 1
    <3>1. Waits(cs, t, a) = {}
      BY <1>1a, <1>4, <2>1 DEF Waits
    <3>2. Waits(ds, u, a) = {k \in {g[m + 1]} : ds[k].kind # "Loop"}
      BY <1>1a, <2>1 DEF Waits
    <3>3. Waits(cs, w, a) = {k \in {g[m + 1]} : cs[k].kind # "Loop"}
      BY <1>1a, <1>4, <2>1 DEF Waits
    <3> QED
      BY <1>3, <3>1, <3>2, <3>3
  <2>2. CASE a # m + 1
    <3>1. Waits(ds, u, a) = {}
      BY <1>1a, <2>2 DEF Waits
    <3>2. Waits(cs, w, a) = Waits(cs, t, a)
      <4>1. (1 .. m) \cap {a} = (1 .. m + 1) \cap {a}
        BY <1>4, <2>2
      <4>2. \A j \in (1 .. m) \cap {a} : t[j] = w[j]
        BY <1>1a, <1>4
      <4>3. DOMAIN t = 1 .. m /\ DOMAIN w = 1 .. m + 1
        BY <1>1a
      <4> QED
        BY ONLY <4>1, <4>2, <4>3 DEF Waits
    <3> QED
      BY <3>1, <3>2
  <2> QED
    BY <2>1, <2>2
<1>6. ASSUME NEW a
      PROVE  Awaited(es, i, a) = Awaited(cs, i, a) \cup Waits(cs, w, a)
  <2>1. Awaited(es, i, a) = Awaited(ds, i, a) \cup Waits(ds, u, a)
    BY <1>1 DEF Gains
  <2>2. Awaited(ds, i, a) = Awaited(cs, i, a) \cup Waits(cs, t, a)
    BY <1>1 DEF Gains
  <2> QED
    BY <1>5, <2>1, <2>2
<1>7. \A j, a : j # i => Awaited(es, j, a) = Awaited(cs, j, a)
  BY DEF Gains
<1> QED
  BY <1>1, <1>2, <1>6, <1>7 DEF Gains

(* One arm.                                                                 *)
LEMMA ArmMarks ==
  ASSUME NEW L, NEW C, Formed(L), Formed(C), L.instructions = C.instructions,
         Marked(C.control_stack, L.control_stack),
         NEW depths, NEW i \in Nat, NEW k, k = block_at(C, depths[i]),
         k \in 1 .. Len(C.control_stack), NEW M, M = Arm(L, C, depths, i)
  PROVE  /\ Formed(M) /\ M.instructions = C.instructions
         /\ Gains(L.control_stack, M.control_stack, len(C), Only(i, k))
<1>1. PICK b : b = C.control_stack[k]
  OBVIOUS
<1>2. PICK T : T = br_truncation_registers(L, b.recorded_height, branch_arity(b), "BrTableMov")
  OBVIOUS
<1>3. Formed(T) /\ T.control_stack = L.control_stack /\ T.instructions = L.instructions
  BY <1>2, TruncationCalm DEF Calm
<1>4. PICK j \in Nat : j = len(T)
  BY <1>3, LenIsNat
<1>5. M = attach(T, k, j, i)
  BY <1>1, <1>2, <1>4 DEF Arm
<1>6. k \in 1 .. Len(T.control_stack)
  BY <1>3 DEF Marked
<1>7. PICK targets : targets = Only(i, k)
  OBVIOUS
<1>8. /\ Formed(M) /\ M.instructions = T.instructions
      /\ Gains(T.control_stack, M.control_stack, j, targets)
  BY <1>3, <1>5, <1>6, <1>7, AttachMarks
<1>9. j = len(C)
  BY <1>3, <1>4 DEF len
<1> QED
  BY <1>3, <1>7, <1>8, <1>9

(* The first n arms.                                                        *)
ArmsAttached(C, g, n, M) ==
  /\ Formed(M) /\ M.instructions = C.instructions
  /\ Gains(C.control_stack, M.control_stack, len(C), First(g, n))

LEMMA ArmsMarks ==
  ASSUME NEW C, Formed(C), NEW depths, NEW n \in Nat,
         NEW g, \A i \in 1 .. n : /\ g[i] = block_at(C, depths[i])
                                 /\ g[i] \in 1 .. Len(C.control_stack),
         NEW f, IsArms(f, C, depths, n)
  PROVE  ArmsAttached(C, g, n, f[n])
<1> DEFINE S == {k \in 0 .. n : ArmsAttached(C, g, k, f[k])}
<1>1. 0 \in S
  <2>1. f[0] = C
    BY DEF IsArms
  <2>2. PICK z, t : z = 0 /\ t = First(g, z)
    OBVIOUS
  <2>3. DOMAIN t = {}
    BY <2>2 DEF First
  <2>4. Gains(C.control_stack, C.control_stack, len(C), t)
    BY <2>3, GainsNone
  <2>5. ArmsAttached(C, g, z, C)
    BY <2>2, <2>4 DEF ArmsAttached
  <2> QED
    BY <2>1, <2>2, <2>5
<1>2. ASSUME NEW m \in 0 .. n, m \in S, m < n
      PROVE  m + 1 \in S
  <2>1. PICK i \in Nat : i = m + 1
    OBVIOUS
  <2>2. i \in 1 .. n /\ i \in 0 .. n /\ f[i] = Arm(f[m], C, depths, i)
    BY <1>2, <2>1 DEF IsArms
  <2>3. PICK A, B : A = f[m] /\ B = f[i]
    OBVIOUS
  <2>4. /\ Formed(A) /\ A.instructions = C.instructions
        /\ Gains(C.control_stack, A.control_stack, len(C), First(g, m))
    BY <1>2, <2>3 DEF ArmsAttached
  <2>5. Marked(C.control_stack, A.control_stack)
    BY <2>4 DEF Gains
  <2>6. PICK k : /\ k = block_at(C, depths[i]) /\ k \in 1 .. Len(C.control_stack)
                 /\ k = g[m + 1]
    BY <2>1, <2>2
  <2>7. B = Arm(A, C, depths, i)
    BY <2>2, <2>3
  <2>8. /\ Formed(B) /\ B.instructions = C.instructions
        /\ Gains(A.control_stack, B.control_stack, len(C), Only(i, k))
    <3>1. Formed(A) /\ A.instructions = C.instructions
      BY <2>4
    <3>2. k = block_at(C, depths[i])
      BY <2>6
    <3>3. k \in 1 .. Len(C.control_stack)
      BY <2>6
    <3> QED
      BY <2>5, <2>7, <3>1, <3>2, <3>3, ArmMarks
  <2>9. Gains(A.control_stack, B.control_stack, len(C), Only(m + 1, g[m + 1]))
    BY <2>1, <2>6, <2>8
  <2>10. Len(C.control_stack) \in Nat /\ m \in Nat
    BY DEF Formed
  <2>11. Gains(C.control_stack, B.control_stack, len(C), First(g, m + 1))
    BY <2>4, <2>6, <2>9, <2>10, GainsMore
  <2>12. ArmsAttached(C, g, i, B)
    BY <2>1, <2>8, <2>11 DEF ArmsAttached
  <2> QED
    BY <2>1, <2>2, <2>3, <2>12
<1>3. 0 .. n \subseteq S
  <2> HIDE DEF S
  <2> QED
    BY <1>1, <1>2, CountingTo
<1> QED
  BY <1>3

(* The labels that the arms of a br_table name.                             *)
ArmLevels(L, depths) == [j \in 1 .. Len(depths) |-> block_at(L, depths[j])]

LeavesTable(L, M, x, depths) ==
  /\ Leaves(L, M, x, ArmLevels(L, depths))
  /\ Wellmade(x) /\ x.op = "BrTable" /\ DOMAIN x.br_targets = 1 .. Len(depths)
  /\ \A j \in 1 .. Len(depths) :
       x.br_targets[j].target_index = branch_target(L.control_stack[block_at(L, depths[j])])

LEMMA BrTableShape ==
  ASSUME NEW L, Formed(L), NEW depths, Len(depths) \in Nat,
         \A i \in 1 .. Len(depths) : block_at(L, depths[i]) \in 1 .. Len(L.control_stack),
         NEW M, M = LowerBrTable(L, depths)
  PROVE  \E x : LeavesTable(L, M, x, depths)
<1>1. PICK cs \in Seq(LoweringBlock) : cs = L.control_stack
  BY DEF Formed
<1>2. PICK S : S = spill_live_locals(L)
  OBVIOUS
<1>3. Calm(L, S)
  BY <1>2, SpillLiveCalm
<1>4. PICK C : C = pops_and_pushes_registers(S, 1, 0, "BrTableIndex")
  OBVIOUS
<1>5. Calm(S, C)
  BY <1>3, <1>4, EffectsCalm DEF Calm
<1>6. Calm(L, C) /\ Formed(C) /\ C.control_stack = cs
  BY <1>1, <1>3, <1>5, CalmChain DEF Calm
<1>7. PICK n \in Nat : n = Len(depths)
  OBVIOUS
<1>8. PICK x : x = BrTableInstr(TableArms(C, depths))
  OBVIOUS
<1>9. PICK f : /\ IsArms(f, C, depths, n)
               /\ M = reset_enclosing_block_layout(emit(f[n], x))
  BY <1>2, <1>4, <1>7, <1>8, TableDefined DEF LowerBrTable
<1>10. PICK g : g = [i \in 1 .. n |-> block_at(L, depths[i])]
  OBVIOUS
<1>10a. \A i \in 1 .. n : g[i] = block_at(C, depths[i]) /\ g[i] \in 1 .. Len(cs)
  BY <1>1, <1>6, <1>7, <1>10 DEF block_at
<1>11. PICK A : A = f[n]
  OBVIOUS
<1>12. ArmsAttached(C, g, n, A)
  BY <1>6, <1>9, <1>10a, <1>11, ArmsMarks
<1>13. PICK Q : Q = emit(A, x)
  OBVIOUS
<1>14. /\ Formed(Q) /\ Q.control_stack = A.control_stack
       /\ Q.instructions = Append(C.instructions, x)
  BY SMTT(30), <1>12, <1>13, EmitShape DEF ArmsAttached
<1>15. Calm(Q, M) /\ M.instructions = Q.instructions
  BY <1>9, <1>11, <1>13, <1>14, ResetCalm
<1>16. PICK ds, is, ms, js : /\ ds = M.control_stack /\ is = L.instructions
                             /\ ms = C.instructions /\ js = M.instructions
  OBVIOUS
<1>16a. Gains(cs, A.control_stack, len(C), g)
  BY <1>6, <1>10, <1>12 DEF ArmsAttached, First
<1>17. /\ js = Append(ms, x) /\ ds = A.control_stack /\ ds \in Seq(LoweringBlock)
       /\ Continues(is, ms) /\ Gains(cs, ds, Len(ms), g)
  BY <1>6, <1>14, <1>15, <1>16, <1>16a DEF Calm, Formed, len
<1>21. PICK ta : ta = TableArms(C, depths)
  OBVIOUS
<1>22. /\ x.op = "BrTable" /\ x.br_targets = ta /\ "op" \in DOMAIN x
       /\ "br_targets" \in DOMAIN x
  BY <1>8, <1>21 DEF BrTableInstr
<1>23. /\ DOMAIN ta = 1 .. n
       /\ \A j \in 1 .. n : /\ "target_index" \in DOMAIN ta[j]
                            /\ ta[j].target_index = branch_target(cs[block_at(L, depths[j])])
  BY <1>1, <1>6, <1>7, <1>21 DEF TableArms, block_at
<1>24. Wellmade(x)
  BY <1>22, <1>23 DEF Wellmade
<1>25. Leaves(L, M, x, g) /\ g = ArmLevels(L, depths)
  BY <1>1, <1>7, <1>10, <1>15, <1>16, <1>17 DEF Leaves, Calm, ArmLevels
<1> QED
  BY <1>1, <1>7, <1>22, <1>23, <1>24, <1>25 DEF LeavesTable

(* The end of a block tells its branches, and its own If and Else, where it *)
(* is.                                                                      *)

LEMMA StillPatched ==
  ASSUME NEW x, x.op \notin Jumping, NEW i, NEW b, NEW index
  PROVE  patched(x, i, b, index) = x
BY DEF patched, Jumping

LEMMA PatchedName ==
  ASSUME NEW x, Wellmade(x), NEW i, NEW b, NEW index, NEW y, y = patched(x, i, b, index)
  PROVE  y.op = x.op
<1>1. "op" \in DOMAIN x
  BY DEF Wellmade
<1>2. CASE x.op = "BrTable"
  <2>1. PICK t : y = [x EXCEPT !.br_targets = t]
    BY <1>2 DEF patched
  <2> QED
    BY <1>1, <2>1
<1>3. CASE x.op \in {"Br", "BrIf", "Return"}
  <2>1. y = x \/ y = [x EXCEPT !.target_index = index]
    BY <1>3 DEF patched
  <2> QED
    BY <1>1, <2>1
<1>4. CASE x.op = "If"
  <2>1. y = x \/ y = [x EXCEPT !.else_index = b.else_index, !.end_index = index]
    BY <1>4 DEF patched
  <2> QED
    BY <1>1, <2>1
<1>5. CASE x.op = "Else"
  <2>1. y = x \/ y = [x EXCEPT !.end_index = index]
    BY <1>5 DEF patched
  <2> QED
    BY <1>1, <2>1
<1>6. CASE x.op \notin Jumping
  BY <1>6, StillPatched
<1> QED
  BY <1>2, <1>3, <1>4, <1>5, <1>6 DEF Jumping

(* Each instruction told about the end of b.                                *)
AllPatched(is, b, index) == [i \in DOMAIN is |-> patched(is[i], i - 1, b, index)]

LEMMA EndMapped ==
  ASSUME NEW is, IsSeq(is), NEW b, NEW index, NEW js, js = AllPatched(is, b, index)
  PROVE  /\ IsSeq(js) /\ Len(js) = Len(is)
         /\ \A i \in 1 .. Len(is) : js[i] = patched(is[i], i - 1, b, index)
<1>1. Len(is) \in Nat /\ DOMAIN is = 1 .. Len(is)
  BY SMTT(30) DEF IsSeq
<1>2. PICK n \in Nat : n = Len(is)
  BY <1>1
<1>3. js = [i \in 1 .. n |-> js[i]] /\ \A i \in 1 .. n : js[i] = patched(is[i], i - 1, b, index)
  BY <1>1, <1>2 DEF AllPatched
<1>4. Len(js) = n
  <2>1. js \in [1 .. n -> {js[i] : i \in 1 .. n}]
    BY <1>3
  <2>2. js \in Seq({js[i] : i \in 1 .. n})
    BY <1>2, <2>1
  <2> QED
    BY <1>2, <1>3, <2>2
<1> QED
  BY <1>1, <1>2, <1>3, <1>4 DEF IsSeq

(* js is ms, told about the end of b, and an End.                           *)
Closed(ms, b, js) ==
  /\ Len(ms) \in Nat /\ IsSeq(js) /\ Len(js) = Len(ms) + 1
  /\ js[Len(ms) + 1].op = "End" /\ Still(js[Len(ms) + 1])
  /\ \A i \in 1 .. Len(ms) : js[i] = patched(ms[i], i - 1, b, Len(ms))

LEMMA EndShape ==
  ASSUME NEW L, Formed(L), L.control_stack # <<>>, NEW M, M = LowerEnd(L)
  PROVE  /\ Formed(M) /\ Len(M.control_stack) = Len(L.control_stack) - 1
         /\ \A k \in 1 .. Len(L.control_stack) - 1 : M.control_stack[k] = L.control_stack[k]
         /\ \E ms : Continues(L.instructions, ms) /\ Closed(ms, curr_block(L), M.instructions)
<1>1. PICK cs \in Seq(LoweringBlock) : cs = L.control_stack
  BY DEF Formed
<1>2. PICK l \in Nat \ {0} : l = Len(cs)
  BY <1>1
<1>3. PICK b \in LoweringBlock : b = cs[l] /\ b = curr_block(L)
  BY <1>1, <1>2 DEF curr_block
<1>4. PICK ds : ds = SubSeq(cs, 1, l - 1)
  OBVIOUS
<1>5. /\ ds \in Seq(LoweringBlock) /\ Len(ds) = l - 1
      /\ \A k \in 1 .. l - 1 : ds[k] = cs[k]
  BY <1>1, <1>2, <1>4
<1>6. PICK C : C = [L EXCEPT !.control_stack = ds]
  OBVIOUS
<1>7. Formed(C) /\ C.control_stack = ds /\ C.instructions = L.instructions
  BY <1>5, <1>6 DEF Formed
<1>8. PICK P : P = materialize(C, b.results)
  OBVIOUS
<1>9. Calm(C, P)
  BY <1>7, <1>8, MaterializeCalm
<1>10. PICK is, ms, index : is = L.instructions /\ ms = P.instructions /\ index = len(P)
  OBVIOUS
<1>11. Continues(is, ms) /\ IsSeq(ms) /\ Formed(P)
  BY <1>7, <1>9, <1>10 DEF Calm, Formed
<1>12. PICK q : q = AllPatched(ms, b, index)
  OBVIOUS
<1>13. /\ IsSeq(q) /\ Len(q) = Len(ms)
       /\ \A i \in 1 .. Len(ms) : q[i] = patched(ms[i], i - 1, b, index)
  BY <1>11, <1>12, EndMapped
<1>14. PICK Q : Q = [P EXCEPT !.instructions = q]
  OBVIOUS
<1>15. Formed(Q) /\ Q.control_stack = ds /\ Q.instructions = q
  BY <1>7, <1>9, <1>11, <1>13, <1>14 DEF Calm, Formed
<1>16. PICK e : e = Instr("End")
  OBVIOUS
<1>17. M = emit(Q, e) /\ Still(e) /\ e.op = "End"
  BY <1>1, <1>2, <1>3, <1>4, <1>6, <1>8, <1>10, <1>12, <1>14, <1>16
     DEF LowerEnd, AllPatched, Still, Jumping, Instr
<1>18. PICK js : js = Append(q, e)
  OBVIOUS
<1>19. M.control_stack = ds /\ M.instructions = js /\ Formed(M)
  BY <1>15, <1>17, <1>18, EmitShape
<1>20. PICK n \in Nat : n = Len(ms)
  BY <1>11 DEF IsSeq
<1>21. Len(js) = n + 1 /\ js[n + 1] = e /\ Starts(q, js) /\ index = n
  <2>1. IsSeq(q) /\ Len(q) = n /\ index = n
    BY <1>10, <1>13, <1>20 DEF len
  <2>2. IsSeq(q)
    BY <2>1
  <2>3. Starts(q, js)
    BY ONLY <1>18, <2>2, AppendStarts
  <2>4. PICK r \in Nat : r = Len(q) /\ Len(js) = r + 1 /\ js[r + 1] = e
    BY ONLY <1>18, <2>2, AppendStarts
  <2> QED
    BY <2>1, <2>3, <2>4
<1>22. \A i \in 1 .. n : js[i] = patched(ms[i], i - 1, b, index)
  BY <1>13, <1>20, <1>21 DEF Starts
<1>23. IsSeq(js)
  BY <1>13, <1>18, AppendIsSeq
<1>24. Closed(ms, b, js)
  BY <1>17, <1>20, <1>21, <1>22, <1>23 DEF Closed
<1> QED
  BY <1>1, <1>2, <1>3, <1>5, <1>10, <1>11, <1>19, <1>24

LEMMA ClosedNames ==
  ASSUME NEW is, NEW ms, NEW b, NEW js, Continues(is, ms), Closed(ms, b, js),
         \A i \in 1 .. Len(is) : Wellmade(is[i])
  PROVE  /\ SameNames(is, js)
         /\ \A i \in 1 .. Len(is) : js[i] = patched(is[i], i - 1, b, Len(ms))
         /\ \A i \in Len(is) + 1 .. Len(js) : Still(js[i])
<1>1. PICK m \in Nat, n \in Nat : m = Len(is) /\ n = Len(ms) /\ m <= n
  BY DEF Continues, IsSeq
<1>2. Len(js) = n + 1
  BY <1>1 DEF Closed
<1>3. ASSUME NEW i \in 1 .. m
      PROVE  js[i] = patched(is[i], i - 1, b, n) /\ js[i].op = is[i].op
  <2>1. i \in 1 .. n /\ ms[i] = is[i]
    BY <1>1 DEF Continues
  <2>2. js[i] = patched(is[i], i - 1, b, n)
    BY <1>1, <2>1 DEF Closed
  <2>3. PICK x, y, j : x = is[i] /\ y = js[i] /\ j = i - 1
    OBVIOUS
  <2>4. y = patched(x, j, b, n) /\ Wellmade(x)
    BY <1>1, <2>2, <2>3
  <2> QED
    BY <2>2, <2>3, <2>4, PatchedName
<1>4. ASSUME NEW i \in m + 1 .. n + 1
      PROVE  Still(js[i])
  <2>1. CASE i = n + 1
    BY <1>1, <2>1 DEF Closed
  <2>2. CASE i # n + 1
    <3>1. i \in 1 .. n /\ i \in m + 1 .. n
      BY <1>1, <2>2
    <3>2. js[i] = patched(ms[i], i - 1, b, n) /\ Still(ms[i])
      BY <1>1, <3>1 DEF Closed, Continues
    <3>3. js[i] = ms[i]
      BY <3>2, StillPatched DEF Still
    <3> QED
      BY <3>2, <3>3
  <2> QED
    BY <2>1, <2>2
<1> QED
  BY <1>1, <1>2, <1>3, <1>4 DEF SameNames

-----------------------------------------------------------------------------
(* The rules keep the jumps tracked.                                        *)

(* Operator o is read after the body q, and lowering L becomes M.           *)
Advances(q, os, L, o, r, ps, M) ==
  /\ IsSeq(q) /\ r = Append(q, o) /\ Formed(L) /\ L.control_stack # <<>>
  /\ DepthAt(q)[Len(q)] = Len(L.control_stack)
  /\ JumpsTracked(q, os, L.control_stack, L.instructions)
  /\ ps = OffsetsTo(os, L.instructions, M.instructions, Len(r))

LEMMA AdvanceReads ==
  ASSUME NEW q, NEW os, NEW L, NEW o, NEW r, NEW ps, NEW M, Advances(q, os, L, o, r, ps, M)
  PROVE  /\ Len(q) \in Nat /\ Len(r) = Len(q) + 1 /\ r[Len(q) + 1] = o
         /\ Len(L.control_stack) \in Nat \ {0}
         /\ DepthAt(r)[Len(q)] = Len(L.control_stack)
         /\ DepthAt(r)[Len(q) + 1] = Len(L.control_stack) + Delta(o)
<1>1. Len(q) \in Nat /\ Len(r) = Len(q) + 1 /\ r[Len(q) + 1] = o
  BY AppendReads DEF Advances
<1>2. Len(L.control_stack) \in Nat \ {0}
  <2>1. L.control_stack \in Seq(LoweringBlock) /\ L.control_stack # <<>>
    BY DEF Advances, Formed
  <2> QED
    BY <2>1
<1>3. Grown(DepthAt(q), DepthAt(r), Len(q), o)
  BY DepthExtends DEF Advances
<1>4. Len(q) \in 0 .. Len(q)
  BY <1>1
<1>5. DepthAt(r)[Len(q)] = DepthAt(q)[Len(q)]
  BY <1>3, <1>4 DEF Grown
<1> QED
  BY <1>1, <1>2, <1>3, <1>5 DEF Grown, Advances

LEMMA AdvanceGoes ==
  ASSUME NEW q, NEW os, NEW L, NEW o, NEW r, NEW ps, NEW M, Advances(q, os, L, o, r, ps, M),
         SameNames(L.instructions, M.instructions)
  PROVE  Goes(q, os, L.instructions, r, ps, M.instructions)
<1>1. PICK is, js, n : is = L.instructions /\ js = M.instructions /\ n = Len(r)
  OBVIOUS
<1>2. Offsets(q, os, is)
  BY <1>1 DEF Advances, JumpsTracked
<1>3. Extends(q, r)
  BY BodyExtends DEF Advances
<1>4. ps = OffsetsTo(os, is, js, n) /\ IsSeq(os) /\ Len(os) = Len(is)
  BY <1>1, <1>2 DEF Advances, Offsets
<1>5. Dated(os, is, ps, js, n)
  BY <1>1, <1>4, OffsetsDated
<1> QED
  BY <1>1, <1>2, <1>3, <1>5 DEF Goes

(* An operator that closes no label, and is no else.                        *)
LEMMA AdvanceOpen ==
  ASSUME NEW q, NEW os, NEW L, NEW o, NEW r, NEW ps, NEW M, Advances(q, os, L, o, r, ps, M),
         o.op \notin {"End", "Else"}
  PROVE  StayOpen(q, r, Len(L.control_stack)) /\ StayElse(q, r, Len(L.control_stack))
<1>1. PICK m \in Nat : m = Len(L.control_stack) /\ m = DepthAt(q)[Len(q)]
  BY AdvanceReads DEF Advances
<1>2. IsSeq(q) /\ r = Append(q, o)
  BY DEF Advances
<1>3. Delta(o) \in {0, 1}
  BY DEF Delta
<1>4. DepthAt(q)[Len(q)] + Delta(o) >= m
  BY <1>1, <1>3
<1>5. StayOpen(q, r, m)
  BY <1>2, <1>4, LabelsStayOpen
<1>6. StayElse(q, r, m)
  BY <1>2, LabelsStayElse
<1> QED
  BY <1>1, <1>5, <1>6

LEMMA CalmTracked ==
  ASSUME NEW q, NEW os, NEW is, NEW r, NEW ps, NEW js, Goes(q, os, is, r, ps, js),
         NEW cs, Len(cs) \in Nat \ {0}, cs # <<>>,
         StayOpen(q, r, Len(cs)), StayElse(q, r, Len(cs)),
         JumpsTracked(q, os, cs, is), Continues(is, js)
  PROVE  JumpsTracked(r, ps, cs, js)
<1>1. Widens(cs, cs, Len(is))
  BY DEF Widens, Kept
<1>2. ASSUME NEW k \in 1 .. Len(cs)
      PROVE  LabelKnows(r, ps, js, cs[k], k)
  <2>1. PICK b : b = cs[k]
    OBVIOUS
  <2>2. LabelKnows(q, os, is, b, k)
    BY <2>1 DEF JumpsTracked
  <2> QED
    BY <2>1, <2>2, LabelStill
<1>3. ASSUME NEW i, NEW arm, i \notin 0 .. Len(js) - 1
      PROVE  Awaited(cs, i, arm) = {}
  <2>1. i \notin 0 .. Len(is) - 1
    BY <1>3 DEF Continues, IsSeq
  <2> QED
    BY <2>1 DEF JumpsTracked
<1> QED
  BY <1>1, <1>2, <1>3, TrackedCalm

LEMMA StaysTracked ==
  ASSUME NEW q, NEW os, NEW L, NEW o, NEW r, NEW ps, NEW M, Advances(q, os, L, o, r, ps, M),
         o.op \notin {"End", "Else"}, Calm(L, M)
  PROVE  JumpsTracked(r, ps, M.control_stack, M.instructions)
<1>1. PICK cs, is, js : cs = L.control_stack /\ is = L.instructions /\ js = M.instructions
  OBVIOUS
<1>2. M.control_stack = cs /\ Continues(is, js) /\ JumpsTracked(q, os, cs, is) /\ cs # <<>>
  BY <1>1 DEF Calm, Advances
<1>3. Goes(q, os, is, r, ps, js)
  BY <1>1, <1>2, AdvanceGoes, ContinuesStarts, StartsNames
<1>4. Len(cs) \in Nat \ {0} /\ StayOpen(q, r, Len(cs)) /\ StayElse(q, r, Len(cs))
  BY <1>1, AdvanceReads, AdvanceOpen
<1> QED
  BY <1>1, <1>2, <1>3, <1>4, CalmTracked

(* A branch, in position arm of the last instruction, for label k.          *)
LEMMA ArmLands ==
  ASSUME NEW q, NEW os, NEW is, NEW r, NEW ps, NEW js, Goes(q, os, is, r, ps, js),
         NEW cs, NEW ds, JumpsTracked(q, os, cs, is), StayOpen(q, r, Len(cs)),
         NEW i \in Nat, Len(is) <= i, Len(js) = i + 1,
         NEW targets, Gains(cs, ds, i, targets), NEW arm \in DOMAIN targets,
         NEW k \in 1 .. Len(cs), targets[arm] = k
  PROVE  Lands(r, ps, ds, js, branch_target(cs[k]), i, arm, k)
<1>1. PICK b : b = cs[k]
  OBVIOUS
<1>2. LabelKnows(q, os, is, b, k)
  BY <1>1 DEF JumpsTracked
<1>3. PICK p : /\ OpenAt(q, p, Len(q), k) /\ (b.kind = "Loop" <=> IsLoop(q, p))
               /\ b.kind \in {"Loop", "If"} => Became(q, os, is, b.index, p)
  BY <1>2 DEF LabelKnows
<1>4. PICK m \in Nat : m = Len(is) /\ m <= i
  BY DEF Goes, SameNames
<1>5. ps[i + 1] = Len(r) /\ Len(r) - 1 = Len(q)
  <2>1. i + 1 \in m + 1 .. i + 1
    BY <1>4
  <2> QED
    BY <1>4, <2>1 DEF Goes, Dated, Extends
<1>6. OpenAt(r, p, ps[i + 1] - 1, k)
  <2>1. OpenAt(r, p, Len(q), k)
    BY <1>3 DEF Goes, Extends
  <2> QED
    BY <1>5, <2>1
<1>7. IsLoop(r, p) = IsLoop(q, p)
  <2>1. p \in 0 .. Len(q)
    BY <1>3 DEF OpenAt
  <2> QED
    BY <2>1 DEF Goes, Extends
<1>8. Awaited(cs, i, arm) = {}
  <2>1. i \notin 0 .. m - 1
    BY <1>4
  <2> QED
    BY <1>4, <2>1 DEF JumpsTracked
<1>9. Awaited(ds, i, arm) = IF b.kind # "Loop" THEN {k} ELSE {}
  <2>1. Waits(cs, targets, arm) = IF b.kind # "Loop" THEN {k} ELSE {}
    BY <1>1 DEF Waits
  <2> QED
    BY <1>8, <2>1 DEF Gains
<1>10. CASE b.kind = "Loop"
  <2>1. Became(q, os, is, b.index, p) /\ IsLoop(r, p)
    BY <1>3, <1>7, <1>10
  <2>2. Became(r, ps, js, b.index, p)
    BY <2>1, BecameStill
  <2>3. branch_target(cs[k]) = b.index
    BY <1>1, <1>10 DEF branch_target
  <2> QED
    BY <1>6, <1>9, <1>10, <2>1, <2>2, <2>3 DEF Lands
<1>11. CASE b.kind # "Loop"
  <2>1. OpenAt(r, p, Len(r), k) /\ ~IsLoop(r, p)
    BY <1>3, <1>7, <1>11 DEF StayOpen
  <2> QED
    BY <1>6, <1>9, <1>11, <2>1 DEF Lands
<1> QED
  BY <1>10, <1>11

(* What is known of the jump x that M adds to L for the operator o.         *)
Aims(L, o, x, targets) ==
  LET cs == L.control_stack
  IN  /\ x.op = o.op /\ x.op \in {"Br", "BrIf", "BrTable", "Return"}
      /\ x.op \in {"Br", "BrIf"} =>
           /\ targets = Only(0, Len(cs) - o.x) /\ Len(cs) - o.x \in 1 .. Len(cs)
           /\ x.target_index = branch_target(cs[Len(cs) - o.x])
      /\ x.op = "Return" => targets = Only(0, 1) /\ x.target_index = branch_target(cs[1])
      /\ x.op = "BrTable" =>
           /\ DOMAIN x.br_targets = DOMAIN o.arms /\ DOMAIN targets = DOMAIN o.arms
           /\ \A j \in DOMAIN o.arms :
                /\ targets[j] = Len(cs) - o.arms[j] /\ targets[j] \in 1 .. Len(cs)
                /\ x.br_targets[j].target_index = branch_target(cs[targets[j]])

LEMMA LeavesTracked ==
  ASSUME NEW q, NEW os, NEW L, NEW o, NEW r, NEW ps, NEW M, Advances(q, os, L, o, r, ps, M),
         NEW x, NEW targets, Leaves(L, M, x, targets), Wellmade(x), Aims(L, o, x, targets)
  PROVE  JumpsTracked(r, ps, M.control_stack, M.instructions)
<1>1. PICK cs, ds, is, js : /\ cs = L.control_stack /\ ds = M.control_stack
                            /\ is = L.instructions /\ js = M.instructions
  OBVIOUS
<1>2. PICK ms : /\ Continues(is, ms) /\ js = Append(ms, x)
                /\ Gains(cs, ds, Len(ms), targets)
  BY <1>1 DEF Leaves
<1>3. PICK i \in Nat : i = Len(ms) /\ Len(js) = i + 1 /\ js[i + 1] = x
  BY <1>2, AppendStarts DEF Continues
<1>4. Starts(is, js)
  BY <1>2, ContinuesStarts, AppendStarts, StartsChain DEF Continues
<1>5. Goes(q, os, is, r, ps, js) /\ JumpsTracked(q, os, cs, is)
  BY <1>1, <1>4, AdvanceGoes, StartsNames DEF Advances
<1>6. o.op \notin {"End", "Else"}
  BY DEF Aims
<1>7. /\ Len(cs) \in Nat \ {0} /\ cs # <<>>
      /\ StayOpen(q, r, Len(cs)) /\ StayElse(q, r, Len(cs))
  BY <1>1, <1>6, AdvanceReads, AdvanceOpen DEF Advances
<1>8. Len(is) \in Nat /\ Len(is) <= i
  BY <1>2, <1>3 DEF Continues, IsSeq
<1>9. Gains(cs, ds, i, targets) /\ Len(ds) = Len(cs)
  BY <1>2, <1>3 DEF Gains, Marked
<1>10. Widens(cs, ds, Len(is))
  <2>1. Kept(cs, ds, Len(is))
    BY <1>7, <1>8, <1>9, GainsKept
  <2> QED
    BY <1>7, <1>9, <2>1 DEF Widens
<1>11. ASSUME NEW k \in 1 .. Len(ds)
       PROVE  LabelKnows(r, ps, js, ds[k], k)
  <2>1. PICK b, c : b = cs[k] /\ c = ds[k]
    OBVIOUS
  <2>2. k \in 1 .. Len(cs)
    BY <1>9
  <2>3. LabelKnows(q, os, is, b, k)
    BY <1>5, <2>1, <2>2 DEF JumpsTracked
  <2>4. c.kind = b.kind /\ c.index = b.index /\ c.else_index = b.else_index
    BY <1>9, <2>1, <2>2 DEF Gains, Marked
  <2>5. PICK m : m = Len(cs)
    OBVIOUS
  <2>6. LabelKnows(r, ps, js, c, k)
    BY <1>5, <1>7, <2>2, <2>3, <2>4, <2>5, LabelStill
  <2> QED
    BY <2>1, <2>6
<1>12. ASSUME NEW j, NEW arm, j \notin 0 .. i
       PROVE  Awaited(ds, j, arm) = {}
  <2>1. j # i /\ j \notin 0 .. Len(is) - 1
    BY <1>8, <1>12
  <2>2. Awaited(ds, j, arm) = Awaited(cs, j, arm)
    BY <1>9, <2>1 DEF Gains
  <2> QED
    BY <1>5, <2>1, <2>2 DEF JumpsTracked
<1>13. \A arm \in DOMAIN targets : \A k \in 1 .. Len(cs) :
         targets[arm] = k => Lands(r, ps, ds, js, branch_target(cs[k]), i, arm, k)
  BY <1>3, <1>5, <1>7, <1>8, <1>9, ArmLands
<1>14. r[ps[i + 1]] = o /\ DepthAt(r)[ps[i + 1] - 1] = Len(cs)
  <2>1. i + 1 \in Len(is) + 1 .. Len(js)
    BY <1>3, <1>8
  <2>2. ps[i + 1] = Len(r)
    BY <1>5, <2>1 DEF Goes, Dated
  <2>3. /\ Len(q) \in Nat /\ Len(r) = Len(q) + 1 /\ r[Len(q) + 1] = o
        /\ DepthAt(r)[Len(q)] = Len(cs)
    BY <1>1, AdvanceReads
  <2>4. Len(r) - 1 = Len(q)
    BY <2>3
  <2> QED
    BY <2>2, <2>3, <2>4
<1>15. JumpLands(r, ps, ds, js, x, i)
  <2>1. CASE x.op \in {"Br", "BrIf"}
    <3>1. PICK k \in 1 .. Len(cs) : /\ k = Len(cs) - o.x /\ targets = Only(0, k)
                                    /\ x.target_index = branch_target(cs[k])
      BY <1>1, <2>1 DEF Aims
    <3>2. 0 \in DOMAIN targets /\ targets[0] = k
      BY <3>1 DEF Only
    <3>3. Lands(r, ps, ds, js, x.target_index, i, 0, Len(cs) - o.x)
      BY <1>13, <3>1, <3>2
    <3>4. o.op = x.op
      BY DEF Aims
    <3> QED
      BY <1>14, <2>1, <3>3, <3>4 DEF JumpLands
  <2>2. CASE x.op = "Return"
    <3>1. targets = Only(0, 1) /\ x.target_index = branch_target(cs[1]) /\ o.op = x.op
      BY <1>1, <2>2 DEF Aims
    <3>2. 0 \in DOMAIN targets /\ targets[0] = 1 /\ 1 \in 1 .. Len(cs)
      BY <1>7, <3>1 DEF Only
    <3>3. Lands(r, ps, ds, js, x.target_index, i, 0, 1)
      BY <1>13, <3>1, <3>2
    <3> QED
      BY <1>14, <2>2, <3>1, <3>3 DEF JumpLands
  <2>3. CASE x.op = "BrTable"
    <3>1. /\ DOMAIN x.br_targets = DOMAIN o.arms /\ DOMAIN targets = DOMAIN o.arms
          /\ \A j \in DOMAIN o.arms :
               /\ targets[j] = Len(cs) - o.arms[j] /\ targets[j] \in 1 .. Len(cs)
               /\ x.br_targets[j].target_index = branch_target(cs[targets[j]])
          /\ o.op = x.op
      BY <1>1, <2>3 DEF Aims
    <3>2. ASSUME NEW j \in DOMAIN x.br_targets
          PROVE  Lands(r, ps, ds, js, x.br_targets[j].target_index, i, j, Len(cs) - o.arms[j])
      <4>1. PICK k \in 1 .. Len(cs) : k = targets[j] /\ k = Len(cs) - o.arms[j]
        BY <3>1
      <4> QED
        BY <1>13, <3>1, <4>1
    <3> QED
      BY <1>14, <2>3, <3>1, <3>2 DEF JumpLands
  <2> QED
    BY <2>1, <2>2, <2>3 DEF Aims
<1>16. JumpsTracked(r, ps, ds, js)
  BY <1>2, <1>3, <1>5, <1>7, <1>10, <1>11, <1>12, <1>15, TrackedJump
<1> QED
  BY <1>1, <1>16

-----------------------------------------------------------------------------
(* A rule that opens a block.                                               *)

LEMMA OpenedLabel ==
  ASSUME NEW q, NEW os, NEW L, NEW o, NEW r, NEW ps, NEW M, Advances(q, os, L, o, r, ps, M),
         Goes(q, os, L.instructions, r, ps, M.instructions),
         NEW b, o.op \in {"Block", "Loop", "If"}, b.kind = o.op, b.else_index = Unset,
         b.kind \in {"Loop", "If"} =>
           /\ b.index \in Len(L.instructions) .. Len(M.instructions) - 1
           /\ M.instructions[b.index + 1].op = o.op
  PROVE  LabelKnows(r, ps, M.instructions, b, Len(L.control_stack) + 1)
<1>1. PICK is, js, k : /\ is = L.instructions /\ js = M.instructions
                       /\ k = Len(L.control_stack) + 1
  OBVIOUS
<1>2. PICK p \in Nat \ {0} : p = Len(r) /\ p = Len(q) + 1 /\ r[p] = o
  BY AdvanceReads
<1>3. OpenAt(r, p, p, k)
  <2>1. Opens(o)
    BY DEF Opens, Openers
  <2> QED
    BY <1>1, <1>2, <2>1, OpensNow DEF Advances
<1>4. b.kind = "Loop" <=> IsLoop(r, p)
  BY <1>2 DEF IsLoop
<1>5. ASSUME b.kind \in {"Loop", "If"}
      PROVE  Became(r, ps, js, b.index, p)
  <2>1. PICK m \in Nat, n \in Nat : m = Len(is) /\ n = Len(js)
    BY <1>1 DEF Goes, SameNames
  <2>2. PICK i \in m .. n - 1 : i = b.index /\ js[i + 1].op = o.op
    BY <1>1, <1>5, <2>1
  <2>3. i \in 0 .. n - 1 /\ i + 1 \in m + 1 .. n
    BY <2>1
  <2>4. ps[i + 1] = p
    BY <1>1, <1>2, <2>1, <2>3 DEF Goes, Dated
  <2> QED
    BY <1>2, <2>1, <2>2, <2>3, <2>4 DEF Became
<1>6. ElseIs(r, p, p, k, -1) /\ ElseKnown(r, ps, js, b.else_index, -1)
  BY NoElseYet DEF ElseKnown
<1>7. OpenAt(r, p, Len(r), k) /\ ElseIs(r, p, Len(r), k, -1) /\ p # 0
  BY <1>2, <1>3, <1>6
<1> QED
  BY <1>1, <1>4, <1>5, <1>6, <1>7 DEF LabelKnows

(* M has one label more than L, and they know what they should.             *)
Wider(q, L, r, ps, M) ==
  /\ Widens(L.control_stack, M.control_stack, Len(L.instructions))
  /\ StayOpen(q, r, Len(L.control_stack))
  /\ \A k \in 1 .. Len(M.control_stack) :
       LabelKnows(r, ps, M.instructions, M.control_stack[k], k)
  /\ \A i, arm : i \notin 0 .. Len(L.instructions) - 1 =>
       Awaited(M.control_stack, i, arm) = {}

LEMMA OpensTracked ==
  ASSUME NEW q, NEW os, NEW L, NEW o, NEW r, NEW ps, NEW M, Advances(q, os, L, o, r, ps, M),
         Goes(q, os, L.instructions, r, ps, M.instructions),
         NEW b, o.op \in {"Block", "Loop", "If"}, OpensBlock(L, M, o.op, b),
         LabelKnows(r, ps, M.instructions, b, Len(L.control_stack) + 1)
  PROVE  Wider(q, L, r, ps, M)
<1>1. PICK cs, ds, is, js : /\ cs = L.control_stack /\ ds = M.control_stack
                            /\ is = L.instructions /\ js = M.instructions
  OBVIOUS
<1>2. PICK n \in Nat \ {0} : n = Len(cs)
  BY <1>1, AdvanceReads
<1>3. OpenedWith(cs, ds, b)
  BY <1>1 DEF OpensBlock
<1>4. Len(ds) = n + 1 /\ ds[n + 1] = b /\ \A k \in 1 .. n : ds[k] = cs[k]
  BY <1>2, <1>3 DEF OpenedWith
<1>5. Widens(cs, ds, Len(is))
  <2>1. Kept(cs, ds, Len(is)) /\ cs # <<>>
    BY <1>1, <1>2, <1>3, OpenedKept DEF Advances
  <2> QED
    BY <1>2, <1>4, <2>1 DEF Widens
<1>6. StayOpen(q, r, n) /\ StayElse(q, r, n)
  BY <1>1, <1>2, AdvanceOpen
<1>7. JumpsTracked(q, os, cs, is) /\ Goes(q, os, is, r, ps, js)
  BY <1>1 DEF Advances
<1>8. ASSUME NEW k \in 1 .. n + 1
      PROVE  LabelKnows(r, ps, js, ds[k], k)
  <2>1. CASE k = n + 1
    BY <1>1, <1>2, <1>4, <2>1
  <2>2. CASE k # n + 1
    <3>1. k \in 1 .. n
      BY <2>2
    <3>2. PICK c : c = cs[k] /\ c = ds[k]
      BY <1>4, <3>1
    <3>3. LabelKnows(q, os, is, c, k)
      BY <1>2, <1>7, <3>1, <3>2 DEF JumpsTracked
    <3>4. LabelKnows(r, ps, js, c, k)
      BY <1>6, <1>7, <3>1, <3>3, LabelStill
    <3> QED
      BY <3>2, <3>4
  <2> QED
    BY <2>1, <2>2
<1>9. ASSUME NEW i, NEW arm, i \notin 0 .. Len(is) - 1
      PROVE  Awaited(ds, i, arm) = {}
  <2>1. Awaited(ds, i, arm) = Awaited(cs, i, arm)
    BY <1>2, <1>3, OpenedAwaited
  <2> QED
    BY <1>7, <1>9, <2>1 DEF JumpsTracked
<1> QED
  BY <1>1, <1>2, <1>4, <1>5, <1>6, <1>8, <1>9 DEF Wider

LEMMA BlockTracked ==
  ASSUME NEW q, NEW os, NEW L, NEW o, NEW r, NEW ps, NEW M, Advances(q, os, L, o, r, ps, M),
         NEW b, o.op \in {"Block", "Loop"}, OpensBlock(L, M, o.op, b),
         Continues(L.instructions, M.instructions),
         o.op = "Loop" => /\ b.index \in Len(L.instructions) .. Len(M.instructions) - 1
                          /\ M.instructions[b.index + 1].op = "Loop"
  PROVE  JumpsTracked(r, ps, M.control_stack, M.instructions)
<1>1. Goes(q, os, L.instructions, r, ps, M.instructions)
  BY AdvanceGoes, ContinuesStarts, StartsNames
<1>2. b.kind = o.op /\ b.else_index = Unset
  BY DEF OpensBlock
<1>3. LabelKnows(r, ps, M.instructions, b, Len(L.control_stack) + 1)
  <2>1. b.kind \in {"Loop", "If"} =>
           /\ b.index \in Len(L.instructions) .. Len(M.instructions) - 1
           /\ M.instructions[b.index + 1].op = o.op
    BY <1>2
  <2> QED
    BY <1>1, <1>2, <2>1, OpenedLabel
<1>4. PICK cs, ds, is, js : /\ cs = L.control_stack /\ ds = M.control_stack
                            /\ is = L.instructions /\ js = M.instructions
  OBVIOUS
<1>5. /\ Widens(cs, ds, Len(is)) /\ StayOpen(q, r, Len(cs))
      /\ \A k \in 1 .. Len(ds) : LabelKnows(r, ps, js, ds[k], k)
      /\ \A i, arm : i \notin 0 .. Len(is) - 1 => Awaited(ds, i, arm) = {}
  <2>1. o.op \in {"Block", "Loop", "If"}
    OBVIOUS
  <2>2. Wider(q, L, r, ps, M)
    BY <1>1, <1>3, <2>1, OpensTracked
  <2> QED
    BY <1>4, <2>2 DEF Wider
<1>6. \A i, arm : i \notin 0 .. Len(js) - 1 => Awaited(ds, i, arm) = {}
  <2>1. Len(is) \in Nat /\ Len(js) \in Nat /\ Len(is) <= Len(js)
    BY <1>4 DEF Continues, IsSeq
  <2>2. \A i : i \notin 0 .. Len(js) - 1 => i \notin 0 .. Len(is) - 1
    BY <2>1
  <2> QED
    BY <1>5, <2>2
<1>7. JumpsTracked(q, os, cs, is) /\ Goes(q, os, is, r, ps, js) /\ Continues(is, js)
  BY <1>1, <1>4 DEF Advances
<1>8. JumpsTracked(r, ps, ds, js)
  BY <1>5, <1>6, <1>7, TrackedCalm
<1> QED
  BY <1>4, <1>8

LEMMA IfTracked ==
  ASSUME NEW q, NEW os, NEW L, NEW o, NEW r, NEW ps, NEW M, Advances(q, os, L, o, r, ps, M),
         NEW b, o.op = "If", OpensBlock(L, M, "If", b),
         NEW ms, Continues(L.instructions, ms), M.instructions = Append(ms, IfInstr),
         b.index = Len(ms)
  PROVE  JumpsTracked(r, ps, M.control_stack, M.instructions)
<1>1. PICK cs, ds, is, js : /\ cs = L.control_stack /\ ds = M.control_stack
                            /\ is = L.instructions /\ js = M.instructions
  OBVIOUS
<1>2. PICK x : x = IfInstr
  OBVIOUS
<1>3. Wellmade(x) /\ x.op = "If"
  BY <1>2 DEF Wellmade, IfInstr
<1>4. PICK i \in Nat : i = Len(ms) /\ Len(js) = i + 1 /\ js[i + 1] = x
  BY <1>1, <1>2, AppendStarts DEF Continues
<1>5. Starts(is, js)
  <2>1. Starts(is, ms) /\ IsSeq(ms) /\ js = Append(ms, x)
    BY <1>1, <1>2, ContinuesStarts DEF Continues
  <2>2. Starts(ms, js)
    BY <2>1, AppendStarts
  <2> QED
    BY <2>1, <2>2, StartsChain
<1>6. Goes(q, os, is, r, ps, js) /\ JumpsTracked(q, os, cs, is)
  BY <1>1, <1>5, AdvanceGoes, StartsNames DEF Advances
<1>7. Len(is) \in Nat /\ Len(is) <= i
  BY <1>1, <1>4 DEF Continues, IsSeq
<1>8. b.kind = "If" /\ b.else_index = Unset /\ b.index = i
  BY <1>4 DEF OpensBlock
<1>9. LabelKnows(r, ps, js, b, Len(cs) + 1)
  <2>1. b.index \in Len(is) .. Len(js) - 1 /\ js[b.index + 1].op = o.op
    BY <1>3, <1>4, <1>7, <1>8
  <2>2. o.op \in {"Block", "Loop", "If"} /\ b.kind = o.op
    BY <1>8
  <2>3. Goes(q, os, L.instructions, r, ps, M.instructions)
    BY <1>1, <1>6
  <2>4. o.op \in {"Block", "Loop", "If"}
    BY <2>2
  <2>5. b.kind = o.op
    BY <2>2
  <2>6. b.else_index = Unset
    BY <1>8
  <2>7. b.kind \in {"Loop", "If"} =>
          /\ b.index \in Len(L.instructions) .. Len(M.instructions) - 1
          /\ M.instructions[b.index + 1].op = o.op
    BY <1>1, <2>1
  <2>8. LabelKnows(r, ps, M.instructions, b, Len(L.control_stack) + 1)
    BY ONLY <2>3, <2>4, <2>5, <2>6, <2>7, Advances(q, os, L, o, r, ps, M), OpenedLabel
  <2> QED
    BY <1>1, <2>8
<1>10. /\ Widens(cs, ds, Len(is)) /\ StayOpen(q, r, Len(cs))
       /\ \A k \in 1 .. Len(ds) : LabelKnows(r, ps, js, ds[k], k)
       /\ \A j, arm : j \notin 0 .. Len(is) - 1 => Awaited(ds, j, arm) = {}
  <2>1. OpensBlock(L, M, o.op, b)
    OBVIOUS
  <2>1a. o.op \in {"Block", "Loop", "If"}
    OBVIOUS
  <2>2. Goes(q, os, L.instructions, r, ps, M.instructions)
    BY <1>1, <1>6
  <2>3. LabelKnows(r, ps, M.instructions, b, Len(L.control_stack) + 1)
    BY <1>1, <1>9
  <2>4. Wider(q, L, r, ps, M)
    BY ONLY <2>1, <2>1a, <2>2, <2>3, Advances(q, os, L, o, r, ps, M), OpensTracked
  <2> QED
    BY <1>1, <2>4 DEF Wider
<1>11. \A j, arm : j \notin 0 .. i => Awaited(ds, j, arm) = {}
  <2>1. \A j : j \notin 0 .. i => j \notin 0 .. Len(is) - 1
    BY <1>7
  <2> QED
    BY <1>10, <2>1
<1>12. PICK p : p = Len(r) /\ p = ps[i + 1] /\ r[p] = o /\ p = Len(q) + 1
  <2>1. i + 1 \in Len(is) + 1 .. Len(js)
    BY <1>4, <1>7
  <2>2. ps[i + 1] = Len(r)
    BY <1>6, <2>1 DEF Goes, Dated
  <2> QED
    BY <2>2, AdvanceReads
<1>13. PICK k \in Nat : /\ k = Len(cs) + 1 /\ k \in 1 .. Len(ds) /\ ds[k] = b
                        /\ OpenAt(r, p, p, k)
  <2>1. PICK n \in Nat : n = Len(cs)
    BY <1>10 DEF Widens
  <2>2. Len(ds) = n + 1 /\ ds[n + 1] = b
    BY <1>1, <2>1 DEF OpensBlock, OpenedWith
  <2>3. OpenAt(r, Len(q) + 1, Len(q) + 1, n + 1)
    <3>1. Opens(o)
      BY DEF Opens, Openers
    <3> QED
      BY <1>1, <2>1, <3>1, OpensNow DEF Advances
  <2> QED
    BY <1>12, <2>1, <2>2, <2>3
<1>14. JumpLands(r, ps, ds, js, x, i)
  <2>1. IfLands(r, ps, ds, js, x, i)
    BY <1>8, <1>12, <1>13 DEF IfLands
  <2>2. r[ps[i + 1]].op = x.op
    BY <1>3, <1>12
  <2> QED
    BY <1>3, <2>1, <2>2 DEF JumpLands
<1>15. JumpsTracked(r, ps, ds, js)
  <2>1. Continues(is, ms)
    BY <1>1
  <2>2. js = Append(ms, x)
    BY <1>1, <1>2
  <2>3. JumpLands(r, ps, ds, js, x, Len(ms))
    BY <1>4, <1>14
  <2>4. \A j, arm : j \notin 0 .. Len(ms) => Awaited(ds, j, arm) = {}
    BY <1>4, <1>11
  <2> QED
    BY ONLY <1>3, <1>6, <1>10, <2>1, <2>2, <2>3, <2>4, TrackedJump
<1> QED
  BY <1>1, <1>15

-----------------------------------------------------------------------------
(* The else of an if.                                                       *)

(* Where an instruction that was there is.                                  *)
LEMMA Placed ==
  ASSUME NEW q, NEW os, NEW is, NEW r, NEW ps, NEW js, Goes(q, os, is, r, ps, js),
         NEW i \in 0 .. Len(is) - 1
  PROVE  /\ os[i + 1] \in 1 .. Len(q) /\ ps[i + 1] = os[i + 1]
         /\ Len(q) \in Nat /\ Len(r) = Len(q) + 1
         /\ r[os[i + 1]] = q[os[i + 1]]
         /\ DepthAt(r)[os[i + 1]] = DepthAt(q)[os[i + 1]]
         /\ DepthAt(r)[os[i + 1] - 1] = DepthAt(q)[os[i + 1] - 1]
<1>1. i + 1 \in 1 .. Len(is)
  BY DEF Goes, SameNames
<1>2. os[i + 1] \in 1 .. Len(q) /\ ps[i + 1] = os[i + 1]
  BY <1>1 DEF Goes, Offsets, Dated
<1>3. Len(q) \in Nat /\ Len(r) = Len(q) + 1
  BY DEF Goes, Extends
<1>4. os[i + 1] \in 0 .. Len(q) /\ os[i + 1] - 1 \in 0 .. Len(q)
  BY <1>2, <1>3
<1> QED
  BY <1>2, <1>3, <1>4 DEF Goes, Extends

LEMMA ElseTracked ==
  ASSUME NEW q, NEW os, NEW L, NEW o, NEW r, NEW ps, NEW M, Advances(q, os, L, o, r, ps, M),
         o.op = "Else", curr_block(L).kind = "If", curr_block(L).else_index = Unset,
         M = LowerElse(L)
  PROVE  JumpsTracked(r, ps, M.control_stack, M.instructions)
<1>1. PICK cs, ds, is, js : /\ cs = L.control_stack /\ ds = M.control_stack
                            /\ is = L.instructions /\ js = M.instructions
  OBVIOUS
<1>2. PICK m \in Nat \ {0} : m = Len(cs) /\ DepthAt(q)[Len(q)] = m
  BY <1>1, AdvanceReads DEF Advances
<1>3. PICK b : b = cs[m] /\ b = curr_block(L) /\ b.kind = "If" /\ b.else_index = Unset
  BY <1>1, <1>2 DEF curr_block
<1>4. PICK ms, d : /\ Continues(is, ms) /\ js = Append(ms, ElseInstr)
                   /\ Len(ds) = m /\ ds[m] = d
                   /\ \A k \in 1 .. m - 1 : ds[k] = cs[k]
                   /\ d.kind = "If" /\ d.index = b.index
                   /\ d.else_index = Len(ms) /\ Breaks(d) = Breaks(b)
  <2>1. Formed(L) /\ L.control_stack # <<>>
    BY DEF Advances
  <2>2. PICK ms, d : /\ Formed(M) /\ Continues(L.instructions, ms)
                     /\ M.instructions = Append(ms, ElseInstr)
                     /\ Len(M.control_stack) = Len(L.control_stack)
                     /\ \A k \in 1 .. Len(L.control_stack) - 1 :
                          M.control_stack[k] = L.control_stack[k]
                     /\ M.control_stack[Len(L.control_stack)] = d
                     /\ d.kind = "If" /\ d.index = curr_block(L).index
                     /\ d.else_index = Len(ms) /\ Breaks(d) = Breaks(curr_block(L))
    BY ONLY SMTT(30), <2>1, curr_block(L).kind = "If", curr_block(L).else_index = Unset,
            M = LowerElse(L), ElseShape
  <2> QED
    BY <1>1, <1>2, <1>3, <2>2
<1>5. PICK x : x = ElseInstr
  OBVIOUS
<1>6. Wellmade(x) /\ x.op = "Else"
  BY <1>5 DEF Wellmade, ElseInstr
<1>7. PICK e \in Nat : e = Len(ms) /\ Len(js) = e + 1 /\ js[e + 1] = x
  BY <1>4, <1>5, AppendStarts DEF Continues
<1>8. Starts(is, js)
  <2>1. Starts(is, ms) /\ IsSeq(ms)
    BY <1>4, ContinuesStarts DEF Continues
  <2>2. Starts(ms, js)
    BY <1>4, <2>1, AppendStarts
  <2> QED
    BY <2>1, <2>2, StartsChain
<1>9. Goes(q, os, is, r, ps, js) /\ JumpsTracked(q, os, cs, is)
  BY <1>1, <1>8, AdvanceGoes, StartsNames DEF Advances
<1>10. Len(is) \in Nat /\ Len(is) <= e
  BY <1>4, <1>7 DEF Continues, IsSeq
<1>11. /\ IsSeq(q) /\ r = Append(q, o) /\ Len(q) \in Nat /\ Len(r) = Len(q) + 1
       /\ r[Len(q) + 1] = o
  BY AdvanceReads DEF Advances
<1>12. Delta(o) = 0
  BY DEF Delta, Opens, Openers
<1>13. StayOpen(q, r, m)
  <2>1. DepthAt(q)[Len(q)] + Delta(o) >= m
    BY <1>2, <1>12
  <2> QED
    BY <1>11, <2>1, LabelsStayOpen
<1>14. StayElse(q, r, m - 1)
  <2>1. PICK n \in Nat : n = m - 1 /\ DepthAt(q)[Len(q)] > n
    BY <1>2
  <2> QED
    BY <1>11, <2>1, LabelsStayElse
<1>15. DepthAt(r)[Len(q) + 1] = m
  BY <1>1, <1>2, <1>12, AdvanceReads
<1>16. \A i, arm : Awaited(ds, i, arm) = Awaited(cs, i, arm)
  <2>1. ASSUME NEW k \in 1 .. m
        PROVE  Breaks(ds[k]) = Breaks(cs[k])
    <3>1. k = m \/ k \in 1 .. m - 1
      OBVIOUS
    <3> QED
      BY <1>3, <1>4, <3>1
  <2> QED
    BY <1>2, <1>4, <2>1 DEF Awaited
<1>17. Widens(cs, ds, Len(is))
  <2>1. ASSUME NEW k \in 1 .. m
        PROVE  /\ ds[k].kind = cs[k].kind /\ ds[k].index = cs[k].index
               /\ cs[k].else_index # Unset => ds[k].else_index = cs[k].else_index
    <3>1. k = m \/ k \in 1 .. m - 1
      OBVIOUS
    <3> QED
      BY <1>3, <1>4, <3>1
  <2>2. Kept(cs, ds, Len(is))
    BY <1>2, <1>4, <1>16, <2>1 DEF Kept
  <2> QED
    BY <1>1, <1>2, <1>4, <2>2 DEF Widens, Advances
<1>18. PICK p : /\ OpenAt(q, p, Len(q), m) /\ (b.kind = "Loop" <=> IsLoop(q, p))
                /\ Became(q, os, is, b.index, p) /\ p # 0 /\ ElseIs(q, p, Len(q), m, -1)
  <2>1. LabelKnows(q, os, is, b, m)
    <3>1. m \in 1 .. Len(cs)
      BY <1>2
    <3> QED
      BY <1>3, <1>9, <3>1 DEF JumpsTracked
  <2>2. PICK p : /\ OpenAt(q, p, Len(q), m) /\ (b.kind = "Loop" <=> IsLoop(q, p))
                 /\ Became(q, os, is, b.index, p) /\ p # 0
                 /\ \E y : ElseIs(q, p, Len(q), m, y) /\ ElseKnown(q, os, is, b.else_index, y)
    BY <1>3, <2>1 DEF LabelKnows
  <2>3. PICK y : ElseIs(q, p, Len(q), m, y) /\ ElseKnown(q, os, is, Unset, y)
    BY <1>3, <2>2
  <2>4. y = -1
    BY <1>10, <2>3 DEF ElseKnown, Became, Unset
  <2> QED
    BY <2>2, <2>3, <2>4
<1>19. p \in 0 .. Len(q)
  BY <1>18 DEF OpenAt
<1>20. OpenAt(r, p, Len(r), m) /\ OpenAt(r, p, Len(q), m)
  <2>1. m \in 1 .. m
    OBVIOUS
  <2> QED
    BY <1>9, <1>13, <1>18, <2>1 DEF StayOpen, Goes, Extends
<1>21. ps[e + 1] = Len(r)
  <2>1. e + 1 \in Len(is) + 1 .. Len(js)
    BY <1>7, <1>10
  <2> QED
    BY <1>9, <2>1 DEF Goes, Dated
<1>22. LabelKnows(r, ps, js, d, m)
  <2>1. IsLoop(r, p) = IsLoop(q, p)
    BY <1>9, <1>19 DEF Goes, Extends
  <2>2. Became(r, ps, js, d.index, p)
    BY <1>4, <1>9, <1>18, BecameStill
  <2>3. ElseIs(r, p, Len(r), m, Len(q))
    BY <1>11, <1>15, <1>18, <1>19, ElseFound
  <2>4. Became(r, ps, js, e, Len(q) + 1)
    BY <1>6, <1>7, <1>11, <1>21 DEF Became
  <2>5. ElseKnown(r, ps, js, d.else_index, Len(q))
    BY <1>4, <1>7, <1>11, <2>4 DEF ElseKnown
  <2> QED
    BY <1>3, <1>4, <1>18, <1>20, <2>1, <2>2, <2>3, <2>5 DEF LabelKnows
<1>23. ASSUME NEW k \in 1 .. Len(ds)
       PROVE  LabelKnows(r, ps, js, ds[k], k)
  <2>1. CASE k = m
    BY <1>4, <1>22, <2>1
  <2>2. CASE k # m
    <3>1. PICK n \in Nat : n = m - 1
      OBVIOUS
    <3>2. k \in 1 .. n /\ k \in 1 .. m /\ k \in 1 .. m - 1
      BY <1>4, <2>2, <3>1
    <3>3. PICK c : c = cs[k] /\ c = ds[k]
      BY <1>4, <3>2
    <3>4. LabelKnows(q, os, is, c, k)
      BY <1>2, <1>9, <3>2, <3>3 DEF JumpsTracked
    <3>5. StayOpen(q, r, n) /\ StayElse(q, r, n)
      BY <1>13, <1>14, <3>1 DEF StayOpen
    <3>6. LabelKnows(r, ps, js, c, k)
      BY <1>9, <3>2, <3>4, <3>5, LabelStill
    <3> QED
      BY <3>3, <3>6
  <2> QED
    BY <2>1, <2>2
<1>24. JumpLands(r, ps, ds, js, x, e)
  <2>1. ElseLands(r, ps, ds, js, x, e)
    <3>1. DepthAt(r)[ps[e + 1]] = m /\ ps[e + 1] - 1 = Len(q)
      BY <1>11, <1>15, <1>21
    <3>2. m \in 1 .. Len(ds) /\ ds[m].kind = "If" /\ ds[m].else_index = e
      BY <1>4, <1>7
    <3> QED
      BY <1>18, <1>20, <3>1, <3>2 DEF ElseLands
  <2>2. r[ps[e + 1]].op = x.op
    BY <1>6, <1>11, <1>21
  <2> QED
    BY <1>6, <2>1, <2>2 DEF JumpLands
<1>25. JumpsTracked(r, ps, ds, js)
  <2>1. js = Append(ms, x) /\ Continues(is, ms)
    BY <1>4, <1>5
  <2>2. JumpLands(r, ps, ds, js, x, Len(ms))
    BY <1>7, <1>24
  <2>3. ASSUME NEW i, NEW arm, i \notin 0 .. Len(ms)
        PROVE  Awaited(ds, i, arm) = {}
    <3>1. i \notin 0 .. Len(is) - 1
      BY <1>7, <1>10, <2>3
    <3> QED
      BY <1>9, <1>16, <3>1 DEF JumpsTracked
  <2>4. StayOpen(q, r, Len(cs))
    BY <1>2, <1>13
  <2>5. \A k \in 1 .. Len(ds) : LabelKnows(r, ps, js, ds[k], k)
    BY <1>23
  <2> QED
    BY ONLY <1>6, <1>9, <1>17, <2>1, <2>2, <2>3, <2>4, <2>5, TrackedJump
<1> QED
  BY <1>1, <1>25

-----------------------------------------------------------------------------
(* The end of a block.                                                      *)

(* b, the last of the labels cs, closes with the last operator of r, whose  *)
(* End is at index t.                                                       *)
Closing(q, os, cs, is, r, ps, ds, js, b, m, t) ==
  /\ Goes(q, os, is, r, ps, js) /\ JumpsTracked(q, os, cs, is)
  /\ m \in Nat \ {0} /\ Len(cs) = m /\ b = cs[m]
  /\ Len(ds) = m - 1 /\ \A k \in 1 .. m - 1 : ds[k] = cs[k]
  /\ StayOpen(q, r, m - 1) /\ StayElse(q, r, m)
  /\ \A p : OpenAt(q, p, Len(q), m) => ClosedAt(r, p, Len(r), m)
  /\ Became(r, ps, js, t, Len(r))

LEMMA AwaitedClosed ==
  ASSUME NEW q, NEW os, NEW cs, NEW is, NEW r, NEW ps, NEW ds, NEW js, NEW b, NEW m, NEW t,
         Closing(q, os, cs, is, r, ps, ds, js, b, m, t), NEW i, NEW arm
  PROVE  /\ Awaited(ds, i, arm) = Awaited(cs, i, arm) \ {m}
         /\ m \in Awaited(cs, i, arm) <=> <<i, arm>> \in Breaks(b)
<1>1. /\ m \in Nat \ {0} /\ Len(cs) = m /\ b = cs[m]
      /\ Len(ds) = m - 1 /\ \A k \in 1 .. m - 1 : ds[k] = cs[k]
  BY DEF Closing
<1>2. \A k : k \in 1 .. m - 1 <=> k \in 1 .. m /\ k # m
  BY <1>1
<1>3. m \in 1 .. m
  BY <1>1
<1> QED
  BY <1>1, <1>2, <1>3 DEF Awaited

LEMMA LandsPatched ==
  ASSUME NEW q, NEW os, NEW cs, NEW is, NEW r, NEW ps, NEW ds, NEW js, NEW b, NEW m, NEW t,
         Closing(q, os, cs, is, r, ps, ds, js, b, m, t),
         NEW i \in 0 .. Len(is) - 1, NEW arm, NEW u, NEW k, Lands(q, os, cs, is, u, i, arm, k),
         NEW v, v = IF <<i, arm>> \in Breaks(b) THEN t ELSE u
  PROVE  Lands(r, ps, ds, js, v, i, arm, k)
<1>1. Goes(q, os, is, r, ps, js)
  BY DEF Closing
<1>2. /\ os[i + 1] \in 1 .. Len(q) /\ ps[i + 1] = os[i + 1]
      /\ Len(q) \in Nat /\ Len(r) = Len(q) + 1
  BY <1>1, Placed
<1>3. PICK p : /\ OpenAt(q, p, os[i + 1] - 1, k)
               /\ \/ IsLoop(q, p) /\ Became(q, os, is, u, p) /\ Awaited(cs, i, arm) = {}
                  \/ ~IsLoop(q, p) /\ OpenAt(q, p, Len(q), k) /\ Awaited(cs, i, arm) = {k}
                  \/ /\ ~IsLoop(q, p) /\ Awaited(cs, i, arm) = {}
                     /\ \E e \in 1 .. Len(q) : ClosedAt(q, p, e, k) /\ Became(q, os, is, u, e)
  BY DEF Lands
<1>4. OpenAt(r, p, ps[i + 1] - 1, k)
  BY <1>1, <1>2, <1>3 DEF Goes, Extends
<1>5. IsLoop(r, p) = IsLoop(q, p)
  <2>1. os[i + 1] - 1 \in 0 .. Len(q) /\ p \in 0 .. os[i + 1] - 1
    BY <1>2, <1>3 DEF OpenAt
  <2>2. p \in 0 .. Len(q)
    BY <1>2, <2>1
  <2> QED
    BY <1>1, <2>2 DEF Goes, Extends
<1>6. /\ Awaited(ds, i, arm) = Awaited(cs, i, arm) \ {m}
      /\ m \in Awaited(cs, i, arm) <=> <<i, arm>> \in Breaks(b)
  BY AwaitedClosed
<1>7. CASE IsLoop(q, p) /\ Became(q, os, is, u, p) /\ Awaited(cs, i, arm) = {}
  <2>1. v = u /\ Awaited(ds, i, arm) = {}
    BY <1>6, <1>7
  <2>2. Became(r, ps, js, u, p)
    BY <1>1, <1>7, BecameStill
  <2> QED
    BY <1>4, <1>5, <1>7, <2>1, <2>2 DEF Lands
<1>8. CASE ~IsLoop(q, p) /\ OpenAt(q, p, Len(q), k) /\ Awaited(cs, i, arm) = {k}
  <2>1. k \in 1 .. m /\ m \in Nat \ {0}
    BY <1>8 DEF Awaited, Closing
  <2>2. CASE k = m
    <3>1. v = t /\ Awaited(ds, i, arm) = {}
      BY <1>6, <1>8, <2>2
    <3>2. ClosedAt(r, p, Len(r), k) /\ Became(r, ps, js, t, Len(r))
      BY <1>8, <2>2 DEF Closing
    <3>3. Len(r) \in 1 .. Len(r)
      BY <1>2
    <3> QED
      BY <1>4, <1>5, <1>8, <3>1, <3>2, <3>3 DEF Lands
  <2>3. CASE k # m
    <3>1. Awaited(ds, i, arm) = {k}
      BY <1>6, <1>8, <2>3
    <3>2. k \in 1 .. m - 1
      BY <2>1, <2>3
    <3>3. OpenAt(r, p, Len(r), k)
      BY <1>8, <3>2 DEF Closing, StayOpen
    <3> QED
      BY <1>4, <1>5, <1>8, <3>1, <3>3 DEF Lands
  <2> QED
    BY <2>2, <2>3
<1>9. CASE /\ ~IsLoop(q, p) /\ Awaited(cs, i, arm) = {}
           /\ \E e \in 1 .. Len(q) : ClosedAt(q, p, e, k) /\ Became(q, os, is, u, e)
  <2>1. v = u /\ Awaited(ds, i, arm) = {}
    BY <1>6, <1>9
  <2>2. PICK e \in 1 .. Len(q) : ClosedAt(q, p, e, k) /\ Became(q, os, is, u, e)
    BY <1>9
  <2>3. ClosedAt(r, p, e, k) /\ Became(r, ps, js, u, e)
    BY <1>1, <2>2, BecameStill DEF Goes, Extends
  <2>4. e \in 1 .. Len(r)
    BY <2>3 DEF ClosedAt
  <2> QED
    BY <1>4, <1>5, <1>9, <2>1, <2>3, <2>4 DEF Lands
<1> QED
  BY <1>3, <1>7, <1>8, <1>9

(* What the label that closes knows.                                        *)
LEMMA ClosingLabel ==
  ASSUME NEW q, NEW os, NEW cs, NEW is, NEW r, NEW ps, NEW ds, NEW js, NEW b, NEW m, NEW t,
         Closing(q, os, cs, is, r, ps, ds, js, b, m, t), b.kind = "If"
  PROVE  \E p : \E y : /\ OpenAt(q, p, Len(q), m) /\ Became(q, os, is, b.index, p)
                       /\ p \in 0 .. Len(q) /\ p # 0
                       /\ ElseIs(q, p, Len(q), m, y) /\ ElseKnown(q, os, is, b.else_index, y)
<1>1. LabelKnows(q, os, is, b, m)
  <2>1. m \in 1 .. Len(cs)
    BY DEF Closing
  <2> QED
    BY <2>1 DEF Closing, JumpsTracked
<1>2. PICK p : /\ OpenAt(q, p, Len(q), m) /\ Became(q, os, is, b.index, p) /\ p # 0
               /\ \E y : ElseIs(q, p, Len(q), m, y) /\ ElseKnown(q, os, is, b.else_index, y)
  BY <1>1 DEF LabelKnows
<1>3. p \in 0 .. Len(q)
  BY <1>2 DEF OpenAt
<1> QED
  BY <1>2, <1>3

LEMMA IfPatched ==
  ASSUME NEW q, NEW os, NEW cs, NEW is, NEW r, NEW ps, NEW ds, NEW js, NEW b, NEW m, NEW t,
         Closing(q, os, cs, is, r, ps, ds, js, b, m, t),
         NEW i \in 0 .. Len(is) - 1, NEW x, Wellmade(x), x.op = "If",
         IfLands(q, os, cs, is, x, i), NEW z, z = patched(x, i, b, t)
  PROVE  Wellmade(z) /\ z.op = "If" /\ IfLands(r, ps, ds, js, z, i)
<1>1. z = IF b.kind = "If" /\ i = b.index
          THEN [x EXCEPT !.else_index = b.else_index, !.end_index = t] ELSE x
  BY DEF patched
<1>2. "op" \in DOMAIN x /\ "else_index" \in DOMAIN x /\ "end_index" \in DOMAIN x
  BY SMTT(30) DEF Wellmade
<1>3. /\ "op" \in DOMAIN z /\ "else_index" \in DOMAIN z /\ "end_index" \in DOMAIN z
      /\ z.op = "If"
      /\ b.kind = "If" /\ i = b.index => z.else_index = b.else_index /\ z.end_index = t
      /\ ~(b.kind = "If" /\ i = b.index) => z = x
  BY ONLY <1>1, <1>2, x.op = "If"
<1>4. Wellmade(z)
  BY <1>3 DEF Wellmade
<1>5. Goes(q, os, is, r, ps, js)
  BY DEF Closing
<1>6. /\ os[i + 1] \in 1 .. Len(q) /\ ps[i + 1] = os[i + 1]
      /\ Len(q) \in Nat /\ Len(r) = Len(q) + 1
  BY <1>5, Placed
<1>7. PICK k : \/ /\ k \in 1 .. Len(cs) /\ OpenAt(q, os[i + 1], Len(q), k)
                  /\ cs[k].kind = "If" /\ cs[k].index = i
               \/ \E e \in 1 .. Len(q) : \E y :
                    /\ ClosedAt(q, os[i + 1], e, k) /\ Became(q, os, is, x.end_index, e)
                    /\ ElseIs(q, os[i + 1], e, k, y) /\ ElseKnown(q, os, is, x.else_index, y)
  BY DEF IfLands
<1>8. CASE /\ k \in 1 .. Len(cs) /\ OpenAt(q, os[i + 1], Len(q), k)
           /\ cs[k].kind = "If" /\ cs[k].index = i
  <2>1. CASE k = m
    <3>1. b.kind = "If" /\ b.index = i
      BY <1>8, <2>1 DEF Closing
    <3>2. PICK p, y : /\ OpenAt(q, p, Len(q), m) /\ p \in 0 .. Len(q)
                      /\ ElseIs(q, p, Len(q), m, y) /\ ElseKnown(q, os, is, b.else_index, y)
      BY <3>1, ClosingLabel
    <3>3. p = os[i + 1]
      BY <1>6, <1>8, <2>1, <3>2, OpenUnique
    <3>4. ClosedAt(r, p, Len(r), m) /\ Became(r, ps, js, t, Len(r))
      BY <3>2 DEF Closing
    <3>5. ElseIs(r, p, Len(r), m, y)
      <4>1. m \in 1 .. m /\ StayElse(q, r, m)
        BY DEF Closing
      <4> QED
        BY <3>2, <4>1 DEF StayElse
    <3>6. ElseKnown(r, ps, js, b.else_index, y)
      BY <1>5, <3>2, ElseKnownStill
    <3>7. Len(r) \in 1 .. Len(r) /\ z.else_index = b.else_index /\ z.end_index = t
      BY <1>3, <1>6, <3>1
    <3> QED
      BY <1>3, <1>4, <1>6, <3>3, <3>4, <3>5, <3>6, <3>7 DEF IfLands
  <2>2. CASE k # m
    <3>1. k \in 1 .. m - 1
      BY <1>8, <2>2 DEF Closing
    <3>2. k \in 1 .. Len(ds) /\ ds[k] = cs[k]
      BY <3>1 DEF Closing
    <3>3. OpenAt(r, ps[i + 1], Len(r), k)
      BY <1>6, <1>8, <3>1 DEF Closing, StayOpen
    <3> QED
      BY <1>3, <1>4, <1>8, <3>2, <3>3 DEF IfLands
  <2> QED
    BY <2>1, <2>2
<1>9. CASE \E e \in 1 .. Len(q) : \E y :
             /\ ClosedAt(q, os[i + 1], e, k) /\ Became(q, os, is, x.end_index, e)
             /\ ElseIs(q, os[i + 1], e, k, y) /\ ElseKnown(q, os, is, x.else_index, y)
  <2>0. PICK e \in 1 .. Len(q) : \E y :
               /\ ClosedAt(q, os[i + 1], e, k) /\ Became(q, os, is, x.end_index, e)
               /\ ElseIs(q, os[i + 1], e, k, y) /\ ElseKnown(q, os, is, x.else_index, y)
    BY <1>9
  <2>1. PICK y :
               /\ ClosedAt(q, os[i + 1], e, k) /\ Became(q, os, is, x.end_index, e)
               /\ ElseIs(q, os[i + 1], e, k, y) /\ ElseKnown(q, os, is, x.else_index, y)
    BY <2>0
  <2>2. z = x
    <3>1. SUFFICES ASSUME b.kind = "If", i = b.index
                   PROVE  FALSE
      BY <1>3
    <3>2. PICK p : OpenAt(q, p, Len(q), m) /\ Became(q, os, is, b.index, p)
      BY <3>1, ClosingLabel
    <3>3. p = os[i + 1]
      BY <3>1, <3>2 DEF Became
    <3>4. DepthAt(q)[p] = m /\ DepthAt(q)[p] = k
      BY <2>1, <3>2, <3>3 DEF OpenAt, ClosedAt
    <3>5. ClosedAt(q, p, e, m)
      BY <2>1, <3>3, <3>4
    <3> QED
      BY <1>6, <3>2, <3>5, ClosedNotOpen
  <2>3. ClosedAt(r, ps[i + 1], e, k) /\ e \in 1 .. Len(r)
    BY <1>5, <1>6, <2>1 DEF Goes, Extends, ClosedAt
  <2>4. Became(r, ps, js, x.end_index, e) /\ ElseKnown(r, ps, js, x.else_index, y)
    BY <1>5, <2>1, BecameStill, ElseKnownStill
  <2>5. ElseIs(r, ps[i + 1], e, k, y)
    <3>1. os[i + 1] \in Nat /\ e \in 0 .. Len(q)
      BY <1>6, <2>1
    <3> QED
      BY <1>5, <1>6, <2>1, <3>1 DEF Goes, Extends
  <2> QED
    BY <2>2, <2>3, <2>4, <2>5 DEF IfLands
<1>10. IfLands(r, ps, ds, js, z, i)
  BY <1>7, <1>8, <1>9
<1> QED
  BY <1>3, <1>4, <1>10

LEMMA ElsePatched ==
  ASSUME NEW q, NEW os, NEW cs, NEW is, NEW r, NEW ps, NEW ds, NEW js, NEW b, NEW m, NEW t,
         Closing(q, os, cs, is, r, ps, ds, js, b, m, t),
         NEW i \in 0 .. Len(is) - 1, NEW x, Wellmade(x), x.op = "Else",
         ElseLands(q, os, cs, is, x, i), NEW z, z = patched(x, i, b, t)
  PROVE  Wellmade(z) /\ z.op = "Else" /\ ElseLands(r, ps, ds, js, z, i)
<1>1. z = IF b.kind = "If" /\ i = b.else_index THEN [x EXCEPT !.end_index = t] ELSE x
  BY DEF patched
<1>2. "op" \in DOMAIN x /\ "end_index" \in DOMAIN x
  BY DEF Wellmade
<1>3. /\ "op" \in DOMAIN z /\ "end_index" \in DOMAIN z /\ z.op = "Else"
      /\ b.kind = "If" /\ i = b.else_index => z.end_index = t
      /\ ~(b.kind = "If" /\ i = b.else_index) => z = x
  BY ONLY <1>1, <1>2, x.op = "Else"
<1>4. Wellmade(z)
  BY <1>3 DEF Wellmade
<1>5. Goes(q, os, is, r, ps, js)
  BY DEF Closing
<1>6. /\ os[i + 1] \in 1 .. Len(q) /\ ps[i + 1] = os[i + 1]
      /\ Len(q) \in Nat /\ Len(r) = Len(q) + 1
      /\ DepthAt(r)[os[i + 1]] = DepthAt(q)[os[i + 1]]
  BY <1>5, Placed
<1>7. PICK k : k = DepthAt(q)[os[i + 1]] /\ k = DepthAt(r)[ps[i + 1]]
  BY <1>6
<1>8. PICK p : /\ p # 0 /\ OpenAt(q, p, os[i + 1] - 1, k)
               /\ \/ /\ k \in 1 .. Len(cs) /\ OpenAt(q, p, Len(q), k)
                     /\ cs[k].kind = "If" /\ cs[k].else_index = i
                  \/ \E e \in 1 .. Len(q) :
                       ClosedAt(q, p, e, k) /\ Became(q, os, is, x.end_index, e)
  BY <1>7 DEF ElseLands
<1>9. OpenAt(r, p, ps[i + 1] - 1, k)
  BY <1>5, <1>6, <1>8 DEF Goes, Extends
<1>10. CASE /\ k \in 1 .. Len(cs) /\ OpenAt(q, p, Len(q), k)
            /\ cs[k].kind = "If" /\ cs[k].else_index = i
  <2>1. CASE k = m
    <3>1. b.kind = "If" /\ b.else_index = i
      BY <1>10, <2>1 DEF Closing
    <3>2. ClosedAt(r, p, Len(r), k) /\ Became(r, ps, js, z.end_index, Len(r))
      BY <1>3, <1>10, <2>1, <3>1 DEF Closing
    <3>3. Len(r) \in 1 .. Len(r)
      BY <1>6
    <3> QED
      BY <1>3, <1>4, <1>7, <1>8, <1>9, <3>2, <3>3 DEF ElseLands
  <2>2. CASE k # m
    <3>1. k \in 1 .. m - 1
      BY <1>10, <2>2 DEF Closing
    <3>2. k \in 1 .. Len(ds) /\ ds[k] = cs[k]
      BY <3>1 DEF Closing
    <3>3. OpenAt(r, p, Len(r), k)
      BY <1>10, <3>1 DEF Closing, StayOpen
    <3> QED
      BY <1>3, <1>4, <1>7, <1>8, <1>9, <1>10, <3>2, <3>3 DEF ElseLands
  <2> QED
    BY <2>1, <2>2
<1>11. CASE \E e \in 1 .. Len(q) : ClosedAt(q, p, e, k) /\ Became(q, os, is, x.end_index, e)
  <2>1. PICK e \in 1 .. Len(q) : ClosedAt(q, p, e, k) /\ Became(q, os, is, x.end_index, e)
    BY <1>11
  <2>2. z = x
    <3>1. SUFFICES ASSUME b.kind = "If", i = b.else_index
                   PROVE  FALSE
      BY <1>3
    <3>2. PICK l, y : /\ OpenAt(q, l, Len(q), m) /\ l \in 0 .. Len(q)
                      /\ ElseIs(q, l, Len(q), m, y) /\ ElseKnown(q, os, is, b.else_index, y)
      BY <3>1, ClosingLabel
    <3>3. y # -1 /\ os[i + 1] = y + 1
      BY <3>1, <3>2 DEF ElseKnown, Became, Unset
    <3>4. y \in l .. Len(q) - 1
      BY <3>2, <3>3 DEF ElseIs
    <3>5. y + 1 \in l + 1 .. Len(q) /\ y \in l .. Len(q) /\ (y + 1) - 1 = y
      BY <1>6, <3>2, <3>4
    <3>6. k = m
      BY <1>7, <3>2, <3>3, <3>5 DEF ElseIs
    <3>7. OpenAt(q, l, y, m) /\ OpenAt(q, p, y, m)
      BY <1>6, <1>8, <3>2, <3>3, <3>5, <3>6, OpenEarlier
    <3>8. p = l
      BY <1>6, <3>7, OpenUnique
    <3> QED
      BY <1>6, <2>1, <3>2, <3>6, <3>8, ClosedNotOpen
  <2>3. ClosedAt(r, p, e, k) /\ e \in 1 .. Len(r)
    BY <1>5, <2>1 DEF Goes, Extends, ClosedAt
  <2>4. Became(r, ps, js, x.end_index, e)
    BY <1>5, <2>1, BecameStill
  <2> QED
    BY <1>7, <1>8, <1>9, <2>2, <2>3, <2>4 DEF ElseLands
<1>12. ElseLands(r, ps, ds, js, z, i)
  BY <1>8, <1>10, <1>11
<1> QED
  BY <1>3, <1>4, <1>12

LEMMA TablePatched ==
  ASSUME NEW q, NEW os, NEW cs, NEW is, NEW r, NEW ps, NEW ds, NEW js, NEW b, NEW m, NEW t,
         Closing(q, os, cs, is, r, ps, ds, js, b, m, t),
         NEW i \in 0 .. Len(is) - 1, NEW x, Wellmade(x), x.op = "BrTable",
         JumpLands(q, os, cs, is, x, i), NEW z, z = patched(x, i, b, t)
  PROVE  Wellmade(z) /\ JumpLands(r, ps, ds, js, z, i)
<1>1. PICK ta : ta = [j \in DOMAIN x.br_targets |->
                        IF <<i, j>> \in Breaks(b)
                        THEN [x.br_targets[j] EXCEPT !.target_index = t]
                        ELSE x.br_targets[j]]
  OBVIOUS
<1>2. z = [x EXCEPT !.br_targets = ta]
  BY <1>1 DEF patched, Breaks
<1>3. /\ "op" \in DOMAIN x /\ "br_targets" \in DOMAIN x
      /\ \A j \in DOMAIN x.br_targets : "target_index" \in DOMAIN x.br_targets[j]
  BY DEF Wellmade
<1>4. z.op = "BrTable" /\ z.br_targets = ta /\ "op" \in DOMAIN z /\ "br_targets" \in DOMAIN z
  BY ONLY <1>2, <1>3, x.op = "BrTable"
<1>5. DOMAIN ta = DOMAIN x.br_targets
  BY <1>1
<1>6. PICK o, d : o = q[os[i + 1]] /\ d = DepthAt(q)[os[i + 1] - 1]
  OBVIOUS
<1>7. o = r[ps[i + 1]] /\ d = DepthAt(r)[ps[i + 1] - 1]
  BY <1>6, Placed DEF Closing
<1>8. /\ o.op = "BrTable" /\ DOMAIN x.br_targets = DOMAIN o.arms
      /\ \A j \in DOMAIN x.br_targets :
           Lands(q, os, cs, is, x.br_targets[j].target_index, i, j, d - o.arms[j])
  BY <1>6 DEF JumpLands, Jumping
<1>9. ASSUME NEW j \in DOMAIN x.br_targets
      PROVE  /\ "target_index" \in DOMAIN ta[j]
             /\ Lands(r, ps, ds, js, ta[j].target_index, i, j, d - o.arms[j])
  <2>1. PICK u, v, k : /\ u = x.br_targets[j].target_index /\ k = d - o.arms[j]
                       /\ v = IF <<i, j>> \in Breaks(b) THEN t ELSE u
    OBVIOUS
  <2>2. PICK c : c = x.br_targets[j] /\ "target_index" \in DOMAIN c /\ u = c.target_index
    BY <1>3, <2>1
  <2>3. PICK e : e = ta[j] /\ e = IF <<i, j>> \in Breaks(b)
                                  THEN [c EXCEPT !.target_index = t] ELSE c
    BY <1>1, <2>2
  <2>4. "target_index" \in DOMAIN e /\ e.target_index = v
    BY ONLY <2>1, <2>2, <2>3
  <2>5. Lands(q, os, cs, is, u, i, j, k)
    BY <1>8, <2>1
  <2>6. Lands(r, ps, ds, js, v, i, j, k)
    BY <2>1, <2>5, LandsPatched
  <2> QED
    BY <2>1, <2>3, <2>4, <2>6
<1>10. Wellmade(z)
  BY <1>4, <1>5, <1>9 DEF Wellmade
<1> QED
  BY <1>4, <1>5, <1>7, <1>8, <1>9, <1>10 DEF JumpLands

LEMMA BranchPatched ==
  ASSUME NEW q, NEW os, NEW cs, NEW is, NEW r, NEW ps, NEW ds, NEW js, NEW b, NEW m, NEW t,
         Closing(q, os, cs, is, r, ps, ds, js, b, m, t),
         NEW i \in 0 .. Len(is) - 1, NEW x, Wellmade(x), x.op \in {"Br", "BrIf", "Return"},
         JumpLands(q, os, cs, is, x, i), NEW z, z = patched(x, i, b, t)
  PROVE  Wellmade(z) /\ JumpLands(r, ps, ds, js, z, i)
<1>1. z = IF <<i, 0>> \in Breaks(b) THEN [x EXCEPT !.target_index = t] ELSE x
  BY DEF patched, Breaks
<1>2. "op" \in DOMAIN x /\ "target_index" \in DOMAIN x
  BY DEF Wellmade
<1>3. PICK u, v : u = x.target_index /\ v = IF <<i, 0>> \in Breaks(b) THEN t ELSE u
  OBVIOUS
<1>4. "op" \in DOMAIN z /\ "target_index" \in DOMAIN z /\ z.op = x.op /\ z.target_index = v
  BY ONLY <1>1, <1>2, <1>3
<1>5. Wellmade(z)
  BY <1>4 DEF Wellmade
<1>6. PICK o, d : o = q[os[i + 1]] /\ d = DepthAt(q)[os[i + 1] - 1]
  OBVIOUS
<1>7. o = r[ps[i + 1]] /\ d = DepthAt(r)[ps[i + 1] - 1]
  BY <1>6, Placed DEF Closing
<1>8. o.op = x.op
  BY <1>6 DEF JumpLands, Jumping
<1>9. PICK k : k = IF x.op = "Return" THEN 1 ELSE d - o.x
  OBVIOUS
<1>10. Lands(q, os, cs, is, u, i, 0, k)
  BY <1>3, <1>6, <1>9 DEF JumpLands
<1>11. Lands(r, ps, ds, js, v, i, 0, k)
  BY <1>3, <1>10, LandsPatched
<1> QED
  BY <1>4, <1>5, <1>7, <1>8, <1>9, <1>11 DEF JumpLands

LEMMA JumpPatched ==
  ASSUME NEW q, NEW os, NEW cs, NEW is, NEW r, NEW ps, NEW ds, NEW js, NEW b, NEW m, NEW t,
         Closing(q, os, cs, is, r, ps, ds, js, b, m, t),
         NEW i \in 0 .. Len(is) - 1, NEW x, Wellmade(x),
         JumpLands(q, os, cs, is, x, i), NEW z, z = patched(x, i, b, t)
  PROVE  Wellmade(z) /\ JumpLands(r, ps, ds, js, z, i)
<1>1. CASE x.op \notin Jumping
  <2>1. z = x /\ Still(x)
    BY <1>1, StillPatched DEF Still, Wellmade
  <2> QED
    BY <2>1, StillLands
<1>2. x.op \in Jumping => r[ps[i + 1]].op = x.op
  BY Placed DEF Closing, JumpLands
<1>3. CASE x.op = "If"
  <2>1. IfLands(q, os, cs, is, x, i)
    BY <1>3 DEF JumpLands
  <2>2. Wellmade(z) /\ z.op = "If" /\ IfLands(r, ps, ds, js, z, i)
    BY <1>3, <2>1, IfPatched
  <2> QED
    BY <1>2, <1>3, <2>2 DEF JumpLands, Jumping
<1>4. CASE x.op = "Else"
  <2>1. ElseLands(q, os, cs, is, x, i)
    BY <1>4 DEF JumpLands
  <2>2. Wellmade(z) /\ z.op = "Else" /\ ElseLands(r, ps, ds, js, z, i)
    BY <1>4, <2>1, ElsePatched
  <2> QED
    BY <1>2, <1>4, <2>2 DEF JumpLands, Jumping
<1> QED
  BY <1>1, <1>3, <1>4, TablePatched, BranchPatched DEF Jumping

LEMMA ClosedTracked ==
  ASSUME NEW q, NEW os, NEW cs, NEW is, NEW r, NEW ps, NEW ds, NEW js, NEW b, NEW m, NEW t,
         Closing(q, os, cs, is, r, ps, ds, js, b, m, t),
         ds = <<>> <=> Len(ds) = 0, IsSeq(js),
         \A i \in 1 .. Len(is) : js[i] = patched(is[i], i - 1, b, t),
         \A i \in Len(is) + 1 .. Len(js) : Still(js[i])
  PROVE  JumpsTracked(r, ps, ds, js)
<1>1. Goes(q, os, is, r, ps, js) /\ JumpsTracked(q, os, cs, is)
  BY DEF Closing
<1>2. PICK l \in Nat, n \in Nat, k \in Nat :
        l = Len(is) /\ n = Len(js) /\ l <= n /\ k = Len(q) /\ Len(r) = k + 1
  BY <1>1 DEF Goes, SameNames, Extends
<1>3. ASSUME NEW i \in 1 .. n
      PROVE  /\ Wellmade(js[i]) /\ JumpLands(r, ps, ds, js, js[i], i - 1)
             /\ ps[i] \in 1 .. k + 1
  <2>1. CASE i \in 1 .. l
    <3>0. PICK j \in 0 .. l - 1 : j = i - 1
      BY <2>1
    <3>1. PICK x, z : x = is[i] /\ z = js[i] /\ j = i - 1
      BY <3>0
    <3>2. Wellmade(x) /\ JumpLands(q, os, cs, is, x, j) /\ z = patched(x, j, b, t)
      BY <1>1, <1>2, <2>1, <3>1 DEF JumpsTracked
    <3>3. Wellmade(z) /\ JumpLands(r, ps, ds, js, z, j)
      BY <1>2, <3>2, JumpPatched
    <3>4. ps[i] = os[i] /\ os[i] \in 1 .. k
      BY <1>1, <1>2, <2>1 DEF Goes, Dated, Offsets
    <3> QED
      BY <3>1, <3>3, <3>4
  <2>2. CASE i \notin 1 .. l
    <3>1. i \in l + 1 .. n
      BY <1>2, <2>2
    <3>2. Still(js[i])
      BY <1>2, <3>1
    <3>3. Wellmade(js[i]) /\ JumpLands(r, ps, ds, js, js[i], i - 1)
      BY <3>2, StillLands
    <3>4. ps[i] = k + 1
      BY <1>1, <1>2, <3>1 DEF Goes, Dated
    <3> QED
      BY <1>2, <3>3, <3>4
  <2> QED
    BY <2>1, <2>2
<1>4. Offsets(r, ps, js)
  BY <1>1, <1>2, <1>3 DEF Offsets, Goes, Dated
<1>5. PICK h \in Nat : h = m - 1 /\ Len(cs) = h + 1 /\ Len(ds) = h
  BY DEF Closing
<1>6. ASSUME NEW j \in 1 .. h
      PROVE  LabelKnows(r, ps, js, ds[j], j)
  <2>1. PICK c : c = cs[j] /\ c = ds[j]
    BY <1>5 DEF Closing
  <2>2. LabelKnows(q, os, is, c, j)
    <3>1. j \in 1 .. h + 1
      OBVIOUS
    <3> QED
      BY <1>1, <1>5, <2>1, <3>1 DEF JumpsTracked
  <2>3. StayOpen(q, r, h) /\ StayElse(q, r, h)
    <3>1. StayOpen(q, r, h) /\ StayElse(q, r, h + 1)
      BY <1>5 DEF Closing
    <3>2. \A a \in 1 .. h : a \in 1 .. h + 1
      OBVIOUS
    <3> QED
      BY <3>1, <3>2 DEF StayElse
  <2>4. LabelKnows(r, ps, js, c, j)
    BY <1>1, <2>2, <2>3, LabelStill
  <2> QED
    BY <2>1, <2>4
<1>7. ds # <<>> => ds[1].kind = "Func"
  <2>1. HAVE ds # <<>>
  <2>2. 1 \in 1 .. h /\ cs # <<>>
    BY <1>5, <2>1
  <2>3. ds[1] = cs[1]
    BY <1>5, <2>2 DEF Closing
  <2> QED
    BY <1>1, <2>2, <2>3 DEF JumpsTracked
<1>8. ASSUME NEW i, NEW arm, i \notin 0 .. n - 1
      PROVE  Awaited(ds, i, arm) = {}
  <2>1. i \notin 0 .. l - 1
    BY <1>2, <1>8
  <2>2. Awaited(cs, i, arm) = {}
    BY <1>1, <1>2, <2>1 DEF JumpsTracked
  <2>3. /\ Awaited(ds, i, arm) = Awaited(cs, i, arm) \ {m}
        /\ m \in Awaited(cs, i, arm) <=> <<i, arm>> \in Breaks(b)
    BY ONLY Closing(q, os, cs, is, r, ps, ds, js, b, m, t), AwaitedClosed
  <2> QED
    BY <2>2, <2>3
<1> QED
  BY <1>2, <1>3, <1>4, <1>5, <1>6, <1>7, <1>8 DEF JumpsTracked

LEMMA EndTracked ==
  ASSUME NEW q, NEW os, NEW L, NEW o, NEW r, NEW ps, NEW M, Advances(q, os, L, o, r, ps, M),
         o.op = "End", M = LowerEnd(L)
  PROVE  /\ JumpsTracked(r, ps, M.control_stack, M.instructions)
         /\ Formed(M) /\ Len(M.control_stack) = Len(L.control_stack) - 1
         /\ \A k \in 1 .. Len(L.control_stack) - 1 : M.control_stack[k] = L.control_stack[k]
<1>1. PICK cs, ds, is, js, b : /\ cs = L.control_stack /\ ds = M.control_stack
                               /\ is = L.instructions /\ js = M.instructions
                               /\ b = curr_block(L)
  OBVIOUS
<1>2. /\ Formed(M) /\ Len(M.control_stack) = Len(L.control_stack) - 1
      /\ \A k \in 1 .. Len(L.control_stack) - 1 : M.control_stack[k] = L.control_stack[k]
      /\ \E ms : Continues(L.instructions, ms) /\ Closed(ms, curr_block(L), M.instructions)
  <2>1. Formed(L) /\ L.control_stack # <<>>
    BY DEF Advances
  <2> QED
    BY ONLY <2>1, M = LowerEnd(L), EndShape
<1>3. PICK ms : Continues(is, ms) /\ Closed(ms, b, js)
  BY <1>1, <1>2
<1>4. PICK m \in Nat \ {0} : m = Len(cs) /\ DepthAt(q)[Len(q)] = m
  BY <1>1, AdvanceReads DEF Advances
<1>5. b = cs[m] /\ Len(ds) = m - 1 /\ \A k \in 1 .. m - 1 : ds[k] = cs[k]
  BY <1>1, <1>2, <1>4 DEF curr_block
<1>6. JumpsTracked(q, os, cs, is)
  BY <1>1 DEF Advances
<1>7. PICK t \in Nat : t = Len(ms) /\ Len(js) = t + 1
  BY <1>3 DEF Closed
<1>8. /\ SameNames(is, js)
      /\ \A i \in 1 .. Len(is) : js[i] = patched(is[i], i - 1, b, t)
      /\ \A i \in Len(is) + 1 .. Len(js) : Still(js[i])
  BY <1>3, <1>6, <1>7, ClosedNames DEF JumpsTracked
<1>9. Goes(q, os, is, r, ps, js)
  BY <1>1, <1>8, AdvanceGoes
<1>10. IsSeq(q) /\ r = Append(q, o) /\ Len(q) \in Nat /\ Len(r) = Len(q) + 1
       /\ r[Len(q) + 1] = o
  BY AdvanceReads DEF Advances
<1>11. Delta(o) = -1
  BY DEF Delta, Opens, Openers
<1>12. StayOpen(q, r, m - 1)
  <2>1. PICK n \in Nat : n = m - 1 /\ DepthAt(q)[Len(q)] + Delta(o) >= n
    BY <1>4, <1>11
  <2>2. StayOpen(q, r, n)
    BY <1>10, <2>1, LabelsStayOpen
  <2> QED
    BY <2>1, <2>2
<1>13. StayElse(q, r, m)
  BY <1>10, LabelsStayElse
<1>14. ASSUME NEW p, OpenAt(q, p, Len(q), m)
       PROVE  ClosedAt(r, p, Len(r), m)
  BY <1>4, <1>10, <1>14, OpenGrows
<1>15. Became(r, ps, js, t, Len(r))
  <2>1. t + 1 \in Len(is) + 1 .. Len(js)
    <3>1. Len(is) \in Nat /\ Len(is) <= t
      BY <1>3, <1>7 DEF Continues, IsSeq
    <3> QED
      BY <1>7, <3>1
  <2>2. ps[t + 1] = Len(r)
    BY <1>9, <2>1 DEF Goes, Dated
  <2>3. js[t + 1].op = "End"
    BY <1>3, <1>7 DEF Closed
  <2> QED
    BY <1>7, <1>10, <2>2, <2>3 DEF Became
<1>16. Closing(q, os, cs, is, r, ps, ds, js, b, m, t)
  BY <1>4, <1>5, <1>6, <1>9, <1>12, <1>13, <1>14, <1>15 DEF Closing
<1>17. ds = <<>> <=> Len(ds) = 0
  <2>1. PICK S : ds \in Seq(S)
    BY <1>1, <1>2 DEF Formed
  <2> QED
    BY <2>1
<1>18. IsSeq(js)
  BY <1>3 DEF Closed
<1>19. JumpsTracked(r, ps, ds, js)
  BY <1>8, <1>16, <1>17, <1>18, ClosedTracked
<1> QED
  BY <1>1, <1>2, <1>19

-----------------------------------------------------------------------------
(* The ifs that may still have an else.                                     *)

LEMMA MatchMarked ==
  ASSUME NEW cs, NEW ds, Marked(cs, ds), NEW ls, NEW ms, Len(cs) = Len(ls),
         SameKinds(ls, ms), IfsMatch(cs, ls)
  PROVE  IfsMatch(ds, ms)
<1>1. SUFFICES ASSUME NEW k \in 1 .. Len(cs), ms[k].kind = "If"
               PROVE  ds[k].kind = "If" /\ ds[k].else_index = Unset
  BY DEF IfsMatch, Marked
<1>2. ls[k].kind = "If"
  BY <1>1 DEF SameKinds
<1> QED
  BY <1>1, <1>2 DEF IfsMatch, Marked

(* The validator's kinds ls become ms, with one more inside.                *)
OneMore(ls, ms, kind) ==
  /\ \A k \in 1 .. Len(ls) : ms[k].kind = ls[k].kind
  /\ ms[Len(ls) + 1].kind = kind

LEMMA MatchOpened ==
  ASSUME NEW cs, NEW ds, NEW b, Len(cs) \in Nat, OpenedWith(cs, ds, b), b.else_index = Unset,
         NEW ls, NEW ms, Len(cs) = Len(ls), IfsMatch(cs, ls), OneMore(ls, ms, b.kind)
  PROVE  IfsMatch(ds, ms)
<1>1. PICK n \in Nat : n = Len(cs)
  OBVIOUS
<1>2. Len(ds) = n + 1 /\ ds[n + 1] = b /\ \A k \in 1 .. n : ds[k] = cs[k]
  BY <1>1 DEF OpenedWith
<1>3. SUFFICES ASSUME NEW k \in 1 .. n + 1, ms[k].kind = "If"
               PROVE  ds[k].kind = "If" /\ ds[k].else_index = Unset
  BY <1>2 DEF IfsMatch
<1>4. CASE k = n + 1
  BY <1>1, <1>2, <1>3, <1>4 DEF OneMore
<1>5. CASE k # n + 1
  <2>1. k \in 1 .. n
    BY <1>5
  <2> QED
    BY <1>1, <1>2, <1>3, <2>1 DEF IfsMatch, OneMore
<1> QED
  BY <1>4, <1>5

LEMMA MatchBelow ==
  ASSUME NEW cs, NEW ds, NEW ls, NEW ms, IfsMatch(cs, ls),
         \A k \in 1 .. Len(ds) : k \in 1 .. Len(cs) /\ ds[k] = cs[k] /\ ms[k] = ls[k]
  PROVE  IfsMatch(ds, ms)
BY DEF IfsMatch

(* Of m labels the innermost is rewritten by an else.                       *)
ElseLabels(cs, ds, ls, ms, m) ==
  /\ m \in Nat \ {0} /\ Len(cs) = m /\ Len(ds) = m
  /\ \A k \in 1 .. m - 1 : ds[k] = cs[k]
  /\ \A k \in 1 .. m : ms[k].kind = IF k = m THEN "Else" ELSE ls[k].kind

LEMMA MatchElse ==
  ASSUME NEW cs, NEW ds, NEW ls, NEW ms, NEW m, IfsMatch(cs, ls), ElseLabels(cs, ds, ls, ms, m)
  PROVE  IfsMatch(ds, ms)
<1>1. SUFFICES ASSUME NEW k \in 1 .. m, ms[k].kind = "If"
               PROVE  ds[k].kind = "If" /\ ds[k].else_index = Unset
  BY DEF IfsMatch, ElseLabels
<1>2. k \in 1 .. m - 1 /\ ls[k].kind = "If"
  BY <1>1 DEF ElseLabels
<1>3. k \in 1 .. Len(cs) /\ ds[k] = cs[k]
  BY <1>2 DEF ElseLabels
<1> QED
  BY <1>2, <1>3 DEF IfsMatch

-----------------------------------------------------------------------------
(* The actions.                                                             *)

LEMMA ActionAdvances ==
  ASSUME LoweringInv, JumpsKnown, NEW o \in Alphabets[alphabet].ops, Reads(o),
         tracking.blocks = <<>>, NEW M, Lowers(o, M)
  PROVE  /\ Advances(ops, instruction_offsets, lowering, o, ops', instruction_offsets', M)
         /\ Traced(ops', valid') /\ lowering' = M
<1>1. /\ IsOperator(o) /\ status = "lowering" /\ valid.labels # <<>>
      /\ Allowed(valid, o) /\ valid' = Validated(valid, o)
  BY ReadGives
<1>2. PICK q, r, v, w : q = ops /\ r = Append(ops, o) /\ v = valid /\ w = Validated(valid, o)
  OBVIOUS
<1>3. ops' = r
  BY <1>2 DEF Reads, ReadsOperator
<1>4. Traced(q, v) /\ Reading(v, o)
  BY <1>1, <1>2 DEF JumpsKnown, Reading, LoweringInv
<1>5. Traced(r, w)
  BY <1>2, <1>4, TraceGrows
<1>6. IsSeq(q) /\ CheckedAt(q)[Len(q)] = v
  BY <1>4 DEF Traced
<1>7. Len(q) \in Nat /\ Len(r) = Len(q) + 1
  BY <1>2, <1>6, AppendReads
<1>8. PICK L : L = lowering
  OBVIOUS
<1>9. Formed(L) /\ L.control_stack # <<>> /\ Len(L.control_stack) = Len(v.labels)
  BY <1>1, <1>2, <1>8, OpenState DEF Good
<1>10. DepthAt(q)[Len(q)] = Len(L.control_stack)
  <2>1. Len(q) \in 0 .. Len(q)
    BY <1>7
  <2>2. Len(CheckedAt(q)[Len(q)].labels) = DepthAt(q)[Len(q)]
    BY <1>4, <2>1, TraceLevels
  <2> QED
    BY <1>6, <1>9, <2>2
<1>11. /\ lowering' = M
       /\ instruction_offsets' = OffsetsTo(instruction_offsets, L.instructions, M.instructions, Len(r))
  BY <1>2, <1>7, <1>8 DEF Lowers, offsets_to, OffsetsTo, len
<1>12. JumpsTracked(q, instruction_offsets, L.control_stack, L.instructions)
  BY <1>2, <1>8 DEF JumpsKnown
<1>13. Advances(q, instruction_offsets, L, o, r, instruction_offsets', M)
  BY <1>2, <1>6, <1>9, <1>10, <1>11, <1>12 DEF Advances
<1> QED
  BY <1>1, <1>2, <1>3, <1>5, <1>8, <1>11, <1>13

(* What live code knows of the jumps.                                       *)
LEMMA LiveJumps ==
  ASSUME LoweringInv, JumpsKnown, status = "lowering", valid.labels # <<>>, ~tracking.unreachable
  PROVE  /\ Formed(lowering) /\ lowering.control_stack # <<>> /\ tracking.blocks = <<>>
         /\ Good(lowering, valid.height) /\ valid.height \in Nat
         /\ Len(lowering.control_stack) \in Nat \ {0}
         /\ Len(lowering.control_stack) = Len(valid.labels)
<1>1. tracking.blocks = <<>>
  BY DEF LoweringInv, LabelsMatch
<1> QED
  BY <1>1, LiveState DEF Good

(* An operator that opens, closes and rewrites no label.                    *)
LEMMA MarkedStep ==
  ASSUME LoweringInv, JumpsKnown, status = "lowering", valid.labels # <<>>, ~tracking.unreachable,
         NEW o, IsOperator(o), o.op \notin Openers \cup {"Else", "End"},
         valid' = Validated(valid, o), Traced(ops', valid'), NEW M, lowering' = M,
         JumpsTracked(ops', instruction_offsets', M.control_stack, M.instructions),
         Marked(lowering.control_stack, M.control_stack)
  PROVE  JumpsKnown'
<1>1. PICK v, L : v = valid /\ L = lowering
  OBVIOUS
<1>2. Len(L.control_stack) = Len(v.labels) /\ ReaderInv(v)
  BY <1>1, LiveState
<1>3. PICK ms : ms = Validated(v, o).labels
  OBVIOUS
<1>4. SameKinds(v.labels, ms)
  BY <1>1, <1>2, <1>3, ValidatedKinds
<1>5. IfsMatch(L.control_stack, v.labels)
  BY <1>1 DEF JumpsKnown
<1>6. IfsMatch(M.control_stack, ms)
  BY <1>1, <1>2, <1>4, <1>5, MatchMarked
<1>7. valid'.labels = ms
  BY <1>1, <1>3
<1> QED
  BY <1>6, <1>7 DEF JumpsKnown

LEMMA CalmStep ==
  ASSUME LoweringInv, JumpsKnown, NEW o \in Alphabets[alphabet].ops, Reads(o),
         ~tracking.unreachable, o.op \notin Openers \cup {"Else", "End"},
         NEW M, Lowers(o, M), Calm(lowering, M)
  PROVE  JumpsKnown'
<1>1. /\ IsOperator(o) /\ status = "lowering" /\ valid.labels # <<>>
      /\ valid' = Validated(valid, o)
  BY ReadGives
<1>2. tracking.blocks = <<>>
  BY <1>1, LiveJumps
<1>3. /\ Advances(ops, instruction_offsets, lowering, o, ops', instruction_offsets', M)
      /\ Traced(ops', valid') /\ lowering' = M
  BY <1>2, ActionAdvances
<1>4. JumpsTracked(ops', instruction_offsets', M.control_stack, M.instructions)
  <2>1. PICK q, os, L, r, ps : /\ q = ops /\ os = instruction_offsets /\ L = lowering
                               /\ r = ops' /\ ps = instruction_offsets'
    OBVIOUS
  <2>2. Advances(q, os, L, o, r, ps, M) /\ Calm(L, M)
    BY <1>3, <2>1
  <2>3. o.op \notin {"End", "Else"}
    OBVIOUS
  <2>4. JumpsTracked(r, ps, M.control_stack, M.instructions)
    BY ONLY <2>2, <2>3, StaysTracked
  <2> QED
    BY <2>1, <2>4
<1>5. Marked(lowering.control_stack, M.control_stack)
  BY MarkedItself DEF Calm
<1> QED
  BY <1>1, <1>3, <1>4, <1>5, MarkedStep

LEMMA LeavesStep ==
  ASSUME LoweringInv, JumpsKnown, NEW o \in Alphabets[alphabet].ops, Reads(o),
         ~tracking.unreachable, o.op \notin Openers \cup {"Else", "End"},
         NEW M, Lowers(o, M), NEW x, NEW targets, Leaves(lowering, M, x, targets), Wellmade(x),
         Aims(lowering, o, x, targets)
  PROVE  JumpsKnown'
<1>1. /\ IsOperator(o) /\ status = "lowering" /\ valid.labels # <<>>
      /\ valid' = Validated(valid, o)
  BY ReadGives
<1>2. tracking.blocks = <<>>
  BY <1>1, LiveJumps
<1>3. /\ Advances(ops, instruction_offsets, lowering, o, ops', instruction_offsets', M)
      /\ Traced(ops', valid') /\ lowering' = M
  BY <1>2, ActionAdvances
<1>4. JumpsTracked(ops', instruction_offsets', M.control_stack, M.instructions)
  <2>1. PICK q, os, L, r, ps : /\ q = ops /\ os = instruction_offsets /\ L = lowering
                               /\ r = ops' /\ ps = instruction_offsets'
    OBVIOUS
  <2>2. /\ Advances(q, os, L, o, r, ps, M) /\ Leaves(L, M, x, targets) /\ Wellmade(x)
        /\ Aims(L, o, x, targets)
    BY <1>3, <2>1
  <2>3. JumpsTracked(r, ps, M.control_stack, M.instructions)
    BY ONLY <2>2, LeavesTracked
  <2> QED
    BY <2>1, <2>3
<1>5. Marked(lowering.control_stack, M.control_stack)
  BY DEF Leaves, Gains
<1> QED
  BY <1>1, <1>3, <1>4, <1>5, MarkedStep

LEMMA PlainlyJumps ==
  ASSUME LoweringInv, JumpsKnown, NEW o \in Alphabets[alphabet].ops, Plainly(o)
  PROVE  JumpsKnown'
<1>1. Reads(o) /\ status = "lowering" /\ valid.labels # <<>>
  BY ReadGives DEF Plainly
<1>2. o.op \notin Openers \cup {"Else", "End"}
  BY <1>1, ReadGives, OperatorCases DEF Plainly, Openers
<1>3. ~tracking.unreachable
  BY <1>2 DEF Plainly, Lowers, Reachable, Resumes
<1>4. PICK M : M = LowerPlain(lowering, o)
  OBVIOUS
<1>5. Calm(lowering, M)
  BY <1>1, <1>3, <1>4, LiveJumps, PlainCalm DEF Plainly
<1>6. Lowers(o, M)
  BY <1>4 DEF Plainly
<1> QED
  BY <1>1, <1>2, <1>3, <1>5, <1>6, CalmStep

LEMMA CallJumps ==
  ASSUME LoweringInv, JumpsKnown, NEW o \in Alphabets[alphabet].ops, Call(o)
  PROVE  JumpsKnown'
<1>1. Reads(o) /\ status = "lowering" /\ valid.labels # <<>>
  BY ReadGives DEF Call
<1>2. o.op \notin Openers \cup {"Else", "End"}
  BY DEF Call, Openers
<1>3. ~tracking.unreachable
  BY <1>2 DEF Call, Lowers, Reachable, Resumes
<1>4. PICK M : M = LowerCall(lowering, o.ty)
  OBVIOUS
<1>5. Calm(lowering, M)
  BY <1>1, <1>3, <1>4, LiveJumps, CallCalm
<1>6. Lowers(o, M)
  BY <1>4 DEF Call
<1> QED
  BY <1>1, <1>2, <1>3, <1>5, <1>6, CalmStep

LEMMA CallIndirectJumps ==
  ASSUME LoweringInv, JumpsKnown, NEW o \in Alphabets[alphabet].ops, CallIndirect(o)
  PROVE  JumpsKnown'
<1>1. Reads(o) /\ status = "lowering" /\ valid.labels # <<>>
  BY ReadGives DEF CallIndirect
<1>2. o.op \notin Openers \cup {"Else", "End"}
  BY DEF CallIndirect, Openers
<1>3. ~tracking.unreachable
  BY <1>2 DEF CallIndirect, Lowers, Reachable, Resumes
<1>4. PICK M : M = LowerCallIndirect(lowering, o.ty)
  OBVIOUS
<1>5. Calm(lowering, M)
  BY <1>1, <1>3, <1>4, LiveJumps, CallIndirectCalm
<1>6. Lowers(o, M)
  BY <1>4 DEF CallIndirect
<1> QED
  BY <1>1, <1>2, <1>3, <1>5, <1>6, CalmStep

LEMMA TrapJumps ==
  ASSUME LoweringInv, JumpsKnown, NEW o \in Alphabets[alphabet].ops, Trap(o)
  PROVE  JumpsKnown'
<1>1. Reads(o) /\ status = "lowering" /\ valid.labels # <<>>
  BY ReadGives DEF Trap
<1>2. o.op \notin Openers \cup {"Else", "End"}
  BY DEF Trap, Openers
<1>3. ~tracking.unreachable
  BY <1>2 DEF Trap, Lowers, Reachable, Resumes
<1>4. PICK M : M = LowerUnreachable(lowering)
  OBVIOUS
<1>5. Calm(lowering, M)
  BY <1>1, <1>3, <1>4, LiveJumps, UnreachableCalm
<1>6. Lowers(o, M)
  BY <1>4 DEF Trap
<1> QED
  BY <1>1, <1>2, <1>3, <1>5, <1>6, CalmStep

LEMMA BrIfActionJumps ==
  ASSUME LoweringInv, JumpsKnown, NEW o \in Alphabets[alphabet].ops, BrIf(o)
  PROVE  JumpsKnown'
<1>1. /\ IsOperator(o) /\ o.op = "BrIf" /\ status = "lowering" /\ valid.labels # <<>>
      /\ Allowed(valid, o) /\ Reads(o)
  BY ReadGives DEF BrIf
<1>2. o.op \notin Openers \cup {"Else", "End"}
  BY <1>1 DEF Openers
<1>3. ~tracking.unreachable
  BY <1>1 DEF BrIf, Lowers, Reachable, Resumes
<1>4. PICK k : k = block_at(lowering, o.x)
  OBVIOUS
<1>5. k \in 1 .. Len(lowering.control_stack)
  <2>1. o.x \in Nat
    BY <1>1 DEF IsOperator
  <2>2. o.x < Len(valid.labels)
    BY <1>1, AllowedCases DEF Depths
  <2>3. /\ Len(lowering.control_stack) = Len(valid.labels)
        /\ Len(lowering.control_stack) \in Nat
    BY <1>1, <1>3, LiveJumps
  <2> QED
    BY <1>4, <2>1, <2>2, <2>3 DEF block_at
<1>6. PICK M : M = LowerBrIf(lowering, o.x)
  OBVIOUS
<1>7. PICK x : /\ Leaves(lowering, M, x, Only(0, k)) /\ Wellmade(x)
               /\ x.op = "BrIf" /\ x.target_index = branch_target(lowering.control_stack[k])
  <2>1. Formed(lowering)
    BY <1>1, <1>3, LiveJumps
  <2>2. PICK L, d : L = lowering /\ d = o.x /\ k = block_at(L, d)
    BY <1>4
  <2>3. Formed(L) /\ block_at(L, d) \in 1 .. Len(L.control_stack) /\ M = LowerBrIf(L, d)
    BY <1>5, <1>6, <2>1, <2>2
  <2>4. PICK x : /\ Leaves(L, M, x, Only(0, block_at(L, d))) /\ Wellmade(x)
                 /\ x.op = "BrIf"
                 /\ x.target_index = branch_target(L.control_stack[block_at(L, d)])
    BY ONLY <2>3, BrIfShape
  <2> QED
    BY <2>2, <2>4
<1>8. PICK targets : targets = Only(0, k)
  OBVIOUS
<1>9. Aims(lowering, o, x, targets)
  BY <1>1, <1>4, <1>5, <1>7, <1>8 DEF Aims, block_at
<1>10. Lowers(o, M) /\ Leaves(lowering, M, x, targets)
  BY <1>4, <1>6, <1>7, <1>8 DEF BrIf
<1> QED
  BY <1>1, <1>2, <1>3, <1>7, <1>9, <1>10, LeavesStep

LEMMA BrActionJumps ==
  ASSUME LoweringInv, JumpsKnown, NEW o \in Alphabets[alphabet].ops, Br(o)
  PROVE  JumpsKnown'
<1>1. /\ IsOperator(o) /\ o.op = "Br" /\ status = "lowering" /\ valid.labels # <<>>
      /\ Allowed(valid, o) /\ Reads(o)
  BY ReadGives DEF Br
<1>2. o.op \notin Openers \cup {"Else", "End"}
  BY <1>1 DEF Openers
<1>3. ~tracking.unreachable
  BY <1>1 DEF Br, Lowers, Reachable, Resumes
<1>4. PICK k : k = block_at(lowering, o.x)
  OBVIOUS
<1>5. k \in 1 .. Len(lowering.control_stack)
  <2>1. o.x \in Nat
    BY <1>1 DEF IsOperator
  <2>2. o.x < Len(valid.labels)
    BY <1>1, AllowedCases DEF Depths
  <2>3. /\ Len(lowering.control_stack) = Len(valid.labels)
        /\ Len(lowering.control_stack) \in Nat
    BY <1>1, <1>3, LiveJumps
  <2> QED
    BY <1>4, <2>1, <2>2, <2>3 DEF block_at
<1>6. PICK M : M = LowerBr(lowering, "Br", k)
  OBVIOUS
<1>7. PICK x : /\ Leaves(lowering, M, x, Only(0, k)) /\ Wellmade(x)
               /\ x.op = "Br" /\ x.target_index = branch_target(lowering.control_stack[k])
  <2>1. Formed(lowering)
    BY <1>1, <1>3, LiveJumps
  <2>2. PICK L, name : L = lowering /\ name = "Br"
    OBVIOUS
  <2>3. /\ Formed(L) /\ k \in 1 .. Len(L.control_stack) /\ name \in {"Br", "Return"}
        /\ M = LowerBr(L, name, k)
    BY <1>5, <1>6, <2>1, <2>2
  <2>4. PICK x : /\ Leaves(L, M, x, Only(0, k)) /\ Wellmade(x)
                 /\ x.op = name /\ x.target_index = branch_target(L.control_stack[k])
    BY ONLY <2>3, BrShape
  <2> QED
    BY <2>2, <2>4
<1>8. PICK targets : targets = Only(0, k)
  OBVIOUS
<1>9. Aims(lowering, o, x, targets)
  BY <1>1, <1>4, <1>5, <1>7, <1>8 DEF Aims, block_at
<1>10. Lowers(o, M) /\ Leaves(lowering, M, x, targets)
  BY <1>4, <1>6, <1>7, <1>8 DEF Br
<1> QED
  BY <1>1, <1>2, <1>3, <1>7, <1>9, <1>10, LeavesStep

LEMMA ReturnActionJumps ==
  ASSUME LoweringInv, JumpsKnown, NEW o \in Alphabets[alphabet].ops, Return(o)
  PROVE  JumpsKnown'
<1>1. /\ IsOperator(o) /\ o.op = "Return" /\ status = "lowering" /\ valid.labels # <<>>
      /\ Allowed(valid, o) /\ Reads(o)
  BY ReadGives DEF Return
<1>2. o.op \notin Openers \cup {"Else", "End"}
  BY <1>1 DEF Openers
<1>3. ~tracking.unreachable
  BY <1>1 DEF Return, Lowers, Reachable, Resumes
<1>4. PICK k : k = 1
  OBVIOUS
<1>5. k \in 1 .. Len(lowering.control_stack)
  <2>1. Len(lowering.control_stack) \in Nat \ {0}
    BY <1>1, <1>3, LiveJumps
  <2> QED
    BY <1>4, <2>1
<1>6. PICK M : M = LowerBr(lowering, "Return", k)
  OBVIOUS
<1>7. PICK x : /\ Leaves(lowering, M, x, Only(0, k)) /\ Wellmade(x)
               /\ x.op = "Return" /\ x.target_index = branch_target(lowering.control_stack[k])
  <2>1. Formed(lowering)
    BY <1>1, <1>3, LiveJumps
  <2>2. PICK L, name : L = lowering /\ name = "Return"
    OBVIOUS
  <2>3. /\ Formed(L) /\ k \in 1 .. Len(L.control_stack) /\ name \in {"Br", "Return"}
        /\ M = LowerBr(L, name, k)
    BY <1>5, <1>6, <2>1, <2>2
  <2>4. PICK x : /\ Leaves(L, M, x, Only(0, k)) /\ Wellmade(x)
                 /\ x.op = name /\ x.target_index = branch_target(L.control_stack[k])
    BY ONLY <2>3, BrShape
  <2> QED
    BY <2>2, <2>4
<1>8. PICK targets : targets = Only(0, k)
  OBVIOUS
<1>9. Aims(lowering, o, x, targets)
  BY <1>1, <1>4, <1>5, <1>7, <1>8 DEF Aims, block_at
<1>10. Lowers(o, M) /\ Leaves(lowering, M, x, targets)
  BY <1>4, <1>6, <1>7, <1>8 DEF Return
<1> QED
  BY <1>1, <1>2, <1>3, <1>7, <1>9, <1>10, LeavesStep

LEMMA BrTableActionJumps ==
  ASSUME LoweringInv, JumpsKnown, NEW o \in Alphabets[alphabet].ops, BrTable(o)
  PROVE  JumpsKnown'
<1>1. /\ IsOperator(o) /\ o.op = "BrTable" /\ status = "lowering" /\ valid.labels # <<>>
      /\ Allowed(valid, o) /\ Reads(o)
  BY ReadGives DEF BrTable
<1>2. o.op \notin Openers \cup {"Else", "End"}
  BY <1>1 DEF Openers
<1>3. ~tracking.unreachable
  BY <1>1 DEF BrTable, Lowers, Reachable, Resumes
<1>4. PICK a, L : a = o.arms /\ L = lowering
  OBVIOUS
<1>5. a \in Seq(Nat) /\ Len(a) \in Nat /\ DOMAIN a = 1 .. Len(a)
  BY <1>1, <1>4 DEF IsOperator
<1>6. \A i \in 1 .. Len(a) : block_at(L, a[i]) \in 1 .. Len(L.control_stack)
  <2>1. PICK n \in {0, 1, 2} : \A d \in Depths(o) : d < Len(valid.labels) /\ CanPop(valid, n + 1)
    BY <1>1, AllowedCases
  <2>2. \A i \in 1 .. Len(a) : a[i] \in Nat /\ a[i] \in Depths(o)
    BY <1>1, <1>4, <1>5 DEF Depths
  <2>3. \A i \in 1 .. Len(a) : a[i] \in Nat /\ a[i] < Len(valid.labels)
    BY <2>1, <2>2
  <2>4. /\ Len(lowering.control_stack) = Len(valid.labels)
        /\ Len(lowering.control_stack) \in Nat
    BY <1>1, <1>3, LiveJumps
  <2> QED
    BY <1>4, <2>3, <2>4 DEF block_at
<1>7. PICK M : M = LowerBrTable(L, a)
  OBVIOUS
<1>8. PICK x : LeavesTable(L, M, x, a)
  <2>1. Formed(L) /\ Len(a) \in Nat
    BY <1>1, <1>3, <1>4, <1>5, LiveJumps
  <2> QED
    BY ONLY <1>6, <1>7, <2>1, BrTableShape
<1>8a. PICK targets : targets = ArmLevels(L, a)
  OBVIOUS
<1>8b. /\ Leaves(L, M, x, targets) /\ Wellmade(x) /\ x.op = "BrTable"
       /\ DOMAIN x.br_targets = 1 .. Len(a)
       /\ \A j \in 1 .. Len(a) :
            x.br_targets[j].target_index = branch_target(L.control_stack[block_at(L, a[j])])
  BY <1>8, <1>8a DEF LeavesTable
<1>9. Aims(L, o, x, targets)
  <2>1. DOMAIN targets = DOMAIN o.arms /\ DOMAIN x.br_targets = DOMAIN o.arms
    BY <1>4, <1>5, <1>8a, <1>8b DEF ArmLevels
  <2>2. ASSUME NEW j \in DOMAIN o.arms
        PROVE  /\ targets[j] = Len(L.control_stack) - o.arms[j]
               /\ targets[j] \in 1 .. Len(L.control_stack)
               /\ x.br_targets[j].target_index = branch_target(L.control_stack[targets[j]])
    <3>1. j \in 1 .. Len(a)
      BY <1>4, <1>5
    <3>2. targets[j] = block_at(L, a[j])
      BY <1>8a, <3>1 DEF ArmLevels
    <3> QED
      BY <1>4, <1>6, <1>8b, <3>1, <3>2 DEF block_at
  <2> QED
    BY <1>1, <1>8b, <2>1, <2>2 DEF Aims
<1>10. Lowers(o, M) /\ Leaves(lowering, M, x, targets) /\ Aims(lowering, o, x, targets)
  BY <1>4, <1>7, <1>8b, <1>9 DEF BrTable
<1> QED
  BY <1>1, <1>2, <1>3, <1>8b, <1>10, LeavesStep

(* An operator that opens a label.                                          *)
LEMMA OpenerJumps ==
  ASSUME LoweringInv, JumpsKnown, status = "lowering", valid.labels # <<>>, ~tracking.unreachable,
         NEW o, IsOperator(o), o.op \in Openers, valid' = Validated(valid, o),
         Traced(ops', valid'), NEW M, lowering' = M,
         JumpsTracked(ops', instruction_offsets', M.control_stack, M.instructions),
         NEW c, OpensBlock(lowering, M, o.op, c)
  PROVE  JumpsKnown'
<1>1. PICK v, L : v = valid /\ L = lowering
  OBVIOUS
<1>2. /\ Len(L.control_stack) = Len(v.labels) /\ ReaderInv(v)
      /\ Len(L.control_stack) \in Nat
  BY <1>1, LiveState
<1>3. PICK ms : ms = Validated(v, o).labels
  OBVIOUS
<1>4. OneMore(v.labels, ms, o.op)
  BY <1>2, <1>3, OpenedKinds DEF OneMore
<1>5. PICK b : /\ OpenedWith(L.control_stack, M.control_stack, b)
               /\ b.kind = o.op /\ b.else_index = Unset
  BY <1>1 DEF OpensBlock
<1>6. IfsMatch(L.control_stack, v.labels)
  BY <1>1 DEF JumpsKnown
<1>7. IfsMatch(M.control_stack, ms)
  BY <1>2, <1>4, <1>5, <1>6, MatchOpened
<1>8. valid'.labels = ms
  BY <1>1, <1>3
<1> QED
  BY <1>7, <1>8 DEF JumpsKnown

LEMMA OpenerFits ==
  ASSUME LoweringInv, JumpsKnown, NEW o \in Alphabets[alphabet].ops, Reads(o),
         ~tracking.unreachable, o.op \in Openers
  PROVE  \E h \in Nat : /\ Good(lowering, h) /\ o.ty[1] \in Nat /\ o.ty[2] \in Nat
                        /\ o.ty[1] <= h /\ (o.op = "If" => o.ty[1] + 1 <= h)
<1>1. /\ IsOperator(o) /\ status = "lowering" /\ valid.labels # <<>> /\ Allowed(valid, o)
  BY ReadGives
<1>2. PICK n \in Nat, r \in Nat : n = o.ty[1] /\ r = o.ty[2]
  BY <1>1, OperatorCases DEF Openers
<1>3. PICK p \in Nat : p = IF o.op = "If" THEN n + 1 ELSE n
  OBVIOUS
<1>4. CanPop(valid, p)
  BY <1>1, <1>2, <1>3, AllowedCases DEF Openers
<1>5. PICK h \in Nat : h = valid.height /\ p <= h
  BY <1>1, <1>4, PopsThere
<1>6. Good(lowering, h)
  BY <1>1, <1>5, LiveJumps
<1>7. n <= h /\ (o.op = "If" => n + 1 <= h)
  BY <1>3, <1>5
<1> QED
  BY <1>2, <1>6, <1>7

(* What lowering an opener L into M leaves to know.                         *)
LEMMA OpenedStep ==
  ASSUME LoweringInv, JumpsKnown, NEW o \in Alphabets[alphabet].ops, Reads(o),
         ~tracking.unreachable, o.op \in Openers, NEW M, Lowers(o, M),
         NEW b, OpensBlock(lowering, M, o.op, b),
         \A q, os, r, ps : Advances(q, os, lowering, o, r, ps, M) =>
           JumpsTracked(r, ps, M.control_stack, M.instructions)
  PROVE  JumpsKnown'
<1>1. /\ IsOperator(o) /\ status = "lowering" /\ valid.labels # <<>>
      /\ valid' = Validated(valid, o)
  BY ReadGives
<1>2. tracking.blocks = <<>>
  BY <1>1, LiveJumps
<1>3. /\ Advances(ops, instruction_offsets, lowering, o, ops', instruction_offsets', M)
      /\ Traced(ops', valid') /\ lowering' = M
  BY <1>2, ActionAdvances
<1>4. JumpsTracked(ops', instruction_offsets', M.control_stack, M.instructions)
  BY <1>3
<1> QED
  BY <1>1, <1>3, <1>4, OpenerJumps

LEMMA BlockActionJumps ==
  ASSUME LoweringInv, JumpsKnown, NEW o \in Alphabets[alphabet].ops, Block(o)
  PROVE  JumpsKnown'
<1>1. o.op = "Block" /\ o.op \in Openers /\ Reads(o)
  BY DEF Block, Openers
<1>2. ~tracking.unreachable
  BY <1>1 DEF Block, Lowers, Reachable, Resumes
<1>3. PICK h \in Nat : /\ Good(lowering, h) /\ o.ty[1] \in Nat /\ o.ty[2] \in Nat
                      /\ o.ty[1] <= h /\ (o.op = "If" => o.ty[1] + 1 <= h)
  BY <1>1, <1>2, OpenerFits
<1>4. PICK L : L = lowering
  OBVIOUS
<1>5. PICK M : M = LowerBlock(L, o)
  OBVIOUS
<1>6. /\ Good(L, h) /\ o.ty[1] \in Nat /\ o.ty[2] \in Nat /\ o.ty[1] <= h /\ h \in Nat
  BY <1>1, <1>3, <1>4
<1>7. PICK b : OpensBlock(L, M, o.op, b) /\ Continues(L.instructions, M.instructions)
  <2>1. /\ Continues(L.instructions, M.instructions)
        /\ \E b : OpensBlock(L, M, "Block", b)
    BY ONLY <1>5, <1>6, BlockShape
  <2> QED
    BY <1>1, <2>1
<1>8. ASSUME NEW q, NEW os, NEW r, NEW ps, Advances(q, os, L, o, r, ps, M)
      PROVE  JumpsTracked(r, ps, M.control_stack, M.instructions)
  <2>1. Advances(q, os, L, o, r, ps, M)
    BY <1>8
  <2>2. o.op \in {"Block", "Loop"} /\ o.op # "Loop"
    BY <1>1
  <2>3. o.op = "Loop" => /\ b.index \in Len(L.instructions) .. Len(M.instructions) - 1
                         /\ M.instructions[b.index + 1].op = "Loop"
    BY <2>2
  <2> QED
    BY ONLY <1>7, <2>1, <2>2, <2>3, BlockTracked
<1>9. Lowers(o, M)
  BY <1>4, <1>5 DEF Block
<1>10. OpensBlock(lowering, M, o.op, b)
  BY <1>4, <1>7
<1> QED
  BY <1>1, <1>2, <1>4, <1>8, <1>9, <1>10, OpenedStep

LEMMA LoopActionJumps ==
  ASSUME LoweringInv, JumpsKnown, NEW o \in Alphabets[alphabet].ops, Loop(o)
  PROVE  JumpsKnown'
<1>1. o.op = "Loop" /\ o.op \in Openers /\ Reads(o)
  BY DEF Loop, Openers
<1>2. ~tracking.unreachable
  BY <1>1 DEF Loop, Lowers, Reachable, Resumes
<1>3. PICK h \in Nat : /\ Good(lowering, h) /\ o.ty[1] \in Nat /\ o.ty[2] \in Nat
                      /\ o.ty[1] <= h /\ (o.op = "If" => o.ty[1] + 1 <= h)
  BY <1>1, <1>2, OpenerFits
<1>4. PICK L : L = lowering
  OBVIOUS
<1>5. PICK M : M = LowerLoop(L, o)
  OBVIOUS
<1>6. /\ Good(L, h) /\ o.ty[1] \in Nat /\ o.ty[2] \in Nat /\ o.ty[1] <= h /\ h \in Nat
  BY <1>1, <1>3, <1>4
<1>7. PICK b : /\ OpensBlock(L, M, o.op, b) /\ Continues(L.instructions, M.instructions)
               /\ b.index \in Len(L.instructions) .. Len(M.instructions) - 1
               /\ M.instructions[b.index + 1].op = "Loop"
  <2>1. /\ Continues(L.instructions, M.instructions)
        /\ \E b : /\ OpensBlock(L, M, "Loop", b)
                  /\ b.index \in Len(L.instructions) .. Len(M.instructions) - 1
                  /\ M.instructions[b.index + 1].op = "Loop"
    BY ONLY <1>5, <1>6, LoopShape
  <2> QED
    BY <1>1, <2>1
<1>8. ASSUME NEW q, NEW os, NEW r, NEW ps, Advances(q, os, L, o, r, ps, M)
      PROVE  JumpsTracked(r, ps, M.control_stack, M.instructions)
  <2>1. Advances(q, os, L, o, r, ps, M)
    BY <1>8
  <2>2. o.op \in {"Block", "Loop"}
    BY <1>1
  <2>3. o.op = "Loop" => /\ b.index \in Len(L.instructions) .. Len(M.instructions) - 1
                         /\ M.instructions[b.index + 1].op = "Loop"
    BY <1>7
  <2> QED
    BY ONLY <1>7, <2>1, <2>2, <2>3, BlockTracked
<1>9. Lowers(o, M)
  BY <1>4, <1>5 DEF Loop
<1>10. OpensBlock(lowering, M, o.op, b)
  BY <1>4, <1>7
<1> QED
  BY <1>1, <1>2, <1>4, <1>8, <1>9, <1>10, OpenedStep

LEMMA IfActionJumps ==
  ASSUME LoweringInv, JumpsKnown, NEW o \in Alphabets[alphabet].ops, If(o)
  PROVE  JumpsKnown'
<1>1. o.op = "If" /\ o.op \in Openers /\ Reads(o)
  BY DEF If, Openers
<1>2. ~tracking.unreachable
  BY <1>1 DEF If, Lowers, Reachable, Resumes
<1>3. PICK h \in Nat : /\ Good(lowering, h) /\ o.ty[1] \in Nat /\ o.ty[2] \in Nat
                      /\ o.ty[1] <= h /\ (o.op = "If" => o.ty[1] + 1 <= h)
  BY <1>1, <1>2, OpenerFits
<1>4. PICK L : L = lowering
  OBVIOUS
<1>5. PICK M : M = LowerIf(L, o)
  OBVIOUS
<1>6. /\ Good(L, h) /\ o.ty[1] \in Nat /\ o.ty[2] \in Nat /\ o.ty[1] + 1 <= h /\ h \in Nat
  BY <1>1, <1>3, <1>4
<1>7. PICK b, ms : /\ OpensBlock(L, M, o.op, b) /\ Continues(L.instructions, ms)
                   /\ M.instructions = Append(ms, IfInstr) /\ b.index = Len(ms)
  <2>1. \E b, ms : OpensIf(L, M, b, ms)
    BY ONLY <1>5, <1>6, IfShape
  <2> QED
    BY <1>1, <2>1 DEF OpensIf
<1>8. ASSUME NEW q, NEW os, NEW r, NEW ps, Advances(q, os, L, o, r, ps, M)
      PROVE  JumpsTracked(r, ps, M.control_stack, M.instructions)
  <2>1. Advances(q, os, L, o, r, ps, M)
    BY <1>8
  <2>2. o.op = "If" /\ OpensBlock(L, M, "If", b)
    BY <1>1, <1>7
  <2> QED
    BY ONLY <1>7, <2>1, <2>2, IfTracked
<1>9. Lowers(o, M)
  BY <1>4, <1>5 DEF If
<1>10. OpensBlock(lowering, M, o.op, b)
  BY <1>4, <1>7
<1> QED
  BY <1>1, <1>2, <1>4, <1>8, <1>9, <1>10, OpenedStep

(* At an else or an end the code may be dead, its label open all the same.  *)
LEMMA ClosingJumps ==
  ASSUME LoweringInv, JumpsKnown, status = "lowering", valid.labels # <<>>,
         tracking.blocks = <<>>, NEW L, L = lowering, NEW v, v = valid
  PROVE  /\ Formed(L) /\ L.control_stack # <<>> /\ ReaderInv(v)
         /\ Len(L.control_stack) = Len(v.labels)
         /\ IfsMatch(L.control_stack, v.labels)
BY OpenState DEF JumpsKnown, Good

LEMMA ElseActionJumps ==
  ASSUME LoweringInv, JumpsKnown, NEW o \in Alphabets[alphabet].ops, Else(o)
  PROVE  JumpsKnown'
<1>1. /\ IsOperator(o) /\ o.op = "Else" /\ status = "lowering" /\ valid.labels # <<>>
      /\ Allowed(valid, o) /\ valid' = Validated(valid, o) /\ Reads(o)
  BY ReadGives DEF Else
<1>2. tracking.blocks = <<>>
  <2>1. ~tracking.unreachable => tracking.blocks = <<>>
    BY <1>1 DEF LoweringInv, LabelsMatch
  <2> QED
    BY <2>1 DEF Else, Lowers, Reachable, Resumes
<1>3. PICK v, L : v = valid /\ L = lowering
  OBVIOUS
<1>4. /\ Formed(L) /\ L.control_stack # <<>> /\ ReaderInv(v)
      /\ Len(L.control_stack) = Len(v.labels)
      /\ IfsMatch(L.control_stack, v.labels)
  BY <1>1, <1>2, <1>3, ClosingJumps
<1>5. PICK m \in Nat \ {0} : m = Len(v.labels)
  BY <1>1, <1>3, <1>4, InnermostIsLabel
<1>6. PICK ms : ms = Validated(v, o).labels
  OBVIOUS
<1>7. /\ v.labels[m].kind = "If"
      /\ \A k \in 1 .. m : ms[k].kind = IF k = m THEN "Else" ELSE v.labels[k].kind
  BY <1>1, <1>3, <1>4, <1>5, <1>6, ElseKinds
<1>8. curr_block(L).kind = "If" /\ curr_block(L).else_index = Unset
  <2>1. m \in 1 .. Len(L.control_stack) /\ curr_block(L) = L.control_stack[m]
    BY <1>4, <1>5 DEF curr_block
  <2> QED
    BY <1>4, <1>7, <2>1 DEF IfsMatch
<1>9. PICK M : M = LowerElse(L)
  OBVIOUS
<1>10. Lowers(o, M)
  BY <1>3, <1>9 DEF Else
<1>11. PICK q, os, r, ps : /\ q = ops /\ os = instruction_offsets
                           /\ r = ops' /\ ps = instruction_offsets'
  OBVIOUS
<1>12. Advances(q, os, L, o, r, ps, M) /\ Traced(r, valid') /\ lowering' = M
  BY <1>1, <1>2, <1>3, <1>10, <1>11, ActionAdvances
<1>13. JumpsTracked(r, ps, M.control_stack, M.instructions)
  <2>1. o.op = "Else"
    BY <1>1
  <2> QED
    BY ONLY <1>8, <1>9, <1>12, <2>1, ElseTracked
<1>14. /\ Len(M.control_stack) = Len(L.control_stack)
       /\ \A k \in 1 .. Len(L.control_stack) - 1 : M.control_stack[k] = L.control_stack[k]
  <2>1. Formed(L) /\ L.control_stack # <<>>
    BY <1>4
  <2>2. \E ms_1, d : /\ Formed(M) /\ Continues(L.instructions, ms_1)
                     /\ M.instructions = Append(ms_1, ElseInstr)
                     /\ Len(M.control_stack) = Len(L.control_stack)
                     /\ \A k \in 1 .. Len(L.control_stack) - 1 :
                          M.control_stack[k] = L.control_stack[k]
                     /\ M.control_stack[Len(L.control_stack)] = d
                     /\ d.kind = "If" /\ d.index = curr_block(L).index
                     /\ d.else_index = Len(ms_1) /\ Breaks(d) = Breaks(curr_block(L))
    BY ONLY <1>8, <1>9, <2>1, ElseShape
  <2> QED
    BY <2>2
<1>15. IfsMatch(M.control_stack, ms)
  <2>1. ElseLabels(L.control_stack, M.control_stack, v.labels, ms, m)
    BY <1>4, <1>5, <1>7, <1>14 DEF ElseLabels
  <2> QED
    BY <1>4, <2>1, MatchElse
<1>16. valid'.labels = ms
  BY <1>1, <1>3, <1>6
<1> QED
  BY <1>11, <1>12, <1>13, <1>15, <1>16 DEF JumpsKnown

LEMMA EndActionJumps ==
  ASSUME LoweringInv, JumpsKnown, NEW o \in Alphabets[alphabet].ops, End(o)
  PROVE  JumpsKnown'
<1>1. /\ IsOperator(o) /\ o.op = "End" /\ status = "lowering" /\ valid.labels # <<>>
      /\ Allowed(valid, o) /\ valid' = Validated(valid, o) /\ Reads(o)
  BY ReadGives DEF End
<1>2. tracking.blocks = <<>>
  <2>1. ~tracking.unreachable => tracking.blocks = <<>>
    BY <1>1 DEF LoweringInv, LabelsMatch
  <2> QED
    BY <2>1 DEF End, Lowers, Reachable, Resumes
<1>3. PICK v, L : v = valid /\ L = lowering
  OBVIOUS
<1>4. /\ Formed(L) /\ L.control_stack # <<>> /\ ReaderInv(v)
      /\ Len(L.control_stack) = Len(v.labels)
      /\ IfsMatch(L.control_stack, v.labels)
  BY <1>1, <1>2, <1>3, ClosingJumps
<1>5. PICK m \in Nat \ {0} : m = Len(v.labels)
  BY <1>1, <1>3, <1>4, InnermostIsLabel
<1>6. PICK ms : ms = Validated(v, o).labels
  OBVIOUS
<1>7. PICK M : M = LowerEnd(L)
  OBVIOUS
<1>8. Lowers(o, M)
  BY <1>3, <1>7 DEF End
<1>9. PICK q, os, r, ps : /\ q = ops /\ os = instruction_offsets
                          /\ r = ops' /\ ps = instruction_offsets'
  OBVIOUS
<1>10. Advances(q, os, L, o, r, ps, M) /\ Traced(r, valid') /\ lowering' = M
  BY <1>1, <1>2, <1>3, <1>8, <1>9, ActionAdvances
<1>11. /\ JumpsTracked(r, ps, M.control_stack, M.instructions)
       /\ Len(M.control_stack) = m - 1
       /\ \A k \in 1 .. m - 1 : M.control_stack[k] = L.control_stack[k]
  <2>1. o.op = "End"
    BY <1>1
  <2>2. /\ JumpsTracked(r, ps, M.control_stack, M.instructions)
        /\ Formed(M) /\ Len(M.control_stack) = Len(L.control_stack) - 1
        /\ \A k \in 1 .. Len(L.control_stack) - 1 : M.control_stack[k] = L.control_stack[k]
    BY ONLY <1>7, <1>10, <2>1, EndTracked
  <2> QED
    BY <1>4, <1>5, <2>2
<1>12. \A k \in 1 .. m - 1 : ms[k] = v.labels[k]
  <2>1. ms = SubSeq(v.labels, 1, m - 1)
    BY <1>1, <1>3, <1>5, <1>6, ValidatedCases
  <2>2. v.labels \in Seq(ValidatorLabel)
    BY <1>4 DEF ReaderInv, Validator
  <2> QED
    BY <1>5, <2>1, <2>2
<1>13. IfsMatch(M.control_stack, ms)
  <2>1. \A k \in 1 .. m - 1 : k \in 1 .. Len(L.control_stack)
    BY <1>4, <1>5
  <2> QED
    BY <1>4, <1>11, <1>12, <2>1, MatchBelow
<1>14. valid'.labels = ms
  BY <1>1, <1>3, <1>6
<1> QED
  BY <1>9, <1>10, <1>11, <1>13, <1>14 DEF JumpsKnown

(* A skipped operator closes none of the labels the lowering has open, and  *)
(* is the else of none.                                                     *)
LEMMA SkippedTracked ==
  ASSUME NEW q, IsSeq(q), NEW o, NEW r, r = Append(q, o), NEW os, NEW cs, NEW is,
         JumpsTracked(q, os, cs, is), Len(cs) \in Nat \ {0}, cs # <<>>,
         NEW n \in Nat, DepthAt(q)[Len(q)] = Len(cs) + n, o.op \in {"Else", "End"} => n # 0
  PROVE  JumpsTracked(r, os, cs, is)
<1>1. PICK m \in Nat \ {0} : m = Len(cs)
  OBVIOUS
<1>2. Offsets(q, os, is)
  BY DEF JumpsTracked
<1>3. Len(is) \in Nat /\ Len(os) = Len(is) /\ IsSeq(os) /\ IsSeq(is)
  BY <1>2 DEF Offsets, IsSeq
<1>4. Goes(q, os, is, r, os, is)
  <2>1. Extends(q, r)
    BY BodyExtends
  <2>2. SameNames(is, is) /\ Dated(os, is, os, is, Len(r))
    BY <1>3 DEF SameNames, Dated
  <2> QED
    BY <1>2, <2>1, <2>2 DEF Goes
<1>5. StayOpen(q, r, m)
  <2>1. Delta(o) \in {-1, 0, 1} /\ (o.op # "End" => Delta(o) \in {0, 1})
    BY DEF Delta
  <2>2. DepthAt(q)[Len(q)] + Delta(o) >= m
    BY <1>1, <2>1
  <2> QED
    BY <2>2, LabelsStayOpen
<1>6. StayElse(q, r, m)
  <2>1. o.op = "Else" => DepthAt(q)[Len(q)] > m
    BY <1>1
  <2> QED
    BY <2>1, LabelsStayElse
<1>7. Continues(is, is)
  BY <1>3, ContinuesItself
<1> QED
  BY <1>1, <1>4, <1>5, <1>6, <1>7, CalmTracked

LEMMA SkipJumps ==
  ASSUME LoweringInv, JumpsKnown, NEW o \in Alphabets[alphabet].ops, Skip(o)
  PROVE  JumpsKnown'
<1>1. /\ IsOperator(o) /\ status = "lowering" /\ valid.labels # <<>>
      /\ Allowed(valid, o) /\ valid' = Validated(valid, o) /\ Reads(o)
  BY ReadGives DEF Skip
<1>2. /\ tracking.unreachable /\ (o.op \in {"Else", "End"} => tracking.blocks # <<>>)
      /\ lowering' = lowering /\ instruction_offsets' = instruction_offsets
  BY DEF Skip, Reachable, Resumes
<1>3. PICK v, L, t, os : v = valid /\ L = lowering /\ t = tracking /\ os = instruction_offsets
  OBVIOUS
<1>4. /\ Formed(L) /\ LabelsMatch(L.control_stack, v, t) /\ t \in Tracking /\ ReaderInv(v)
  BY <1>1, <1>3 DEF LoweringInv
<1>5. L.control_stack # <<>> /\ Len(L.control_stack) \in Nat \ {0}
  <2>1. L.control_stack # <<>>
    BY <1>2, <1>3, <1>4 DEF LabelsMatch
  <2> QED
    BY <1>4, <2>1 DEF Formed
<1>6. PICK w : w = Validated(v, o)
  OBVIOUS
<1>7. PICK u : u = AfterSkip(t, o)
  OBVIOUS
<1>8. \A k \in 1 .. Len(L.control_stack) : w.labels[k] = v.labels[k]
  BY <1>1, <1>2, <1>3, <1>4, <1>5, <1>6, <1>7, LabelsSkippedMatch
<1>9. PICK q, r : q = ops /\ r = Append(ops, o) /\ ops' = r
  BY <1>1 DEF Reads, ReadsOperator
<1>10. /\ Traced(q, v) /\ JumpsTracked(q, os, L.control_stack, L.instructions)
       /\ IfsMatch(L.control_stack, v.labels)
  BY <1>3, <1>9 DEF JumpsKnown
<1>11. Traced(r, w)
  <2>1. Reading(v, o) /\ r = Append(q, o)
    BY <1>1, <1>3, <1>4, <1>9 DEF Reading
  <2> QED
    BY <1>6, <1>10, <2>1, TraceGrows
<1>12. PICK n \in Nat : n = Len(t.blocks) /\ (o.op \in {"Else", "End"} => n # 0)
  <2>1. PICK bs \in Seq(Openers) : bs = t.blocks
    BY <1>4 DEF Tracking
  <2> QED
    BY <1>2, <1>3, <2>1
<1>13. DepthAt(q)[Len(q)] = Len(L.control_stack) + n /\ IsSeq(q)
  <2>1. IsSeq(q) /\ CheckedAt(q)[Len(q)] = v
    BY <1>10 DEF Traced
  <2>2. Len(q) \in 0 .. Len(q)
    BY <2>1 DEF IsSeq
  <2>3. Len(CheckedAt(q)[Len(q)].labels) = DepthAt(q)[Len(q)]
    BY SMTT(30), <1>10, <2>2, TraceLevels
  <2> QED
    BY <1>4, <1>12, <2>1, <2>3 DEF LabelsMatch
<1>14. JumpsTracked(r, os, L.control_stack, L.instructions)
  <2>1. PICK cs, is : cs = L.control_stack /\ is = L.instructions
    OBVIOUS
  <2>2. r = Append(q, o) /\ JumpsTracked(q, os, cs, is)
    BY <1>9, <1>10, <2>1
  <2>3. Len(cs) \in Nat \ {0} /\ cs # <<>> /\ DepthAt(q)[Len(q)] = Len(cs) + n
    BY <1>5, <1>13, <2>1
  <2>4. JumpsTracked(r, os, cs, is)
    BY <1>12, <1>13, <2>2, <2>3, SkippedTracked
  <2> QED
    BY <2>1, <2>4
<1>15. IfsMatch(L.control_stack, w.labels)
  BY <1>8, <1>10, MatchBelow
<1>16. lowering' = L /\ valid' = w /\ instruction_offsets' = os
  BY <1>1, <1>2, <1>3, <1>6
<1> QED
  BY <1>9, <1>11, <1>14, <1>15, <1>16 DEF JumpsKnown


-----------------------------------------------------------------------------
(* The end of the body, where no label is open.  There BackpatchMap rewrites *)
(* the operands of the code and nothing else: y jumps as x does.             *)
SameJump(x, y) ==
  /\ y.op = x.op
  /\ x.op = "If" => y.else_index = x.else_index /\ y.end_index = x.end_index
  /\ x.op = "Else" => y.end_index = x.end_index
  /\ x.op \in {"Br", "BrIf", "Return"} => y.target_index = x.target_index
  /\ x.op = "BrTable" =>
       /\ DOMAIN y.br_targets = DOMAIN x.br_targets
       /\ \A j \in DOMAIN x.br_targets :
            y.br_targets[j].target_index = x.br_targets[j].target_index

LEMMA OperandsSameJump ==
  ASSUME NEW x, Wellmade(x), NEW ins, NEW r, NEW y, y = [x EXCEPT !.in = ins, !.out = r]
  PROVE  SameJump(x, y)
<1>1. "op" \in DOMAIN x /\ y.op = x.op
  BY DEF Wellmade
<1>2. CASE x.op = "If"
  <2>1. "else_index" \in DOMAIN x /\ "end_index" \in DOMAIN x
    BY <1>2 DEF Wellmade
  <2>2. y.else_index = x.else_index /\ y.end_index = x.end_index
    BY <2>1
  <2> QED
    BY <1>1, <1>2, <2>2 DEF SameJump
<1>3. CASE x.op = "Else"
  <2>1. "end_index" \in DOMAIN x
    BY <1>3 DEF Wellmade
  <2>2. y.end_index = x.end_index
    BY <2>1
  <2> QED
    BY <1>1, <1>3, <2>2 DEF SameJump
<1>4. CASE x.op \in {"Br", "BrIf", "Return"}
  <2>1. "target_index" \in DOMAIN x
    BY <1>4 DEF Wellmade
  <2>2. y.target_index = x.target_index
    BY <2>1
  <2> QED
    BY <1>1, <1>4, <2>2 DEF SameJump
<1>5. CASE x.op = "BrTable"
  <2>1. "br_targets" \in DOMAIN x
    BY <1>5 DEF Wellmade
  <2>2. y.br_targets = x.br_targets
    BY <2>1
  <2> QED
    BY <1>1, <1>5, <2>2 DEF SameJump
<1>6. CASE x.op \notin Jumping
  BY <1>1, <1>6 DEF SameJump, Jumping
<1> QED
  BY <1>2, <1>3, <1>4, <1>5, <1>6 DEF Jumping

(* The targets of a table, their receivers moved up by s registers.          *)
Shifted(targets, s) ==
  [j \in DOMAIN targets |-> [targets[j] EXCEPT !.out = targets[j].out + s]]

LEMMA TableSameJump ==
  ASSUME NEW x, Wellmade(x), x.op = "BrTable", NEW ins, NEW r, NEW s, NEW z, NEW ta, NEW y,
         z = [x EXCEPT !.in = ins, !.out = r],
         ta = Shifted(x.br_targets, s),
         y = [z EXCEPT !.br_targets = ta]
  PROVE  SameJump(x, y)
<1>1. /\ "op" \in DOMAIN x /\ "br_targets" \in DOMAIN x
      /\ \A j \in DOMAIN x.br_targets : "target_index" \in DOMAIN x.br_targets[j]
  BY DEF Wellmade
<1>2. "op" \in DOMAIN z /\ "br_targets" \in DOMAIN z /\ z.op = x.op
  BY <1>1
<1>3. y.br_targets = ta /\ y.op = x.op
  BY ONLY <1>2, y = [z EXCEPT !.br_targets = ta]
<1>4. /\ DOMAIN ta = DOMAIN x.br_targets
      /\ \A j \in DOMAIN x.br_targets : ta[j].target_index = x.br_targets[j].target_index
  BY <1>1 DEF Shifted
<1> QED
  BY <1>3, <1>4 DEF SameJump

LEMMA CallSameJump ==
  ASSUME NEW x, "op" \in DOMAIN x, NEW c, NEW y,
         y = IF x.op \in {"Call", "CallIndirect"} THEN [x EXCEPT !.caller_base = c] ELSE x
  PROVE  SameJump(x, y)
<1>1. CASE x.op \in {"Call", "CallIndirect"}
  <2>1. y.op = x.op
    BY <1>1
  <2> QED
    BY <1>1, <2>1 DEF SameJump
<1>2. CASE x.op \notin {"Call", "CallIndirect"}
  BY <1>2 DEF SameJump
<1> QED
  BY <1>1, <1>2

LEMMA AppliedSameJump ==
  ASSUME NEW L, NEW k, NEW x, x = L.instructions[k + 1], Wellmade(x), NEW y, y = apply(L, k)
  PROVE  SameJump(x, y) /\ "op" \in DOMAIN y
<1>1. PICK rs : rs = runs_at(L, k)
  OBVIOUS
<1>2. PICK s : s = consts_of(L) + spills_of(L)
  OBVIOUS
<1>3. PICK ins : ins = [j \in DOMAIN rs |-> [i \in DOMAIN rs[j].slots |->
         absolute_slot_in_frame(rs[j].slots[i], LocalsCount, consts_of(L), spills_of(L))]]
  OBVIOUS
<1>4. PICK z : z = [x EXCEPT !.in = ins, !.out = x.out + s]
  OBVIOUS
<1>5. PICK ta : ta = Shifted(x.br_targets, s)
  OBVIOUS
<1>6. PICK y1 : y1 = [z EXCEPT !.br_targets = ta]
  OBVIOUS
<1>7. y = IF rs = <<>> THEN x ELSE IF x.op = "BrTable" THEN y1 ELSE z
  BY <1>1, <1>2, <1>3, <1>4, <1>5, <1>6 DEF apply, Shifted
<1>8. "op" \in DOMAIN x
  BY DEF Wellmade
<1>9. "op" \in DOMAIN z /\ "op" \in DOMAIN y1
  BY <1>4, <1>6, <1>8
<1>10. SameJump(x, x)
  BY DEF SameJump
<1>11. SameJump(x, z)
  BY <1>4, OperandsSameJump
<1>12. ASSUME x.op = "BrTable"
       PROVE  SameJump(x, y1)
  BY <1>4, <1>5, <1>6, <1>12, TableSameJump
<1> QED
  BY <1>7, <1>8, <1>9, <1>10, <1>11, <1>12

LEMMA SameJumpChain ==
  ASSUME NEW x, NEW y, NEW z, SameJump(x, y), SameJump(y, z)
  PROVE  SameJump(x, z)
<1>1. z.op = x.op /\ y.op = x.op
  BY DEF SameJump
<1>2. x.op = "If" => z.else_index = x.else_index /\ z.end_index = x.end_index
  BY <1>1 DEF SameJump
<1>3. x.op = "Else" => z.end_index = x.end_index
  BY <1>1 DEF SameJump
<1>4. x.op \in {"Br", "BrIf", "Return"} => z.target_index = x.target_index
  BY <1>1 DEF SameJump
<1>5. x.op = "BrTable" =>
        /\ DOMAIN z.br_targets = DOMAIN x.br_targets
        /\ \A j \in DOMAIN x.br_targets :
             z.br_targets[j].target_index = x.br_targets[j].target_index
  BY <1>1 DEF SameJump
<1> QED
  BY <1>1, <1>2, <1>3, <1>4, <1>5 DEF SameJump

LEMMA ResolvedSameJump ==
  ASSUME NEW L, NEW k, NEW x, x = L.instructions[k + 1], Wellmade(x),
         NEW y, y = rebased(apply(L, k), L)
  PROVE  SameJump(x, y)
<1>1. PICK z : z = apply(L, k)
  OBVIOUS
<1>2. SameJump(x, z) /\ "op" \in DOMAIN z
  BY <1>1, AppliedSameJump
<1>3. PICK c : c = z.caller_base + consts_of(L) + spills_of(L)
  OBVIOUS
<1>4. y = IF z.op \in {"Call", "CallIndirect"} THEN [z EXCEPT !.caller_base = c] ELSE z
  BY <1>1, <1>3 DEF rebased
<1>5. SameJump(z, y)
  BY <1>2, <1>4, CallSameJump
<1> QED
  BY <1>2, <1>5, SameJumpChain

LEMMA SameBecame ==
  ASSUME NEW q, NEW os, NEW is, NEW js, Len(js) = Len(is), Len(is) \in Nat,
         \A i \in 1 .. Len(is) : SameJump(is[i], js[i]),
         NEW t, NEW p, Became(q, os, is, t, p)
  PROVE  Became(q, os, js, t, p)
<1>1. t + 1 \in 1 .. Len(is)
  BY DEF Became
<1>2. SameJump(is[t + 1], js[t + 1])
  BY <1>1
<1> QED
  BY <1>2 DEF Became, SameJump

LEMMA SameLands ==
  ASSUME NEW q, NEW os, NEW cs, NEW is, NEW js,
         \A t, p : Became(q, os, is, t, p) => Became(q, os, js, t, p),
         NEW x, NEW y, SameJump(x, y), NEW i, JumpLands(q, os, cs, is, x, i)
  PROVE  JumpLands(q, os, cs, js, y, i)
<1>1. PICK o, d : o = q[os[i + 1]] /\ d = DepthAt(q)[os[i + 1] - 1]
  OBVIOUS
<1>2. /\ x.op \in Jumping => o.op = x.op
      /\ x.op = "If" => IfLands(q, os, cs, is, x, i)
      /\ x.op = "Else" => ElseLands(q, os, cs, is, x, i)
      /\ x.op \in {"Br", "BrIf"} => Lands(q, os, cs, is, x.target_index, i, 0, d - o.x)
      /\ x.op = "BrTable" =>
           /\ DOMAIN x.br_targets = DOMAIN o.arms
           /\ \A j \in DOMAIN x.br_targets :
                Lands(q, os, cs, is, x.br_targets[j].target_index, i, j, d - o.arms[j])
      /\ x.op = "Return" => Lands(q, os, cs, is, x.target_index, i, 0, 1)
  BY <1>1 DEF JumpLands
<1>3. ASSUME NEW t, NEW arm, NEW k, Lands(q, os, cs, is, t, i, arm, k)
      PROVE  Lands(q, os, cs, js, t, i, arm, k)
  <2>1. PICK p : /\ OpenAt(q, p, os[i + 1] - 1, k)
                 /\ \/ IsLoop(q, p) /\ Became(q, os, is, t, p) /\ Awaited(cs, i, arm) = {}
                    \/ ~IsLoop(q, p) /\ OpenAt(q, p, Len(q), k) /\ Awaited(cs, i, arm) = {k}
                    \/ /\ ~IsLoop(q, p) /\ Awaited(cs, i, arm) = {}
                       /\ \E e \in 1 .. Len(q) : ClosedAt(q, p, e, k) /\ Became(q, os, is, t, e)
    BY <1>3 DEF Lands
  <2>2. /\ OpenAt(q, p, os[i + 1] - 1, k)
        /\ \/ IsLoop(q, p) /\ Became(q, os, js, t, p) /\ Awaited(cs, i, arm) = {}
           \/ ~IsLoop(q, p) /\ OpenAt(q, p, Len(q), k) /\ Awaited(cs, i, arm) = {k}
           \/ /\ ~IsLoop(q, p) /\ Awaited(cs, i, arm) = {}
              /\ \E e \in 1 .. Len(q) : ClosedAt(q, p, e, k) /\ Became(q, os, js, t, e)
    BY <2>1
  <2> QED
    BY <2>2 DEF Lands
<1>4. ASSUME x.op = "If"
      PROVE  IfLands(q, os, cs, js, y, i)
  <2>1. y.else_index = x.else_index /\ y.end_index = x.end_index
    BY <1>4 DEF SameJump
  <2>2. PICK k : \/ /\ k \in 1 .. Len(cs) /\ OpenAt(q, os[i + 1], Len(q), k)
                    /\ cs[k].kind = "If" /\ cs[k].index = i
                 \/ \E e \in 1 .. Len(q) : \E z :
                      /\ ClosedAt(q, os[i + 1], e, k) /\ Became(q, os, is, x.end_index, e)
                      /\ ElseIs(q, os[i + 1], e, k, z) /\ ElseKnown(q, os, is, x.else_index, z)
    BY <1>2, <1>4 DEF IfLands
  <2>3. \A z : ElseKnown(q, os, is, x.else_index, z) => ElseKnown(q, os, js, y.else_index, z)
    BY <2>1 DEF ElseKnown
  <2>4. \A e : Became(q, os, is, x.end_index, e) => Became(q, os, js, y.end_index, e)
    BY <2>1
  <2>5. \/ /\ k \in 1 .. Len(cs) /\ OpenAt(q, os[i + 1], Len(q), k)
           /\ cs[k].kind = "If" /\ cs[k].index = i
        \/ \E e \in 1 .. Len(q) : \E z :
             /\ ClosedAt(q, os[i + 1], e, k) /\ Became(q, os, js, y.end_index, e)
             /\ ElseIs(q, os[i + 1], e, k, z) /\ ElseKnown(q, os, js, y.else_index, z)
    BY ONLY <2>2, <2>3, <2>4
  <2> QED
    BY <2>5 DEF IfLands
<1>5. ASSUME x.op = "Else"
      PROVE  ElseLands(q, os, cs, js, y, i)
  <2>1. y.end_index = x.end_index /\ ElseLands(q, os, cs, is, x, i)
    BY <1>2, <1>5 DEF SameJump
  <2> QED
    BY <2>1 DEF ElseLands
<1>6. /\ y.op \in Jumping => o.op = y.op
      /\ y.op \in {"Br", "BrIf"} => Lands(q, os, cs, js, y.target_index, i, 0, d - o.x)
      /\ y.op = "BrTable" =>
           /\ DOMAIN y.br_targets = DOMAIN o.arms
           /\ \A j \in DOMAIN y.br_targets :
                Lands(q, os, cs, js, y.br_targets[j].target_index, i, j, d - o.arms[j])
      /\ y.op = "Return" => Lands(q, os, cs, js, y.target_index, i, 0, 1)
  BY <1>2, <1>3 DEF SameJump
<1>7. y.op = x.op
  BY DEF SameJump
<1> QED
  BY <1>1, <1>4, <1>5, <1>6, <1>7 DEF JumpLands

LEMMA ResolveJumps ==
  ASSUME LoweringInv, JumpsKnown, Resolve, status' = "lowered"
  PROVE  JumpsLanded'
<1>2. PICK L : L = lowering
  OBVIOUS
<1>3. PICK is : is = L.instructions
  OBVIOUS
<1>4. PICK js : js = [i \in DOMAIN is |-> rebased(apply(L, i - 1), L)]
  OBVIOUS
<1>5. /\ status = "lowering" /\ valid.labels = <<>>
      /\ lowering' = [L EXCEPT !.instructions = js]
  BY <1>2, <1>3, <1>4 DEF Resolve, AtEnd
<1>6. Formed(L) /\ LabelsMatch(L.control_stack, valid, tracking) /\ tracking \in Tracking
  BY <1>2, <1>5 DEF LoweringInv
<1>7. L.control_stack = <<>>
  <2>1. Len(L.control_stack) + Len(tracking.blocks) = 0
    BY <1>5, <1>6 DEF LabelsMatch
  <2>2. L.control_stack \in Seq(LoweringBlock) /\ tracking.blocks \in Seq(Openers)
    BY <1>6 DEF Formed, Tracking
  <2>3. PICK cs \in Seq(LoweringBlock) : cs = L.control_stack
    BY <2>2
  <2>4. PICK bs \in Seq(Openers) : bs = tracking.blocks
    BY <2>2
  <2>5. Len(cs) \in Nat /\ Len(bs) \in Nat
    BY ONLY <2>3, <2>4
  <2>6. PICK m, n : m = Len(cs) /\ n = Len(bs)
    OBVIOUS
  <2>7. m + n = 0
    BY ONLY <2>1, <2>3, <2>4, <2>6
  <2>8. m \in Nat /\ n \in Nat
    BY ONLY <2>5, <2>6
  <2>9. m = 0
    BY ONLY <2>7, <2>8
  <2>10. Len(cs) = 0
    BY ONLY <2>6, <2>9
  <2>11. cs = <<>>
    BY ONLY <2>10
  <2> QED
    BY <2>3, <2>11
<1>8. PICK q, os, cs : q = ops /\ os = instruction_offsets /\ cs = L.control_stack
  OBVIOUS
<1>8a. Traced(q, valid) /\ JumpsTracked(q, os, cs, is)
  BY <1>2, <1>3, <1>8 DEF JumpsKnown
<1>9. lowering'.instructions = js /\ lowering'.control_stack = cs
  BY <1>5, <1>6, <1>8 DEF Formed
<1>9a. ops' = q /\ valid' = valid /\ instruction_offsets' = os
  BY <1>8 DEF Resolve, readerVars
<1>10. IsSeq(is)
  BY <1>3, <1>6 DEF Formed
<1>11. PICK n \in Nat : n = Len(is) /\ DOMAIN is = 1 .. n
  BY <1>10 DEF IsSeq
<1>12. IsSeq(js) /\ Len(js) = n
  <2>1. js = [i \in DOMAIN js |-> js[i]] /\ DOMAIN js = DOMAIN is
    BY <1>4
  <2> QED
    BY <1>11, <2>1, MappedIsSeq
<1>13. ASSUME NEW i \in 1 .. n
       PROVE  SameJump(is[i], js[i])
  <2>1. PICK k : k = i - 1 /\ k + 1 = i
    OBVIOUS
  <2>2. PICK x, y : x = is[i] /\ y = js[i]
    OBVIOUS
  <2>3. x = L.instructions[k + 1] /\ y = rebased(apply(L, k), L)
    BY <1>3, <1>4, <1>11, <2>1, <2>2
  <2>4. Wellmade(x)
    BY <1>8a, <1>11, <2>2 DEF JumpsTracked
  <2> QED
    BY <2>2, <2>3, <2>4, ResolvedSameJump
<1>14. \A t, p : Became(q, os, is, t, p) => Became(q, os, js, t, p)
  BY <1>11, <1>12, <1>13, SameBecame
<1>15. ASSUME NEW i \in 1 .. n
       PROVE  JumpLands(q, os, cs, js, js[i], i - 1)
  <2>1. PICK x, y, k : x = is[i] /\ y = js[i] /\ k = i - 1
    OBVIOUS
  <2>2. JumpLands(q, os, cs, is, x, k)
    BY <1>8a, <1>11, <2>1 DEF JumpsTracked
  <2>3. SameJump(x, y)
    BY <1>13, <2>1
  <2>4. JumpLands(q, os, cs, js, y, k)
    BY ONLY <1>14, <2>2, <2>3, SameLands
  <2> QED
    BY <2>1, <2>4
<1>16. Offsets(q, os, js)
  BY <1>8a, <1>11, <1>12 DEF JumpsTracked, Offsets
<1>17. cs = <<>>
  BY <1>7, <1>8
<1> QED
  BY <1>5, <1>8a, <1>9, <1>9a, <1>12, <1>15, <1>16, <1>17 DEF JumpsLanded

(* Once no label is open, every jump has landed.                            *)
LEMMA LandsWhere ==
  ASSUME Whole, NEW os, NEW cs, Len(cs) = 0, NEW is, NEW i, os[i + 1] \in 1 .. Len(ops),
         NEW t, NEW arm, NEW k, Lands(ops, os, cs, is, t, i, arm, k)
  PROVE  \E p : OpenAt(ops, p, os[i + 1] - 1, k) /\ Became(ops, os, is, t, LandingOf(p) + 1)
<1>1. PICK p : /\ OpenAt(ops, p, os[i + 1] - 1, k)
               /\ \/ IsLoop(ops, p) /\ Became(ops, os, is, t, p) /\ Awaited(cs, i, arm) = {}
                  \/ ~IsLoop(ops, p) /\ OpenAt(ops, p, Len(ops), k) /\ Awaited(cs, i, arm) = {k}
                  \/ /\ ~IsLoop(ops, p) /\ Awaited(cs, i, arm) = {}
                     /\ \E e \in 1 .. Len(ops) :
                          ClosedAt(ops, p, e, k) /\ Became(ops, os, is, t, e)
  BY DEF Lands
<1>2. Awaited(cs, i, arm) = {}
  BY DEF Awaited
<1>3. p \in 0 .. os[i + 1] - 1
  BY <1>1 DEF OpenAt
<1>4. CASE IsLoop(ops, p) /\ Became(ops, os, is, t, p)
  <2>1. LandingOf(p) + 1 = p
    BY <1>3, <1>4 DEF LandingOf, IsLoop
  <2> QED
    BY <1>1, <1>4, <2>1
<1>5. CASE ~IsLoop(ops, p) /\ \E e \in 1 .. Len(ops) :
             ClosedAt(ops, p, e, k) /\ Became(ops, os, is, t, e)
  <2>1. PICK e \in 1 .. Len(ops) : ClosedAt(ops, p, e, k) /\ Became(ops, os, is, t, e)
    BY <1>5
  <2>2. LandingOf(p) = e - 1
    BY <1>5, <2>1, LandingIs
  <2>3. LandingOf(p) + 1 = e
    BY <2>2
  <2> QED
    BY <1>1, <2>1, <2>3
<1> QED
  BY <1>1, <1>2, <1>4, <1>5

LEMMA BranchArrives ==
  ASSUME Whole, NEW os, NEW cs, Len(cs) = 0, NEW is, NEW i, os[i + 1] \in 1 .. Len(ops),
         NEW t, NEW arm, NEW depth,
         Lands(ops, os, cs, is, t, i, arm, DepthAt(ops)[os[i + 1] - 1] - depth)
  PROVE  Became(ops, os, is, t, LandingOf(OpenerAt(os[i + 1], depth)) + 1)
<1>1. PICK k : k = DepthAt(ops)[os[i + 1] - 1] - depth
  OBVIOUS
<1>2. PICK p : OpenAt(ops, p, os[i + 1] - 1, k) /\ Became(ops, os, is, t, LandingOf(p) + 1)
  BY <1>1, LandsWhere
<1>3. OpenerAt(os[i + 1], depth) = p
  BY <1>1, <1>2, OpenerIs
<1> QED
  BY <1>2, <1>3

LEMMA ReturnArrives ==
  ASSUME Whole, NEW os, NEW cs, Len(cs) = 0, NEW is, NEW i, os[i + 1] \in 1 .. Len(ops),
         NEW t, NEW arm, Lands(ops, os, cs, is, t, i, arm, 1)
  PROVE  Became(ops, os, is, t, LandingOf(0) + 1)
<1>1. PICK p : OpenAt(ops, p, os[i + 1] - 1, 1) /\ Became(ops, os, is, t, LandingOf(p) + 1)
  BY LandsWhere
<1>2. p = 0
  BY <1>1, FunctionOpen
<1> QED
  BY <1>1, <1>2

LEMMA IfArrives ==
  ASSUME Whole, NEW os, NEW cs, Len(cs) = 0, NEW is, NEW i,
         NEW p \in 1 .. Len(ops), p = os[i + 1], NEW x, IfLands(ops, os, cs, is, x, i)
  PROVE  /\ Became(ops, os, is, x.end_index, MatchingEnd(ops, p))
         /\ IF ops[FalseArm(ops, p)].op = "Else"
            THEN Became(ops, os, is, x.else_index, FalseArm(ops, p))
            ELSE x.else_index = Unset
<1>1. PICK k : \E e \in 1 .. Len(ops) : \E y :
        /\ ClosedAt(ops, p, e, k) /\ Became(ops, os, is, x.end_index, e)
        /\ ElseIs(ops, p, e, k, y) /\ ElseKnown(ops, os, is, x.else_index, y)
  BY DEF IfLands
<1>2. PICK e \in 1 .. Len(ops) : \E y :
        /\ ClosedAt(ops, p, e, k) /\ Became(ops, os, is, x.end_index, e)
        /\ ElseIs(ops, p, e, k, y) /\ ElseKnown(ops, os, is, x.else_index, y)
  BY <1>1
<1>3. PICK y : /\ ClosedAt(ops, p, e, k) /\ Became(ops, os, is, x.end_index, e)
               /\ ElseIs(ops, p, e, k, y) /\ ElseKnown(ops, os, is, x.else_index, y)
  BY <1>2
<1>4. Len(ops) \in Nat /\ p # 0
  BY DEF Whole
<1>5. MatchingEnd(ops, p) = e
  BY <1>3, <1>4, MatchingEndIs
<1>6. PICK f : f = FalseArm(ops, p)
  OBVIOUS
<1>7. f \in p + 1 .. e
  <2>1. p + 1 <= e /\ e \in Int
    <3>1. p \in 0 .. e - 1
      BY <1>3 DEF ClosedAt, OpenAt
    <3> QED
      BY <3>1
  <2>2. PICK s : s = {j \in p + 1 .. e : ops[j].op = "Else" /\ DepthAt(ops)[j] = DepthAt(ops)[p]}
    OBVIOUS
  <2>3. f = IF s = {} THEN e ELSE CHOOSE j \in s : TRUE
    BY <1>5, <1>6, <2>2 DEF FalseArm
  <2>4. s # {} => f \in s
    BY <2>3
  <2> QED
    BY <2>1, <2>2, <2>3, <2>4
<1>8. (IF ops[f].op = "Else" THEN f - 1 ELSE -1) = y
  BY <1>3, <1>4, <1>6, FalseArmIs
<1>9. CASE ops[f].op = "Else"
  <2>1. y # -1 /\ y + 1 = f
    BY <1>7, <1>8, <1>9
  <2>2. Became(ops, os, is, x.else_index, f)
    BY <1>3, <2>1 DEF ElseKnown
  <2> QED
    BY <1>3, <1>5, <1>6, <1>9, <2>2
<1>10. CASE ops[f].op # "Else"
  <2>1. y = -1
    BY <1>8, <1>10
  <2>2. x.else_index = Unset
    BY <1>3, <2>1 DEF ElseKnown
  <2> QED
    BY <1>3, <1>5, <1>6, <1>10, <2>2
<1> QED
  BY <1>9, <1>10

LEMMA ElseArrives ==
  ASSUME Whole, NEW os, NEW cs, Len(cs) = 0, NEW is, NEW i,
         os[i + 1] \in 1 .. Len(ops), ops[os[i + 1]].op = "Else",
         NEW x, ElseLands(ops, os, cs, is, x, i)
  PROVE  Became(ops, os, is, x.end_index, MatchingEnd(ops, OpenerAt(os[i + 1], 0)))
<1>1. PICK k : k = DepthAt(ops)[os[i + 1]]
  OBVIOUS
<1>2. PICK p : /\ p # 0 /\ OpenAt(ops, p, os[i + 1] - 1, k)
               /\ \E e \in 1 .. Len(ops) :
                    ClosedAt(ops, p, e, k) /\ Became(ops, os, is, x.end_index, e)
  BY <1>1 DEF ElseLands
<1>3. PICK e \in 1 .. Len(ops) : ClosedAt(ops, p, e, k) /\ Became(ops, os, is, x.end_index, e)
  BY <1>2
<1>4. MatchingEnd(ops, p) = e
  BY <1>2, <1>3, MatchingEndIs DEF Whole
<1>5. k = DepthAt(ops)[os[i + 1] - 1] - 0
  <2>1. PICK j, d : j = os[i + 1] /\ d = DepthAt(ops)
    OBVIOUS
  <2>2. d[j] = d[j - 1] + Delta(ops[j]) /\ d[j - 1] \in Int
    <3>1. j - 1 \in 0 .. Len(ops) /\ j \in 1 .. Len(ops) /\ Len(ops) \in Nat
      BY <2>1 DEF Whole
    <3> QED
      BY <2>1, <3>1, DepthSteps
  <2>3. Delta(ops[j]) = 0
    BY <2>1 DEF Delta, Opens, Openers
  <2> QED
    BY <1>1, <2>1, <2>2, <2>3
<1>6. OpenerAt(os[i + 1], 0) = p
  BY <1>2, <1>5, OpenerIs
<1> QED
  BY <1>3, <1>4, <1>6

(* What JumpsLand says of the instruction x that operator p became.         *)
HasLanded(os, is, x, p) ==
  /\ x.op \in Jumping => ops[p].op = x.op
  /\ x.op \in {"Br", "BrIf"} =>
       Became(ops, os, is, x.target_index, LandingOf(OpenerAt(p, ops[p].x)) + 1)
  /\ x.op = "BrTable" =>
       /\ DOMAIN x.br_targets = DOMAIN ops[p].arms
       /\ \A a \in DOMAIN x.br_targets :
            Became(ops, os, is, x.br_targets[a].target_index,
                   LandingOf(OpenerAt(p, ops[p].arms[a])) + 1)
  /\ x.op = "Return" => Became(ops, os, is, x.target_index, LandingOf(0) + 1)
  /\ x.op = "If" =>
       /\ Became(ops, os, is, x.end_index, MatchingEnd(ops, p))
       /\ IF ops[FalseArm(ops, p)].op = "Else"
          THEN Became(ops, os, is, x.else_index, FalseArm(ops, p))
          ELSE x.else_index = Unset
  /\ x.op = "Else" => Became(ops, os, is, x.end_index, MatchingEnd(ops, OpenerAt(p, 0)))

LEMMA JumpArrives ==
  ASSUME Whole, NEW os, NEW cs, Len(cs) = 0, NEW is, NEW i \in Int, NEW p \in 1 .. Len(ops),
         p = os[i], NEW x, JumpLands(ops, os, cs, is, x, i - 1)
  PROVE  HasLanded(os, is, x, p)
<1>1. PICK j, o, d : j = i - 1 /\ j + 1 = i /\ o = ops[p] /\ d = DepthAt(ops)[p - 1]
  OBVIOUS
<1>2. p = os[j + 1] /\ os[j + 1] \in 1 .. Len(ops)
  BY <1>1
<1>3. /\ x.op \in Jumping => o.op = x.op
      /\ x.op = "If" => IfLands(ops, os, cs, is, x, j)
      /\ x.op = "Else" => ElseLands(ops, os, cs, is, x, j)
      /\ x.op \in {"Br", "BrIf"} => Lands(ops, os, cs, is, x.target_index, j, 0, d - o.x)
      /\ x.op = "BrTable" =>
           /\ DOMAIN x.br_targets = DOMAIN o.arms
           /\ \A a \in DOMAIN x.br_targets :
                Lands(ops, os, cs, is, x.br_targets[a].target_index, j, a, d - o.arms[a])
      /\ x.op = "Return" => Lands(ops, os, cs, is, x.target_index, j, 0, 1)
  BY <1>1, <1>2 DEF JumpLands
<1>4. ASSUME NEW t, NEW arm, NEW depth, Lands(ops, os, cs, is, t, j, arm, d - depth)
      PROVE  Became(ops, os, is, t, LandingOf(OpenerAt(p, depth)) + 1)
  <2>1. Lands(ops, os, cs, is, t, j, arm, DepthAt(ops)[os[j + 1] - 1] - depth)
    BY <1>1, <1>2, <1>4
  <2> QED
    BY <1>2, <2>1, BranchArrives
<1>5. x.op = "Return" => Became(ops, os, is, x.target_index, LandingOf(0) + 1)
  BY <1>2, <1>3, ReturnArrives
<1>6. ASSUME x.op = "If"
      PROVE  /\ Became(ops, os, is, x.end_index, MatchingEnd(ops, p))
             /\ IF ops[FalseArm(ops, p)].op = "Else"
                THEN Became(ops, os, is, x.else_index, FalseArm(ops, p))
                ELSE x.else_index = Unset
  BY <1>2, <1>3, <1>6, IfArrives
<1>7. ASSUME x.op = "Else"
      PROVE  Became(ops, os, is, x.end_index, MatchingEnd(ops, OpenerAt(p, 0)))
  <2>1. ops[os[j + 1]].op = "Else" /\ ElseLands(ops, os, cs, is, x, j)
    BY <1>1, <1>2, <1>3, <1>7 DEF Jumping
  <2> QED
    BY <1>2, <2>1, ElseArrives
<1> QED
  BY <1>1, <1>3, <1>4, <1>5, <1>6, <1>7 DEF HasLanded

LEMMA LandedJumps ==
  ASSUME JumpsInv
  PROVE  JumpsLand
<1>1. SUFFICES ASSUME status = "lowered"
               PROVE  JumpsLand
  BY DEF JumpsLand
<1>2. PICK os, cs, is : /\ os = instruction_offsets /\ cs = lowering.control_stack
                        /\ is = lowering.instructions
  OBVIOUS
<1>3. /\ Traced(ops, valid) /\ valid.labels = <<>> /\ cs = <<>> /\ Offsets(ops, os, is)
      /\ \A i \in 1 .. Len(is) : JumpLands(ops, os, cs, is, is[i], i - 1)
  BY <1>1, <1>2 DEF JumpsInv, JumpsLanded
<1>4. PICK v : v = valid
  OBVIOUS
<1>5. Whole
  BY <1>3, <1>4, TracedIsWhole
<1>6. Len(cs) = 0
  BY <1>3
<1>7. DOMAIN is = 1 .. Len(is)
  BY <1>3 DEF Offsets, IsSeq
<1>8. \A t, p : Became(ops, os, is, t, p) => GoesTo(t, p)
  BY <1>2 DEF Became, GoesTo, len
<1>9. SUFFICES ASSUME NEW i \in DOMAIN lowering.instructions
      PROVE  LET jump == lowering.instructions[i]
                 p    == instruction_offsets[i]
                 Branches(t, depth) == GoesTo(t, LandingOf(OpenerAt(p, depth)) + 1)
             IN  /\ jump.op \in Jumping => ops[p].op = jump.op
                 /\ CASE jump.op \in {"Br", "BrIf"} -> Branches(jump.target_index, ops[p].x)
                      [] jump.op = "BrTable" ->
                           /\ DOMAIN jump.br_targets = DOMAIN ops[p].arms
                           /\ \A a \in DOMAIN jump.br_targets :
                                Branches(jump.br_targets[a].target_index, ops[p].arms[a])
                      [] jump.op = "Return" -> GoesTo(jump.target_index, LandingOf(0) + 1)
                      [] jump.op = "If" ->
                           /\ GoesTo(jump.end_index, MatchingEnd(ops, p))
                           /\ IF ops[FalseArm(ops, p)].op = "Else"
                              THEN GoesTo(jump.else_index, FalseArm(ops, p))
                              ELSE jump.else_index = Unset
                      [] jump.op = "Else" ->
                           GoesTo(jump.end_index, MatchingEnd(ops, OpenerAt(p, 0)))
                      [] OTHER -> TRUE
  BY DEF JumpsLand
<1>10. PICK x, p : x = is[i] /\ p = os[i]
  OBVIOUS
<1>11. i \in 1 .. Len(is) /\ i \in Int /\ p \in 1 .. Len(ops)
  BY <1>2, <1>3, <1>7, <1>10 DEF Offsets
<1>12. JumpLands(ops, os, cs, is, x, i - 1)
  BY <1>3, <1>10, <1>11
<1>12a. HasLanded(os, is, x, p)
  BY <1>5, <1>6, <1>10, <1>11, <1>12, JumpArrives
<1>13. /\ x.op \in Jumping => ops[p].op = x.op
       /\ x.op \in {"Br", "BrIf"} =>
            GoesTo(x.target_index, LandingOf(OpenerAt(p, ops[p].x)) + 1)
       /\ x.op = "BrTable" =>
            /\ DOMAIN x.br_targets = DOMAIN ops[p].arms
            /\ \A a \in DOMAIN x.br_targets :
                 GoesTo(x.br_targets[a].target_index, LandingOf(OpenerAt(p, ops[p].arms[a])) + 1)
       /\ x.op = "Return" => GoesTo(x.target_index, LandingOf(0) + 1)
       /\ x.op = "If" =>
            /\ GoesTo(x.end_index, MatchingEnd(ops, p))
            /\ IF ops[FalseArm(ops, p)].op = "Else"
               THEN GoesTo(x.else_index, FalseArm(ops, p))
               ELSE x.else_index = Unset
       /\ x.op = "Else" => GoesTo(x.end_index, MatchingEnd(ops, OpenerAt(p, 0)))
  BY ONLY <1>8, <1>12a DEF HasLanded
<1> QED
  BY <1>2, <1>10, <1>13

LEMMA JumpsStart ==
  ASSUME Start
  PROVE  JumpsInv
<1>1. LoweringInv
  BY LoweringStarts
<1>2. /\ lowering = NewLowering /\ valid = NewValidator /\ status = "lowering"
      /\ ops = <<>> /\ instruction_offsets = <<>>
  BY DEF Start, Init, ReaderInit
<1>3. PICK b, l : /\ b = NewBlock("Func", 0, 0, 0, ResultsCount)
                  /\ l = Label("Func", 0, 0, ResultsCount)
  OBVIOUS
<1>4. b.kind = "Func" /\ b.attached_breaks = <<>> /\ l.kind = "Func"
  BY <1>3 DEF NewBlock, Label
<1>5. PICK q, cs, is, ls : q = <<>> /\ cs = <<b>> /\ is = <<>> /\ ls = <<l>>
  OBVIOUS
<1>6. /\ lowering.control_stack = cs /\ lowering.instructions = is /\ valid.labels = ls
  BY <1>2, <1>3, <1>5 DEF NewLowering, NewValidator
<1>7. /\ Len(cs) = 1 /\ cs[1] = b /\ ls[1] = l /\ Len(is) = 0 /\ IsSeq(is)
      /\ Len(q) = 0 /\ q = is /\ cs # <<>>
  BY <1>5 DEF IsSeq
<1>8. \A k \in 1 .. Len(cs) : cs[k].kind = "Func" /\ ls[k].kind = "Func"
  BY <1>4, <1>7
<1>9. OpenAt(q, 0, Len(q), 1)
  <2>1. DepthAt(q)[0] = 1 /\ DepthAt(q)[0] \in Int
    BY <1>7, DepthSteps
  <2>2. \A j \in 0 .. Len(q) : j = 0
    BY <1>7
  <2> QED
    BY <1>7, <2>1, <2>2 DEF OpenAt
<1>10. LabelKnows(q, is, is, b, 1)
  BY <1>4, <1>9 DEF LabelKnows, IsLoop
<1>11. \A i, arm : Awaited(cs, i, arm) = {}
  <2>1. Breaks(b) = {}
    <3>1. Len(b.attached_breaks) = 0
      BY <1>4
    <3> QED
      BY <3>1 DEF Breaks
  <2> QED
    BY <1>7, <2>1 DEF Awaited
<1>12. Offsets(q, is, is)
  BY <1>7 DEF Offsets
<1>13. JumpsTracked(q, is, cs, is)
  BY <1>4, <1>7, <1>10, <1>11, <1>12 DEF JumpsTracked
<1>14. IfsMatch(cs, ls)
  BY ONLY <1>8 DEF IfsMatch
<1>15. Traced(ops, valid)
  BY <1>2, TraceStarts
<1>16. ops = q /\ instruction_offsets = is
  BY <1>2, <1>5
<1>17. JumpsKnown
  BY ONLY <1>6, <1>13, <1>14, <1>15, <1>16 DEF JumpsKnown
<1> QED
  BY <1>1, <1>2, <1>17 DEF JumpsInv

LEMMA JumpsGoOn ==
  ASSUME JumpsInv, [Next]_vars
  PROVE  JumpsInv'
<1>1. LoweringInv /\ LoweringInv'
  BY LoweringGoesOn DEF JumpsInv
<1>2. CASE Lowering
  <2>1. PICK o \in Alphabets[alphabet].ops : Lower(o)
    BY <1>2 DEF Lowering
  <2>2. status = "lowering"
    BY <2>1 DEF Lower, Plainly, Call, CallIndirect, Block, Loop, If, Else, End, Br, BrIf,
               BrTable, Return, Trap, Skip, Reads
  <2>3. JumpsKnown
    BY <2>2 DEF JumpsInv
  <2>4. JumpsKnown'
    BY <1>1, <2>1, <2>3, PlainlyJumps, CallJumps, CallIndirectJumps, BlockActionJumps,
       LoopActionJumps, IfActionJumps, ElseActionJumps, EndActionJumps, BrActionJumps,
       BrIfActionJumps, BrTableActionJumps, ReturnActionJumps, TrapJumps, SkipJumps DEF Lower
  <2>5. status' # "lowered"
    <3>1. (\E L : Lowers(o, L)) \/ status' = status
      BY SMTT(30), <2>1 DEF Lower, Plainly, Call, CallIndirect, Block, Loop, If, Else, End, Br, BrIf,
                 BrTable, Return, Trap, Skip
    <3> QED
      BY <2>2, <3>1 DEF Lowers
  <2> QED
    BY <1>1, <2>4, <2>5 DEF JumpsInv
<1>3. CASE Resolving
  <2>1. Resolve /\ status = "lowering"
    BY <1>3 DEF Resolving, Resolve
  <2>2. status' = "lowered" => JumpsLanded'
    BY <1>1, <2>1, ResolveJumps DEF JumpsInv
  <2>3. status' # "lowering"
    BY SMTT(30), <2>1 DEF Resolve
  <2> QED
    BY <1>1, <2>2, <2>3 DEF JumpsInv
<1>4. CASE UNCHANGED loweringVars
  <2>1. /\ ops' = ops /\ valid' = valid /\ instruction_offsets' = instruction_offsets
        /\ lowering' = lowering /\ status' = status
    BY <1>4 DEF loweringVars, readerVars
  <2>2. JumpsKnown' <=> JumpsKnown
    BY <2>1 DEF JumpsKnown
  <2>3. JumpsLanded' <=> JumpsLanded
    BY <2>1 DEF JumpsLanded
  <2> QED
    BY <1>1, <2>1, <2>2, <2>3 DEF JumpsInv
<1>5. Run => UNCHANGED loweringVars
  BY DEF Run
<1>6. Execute => UNCHANGED loweringVars
  BY DEF Execute, LocalWrite, LocalSpill, Numeric, GlobalGet, GlobalSet, Mov, ImportedCall,
         LocalCall, CallTrap, IfStep, ElseStep, BrStep, BrIfStep, BrTableStep, Marker,
         UnreachableStep, Returns, Next1, Goto
<1>7. UNCHANGED vars => UNCHANGED loweringVars
  BY DEF vars
<1> QED
  BY <1>2, <1>3, <1>4, <1>5, <1>6, <1>7 DEF Next

(* While emit_instructions_for_func lowers a body, every jump emitted so far *)
(* has the index of its own place, or is owed it by its own label and by no  *)
(* other: none is forgotten, and none is patched by another label's End.     *)
THEOREM JumpsAreTracked == Spec => []JumpsInv
<1>1. Start => JumpsInv
  BY JumpsStart
<1>2. JumpsInv /\ [Next]_vars => JumpsInv'
  BY JumpsGoOn
<1> QED
  BY <1>1, <1>2, PTL DEF Spec

(* In the code BackpatchMap leaves, a branch and every arm of a table go to *)
(* the Loop or the End of the label their depth names, a return to the      *)
(* function's End, an if to its own End and to its own Else when it has     *)
(* one, and an else to the End of its if.                                   *)
THEOREM JumpsGoWhereTheyShould == Spec => []JumpsLand
<1>1. JumpsInv => JumpsLand
  BY LandedJumps
<1> QED
  BY <1>1, JumpsAreTracked, PTL
=============================================================================
