-------------------------- MODULE RegLoweringProofs --------------------------
(***************************************************************************)
(* The register lowering keeps its simulated stack consistent and its      *)
(* heights those of the validator, for every body, every number of locals  *)
(* and every limit.                                                        *)
(*                                                                         *)
(* A rule of the lowering is a composition of stack operations, any of     *)
(* which may fail; the record is then thrown away, so what is known of it  *)
(* is known as long as it has not failed.  Sound says so, and each rule is *)
(* shown to keep it, at the height the rule leaves.                        *)
(***************************************************************************)
EXTENDS RegExecution, SimulatedStackProofs, BodyReaderProofs

-----------------------------------------------------------------------------
(* The invariant.                                                           *)

LoweringBlock ==
  [kind : LabelKinds, index : Nat, else_index : Int, recorded_height : Nat,
   params : Nat, results : Nat, attached_breaks : Seq(Nat \X Nat)]

(* The fields of a lowering record, as far as heights depend on them.       *)
Formed(L) ==
  /\ DOMAIN L = {"sim", "control_stack", "instructions", "backpatch_map"}
  /\ L.control_stack \in Seq(LoweringBlock)
  /\ IsSeq(L.instructions)

Tracking == [unreachable : BOOLEAN, blocks : Seq(Openers)]

(* The lowering's labels are the validator's, up to those opened in code    *)
(* that cannot run; of these only the innermost one of the lowering may be  *)
(* over.                                                                    *)
LabelsMatch(cs, v, t) ==
  /\ Len(cs) + Len(t.blocks) = Len(v.labels)
  /\ \A k \in 1 .. Len(cs) : /\ cs[k].recorded_height = v.labels[k].height
                             /\ cs[k].params = v.labels[k].params
                             /\ cs[k].results = v.labels[k].results
  /\ \A k \in 1 .. Len(cs) - 1 : ~v.labels[k].unreachable
  /\ cs # <<>> => v.labels[Len(cs)].unreachable = t.unreachable
  /\ ~t.unreachable => t.blocks = <<>>
  /\ cs = <<>> => ~t.unreachable

ExpectedHeight(L, v, t) ==
  IF t.unreachable THEN curr_block(L).recorded_height + curr_block(L).results ELSE v.height

LoweringInv ==
  /\ alphabet \in DOMAIN Alphabets
  /\ status \in {"lowering", "failed", "lowered"}
  /\ ReaderInv(valid)
  /\ tracking \in Tracking
  /\ status # "failed" => StackInv(lowering.sim) /\ ~lowering.sim.failed
  /\ status = "lowering" =>
       /\ Formed(lowering)
       /\ LabelsMatch(lowering.control_stack, valid, tracking)
       /\ lowering.control_stack # <<>> =>
            Height(lowering.sim) = ExpectedHeight(lowering, valid, tracking)

-----------------------------------------------------------------------------
(* A stack that may have failed.                                            *)

AnySlot == [kind : {"Const", "Register", "Local"}, id : Int]

StackFields ==
  {"stack", "curr_register_index", "max_registers", "entries", "origin",
   "allocation_len", "free_slots", "consts", "failed"}

(* What holds even then, and lets the rule go on to its end.                *)
Shaped(s) ==
  /\ DOMAIN s = StackFields
  /\ s.stack \in Seq(AnySlot)
  /\ s.curr_register_index \in Int

Sound(s, h) ==
  /\ Shaped(s)
  /\ Len(s.stack) = h
  /\ ~s.failed => StackInv(s)

LEMMA InvIsSound ==
  ASSUME NEW s, StackInv(s)
  PROVE  Sound(s, Len(s.stack))
<1>1. s \in SimStack
  BY DEF StackInv
<1>2. DOMAIN s = StackFields
  BY <1>1 DEF SimStack, StackFields
<1>3. s.stack \in Seq(AnySlot)
  <2>1. StackSlot \subseteq AnySlot
    BY DEF StackSlot, AnySlot
  <2>2. s.stack \in Seq(StackSlot)
    BY <1>1, SimStackFields
  <2> QED
    BY <2>1, <2>2
<1> QED
  BY <1>1, <1>2, <1>3, SimStackFields DEF Sound, Shaped

(* An operation that leaves the slots alone.                                *)
LEMMA LazyShaped ==
  ASSUME NEW s, Shaped(s), NEW e
  PROVE  /\ Shaped(pop_lazy(s, e))
         /\ pop_lazy(s, e).stack = s.stack
         /\ pop_lazy(s, e).failed = s.failed
BY DEF Shaped, StackFields, pop_lazy

LEMMA FailShaped ==
  ASSUME NEW s, Shaped(s)
  PROVE  /\ Shaped(Fail(s)) /\ Fail(s).failed = TRUE
         /\ Fail(s).stack = s.stack
BY DEF Shaped, StackFields, Fail

LEMMA BelowShaped ==
  ASSUME NEW s, Shaped(s), Len(s.stack) > 0
  PROVE  /\ Shaped(Below(s)) /\ Below(s).failed = s.failed
         /\ Len(Below(s).stack) = Len(s.stack) - 1
         /\ Top(s) \in AnySlot
<1> DEFINE q == SubSeq(s.stack, 1, Len(s.stack) - 1)
<1>1. s.stack \in Seq(AnySlot) /\ Len(s.stack) \in Nat
  BY DEF Shaped
<1>2. q \in Seq(AnySlot) /\ Len(q) = Len(s.stack) - 1 /\ s.stack[Len(s.stack)] \in AnySlot
  BY <1>1
<1> HIDE DEF q
<1>3. Below(s) = [s EXCEPT !.stack = q]
  BY DEF Below, q
<1> QED
  BY <1>2, <1>3 DEF Shaped, StackFields, Top

LEMMA PopSound ==
  ASSUME NEW s, NEW h \in Nat, h > 0, Sound(s, h)
  PROVE  Sound(pop(s), h - 1)
<1>1. /\ Shaped(Below(s)) /\ Below(s).failed = s.failed
      /\ Len(Below(s).stack) = h - 1
      /\ Top(s) \in AnySlot
  BY BelowShaped DEF Sound
<1>2. Shaped(pop(s)) /\ pop(s).failed = s.failed /\ Len(pop(s).stack) = h - 1
  <2>1. CASE Top(s).kind = "Const"
    BY <1>1, <2>1 DEF pop
  <2>2. CASE Top(s).kind = "Register"
    <3>1. pop(s) = [Below(s) EXCEPT !.curr_register_index = s.curr_register_index - 1]
      BY <2>2 DEF pop
    <3> QED
      BY <1>1, <3>1 DEF Shaped, StackFields, Sound
  <2>3. CASE Top(s).kind = "Local"
    BY <1>1, <2>3, LazyShaped DEF pop
  <2> QED
    BY <1>1, <2>1, <2>2, <2>3 DEF AnySlot
<1>3. ~s.failed => StackInv(pop(s))
  BY PopInv DEF Sound
<1> QED
  BY <1>2, <1>3 DEF Sound

LEMMA PushRegisterSound ==
  ASSUME NEW s, NEW h \in Nat, Sound(s, h)
  PROVE  /\ Sound(push_register(s), h + 1)
         /\ s.failed => push_register(s).failed
<1> DEFINE a == advanced_register_index(s)
           p == push_register(s)
<1>1. Shaped(a) /\ a.stack = s.stack /\ (s.failed => a.failed)
  <2>1. Shaped(s)
    BY DEF Sound
  <2> QED
    BY <2>1 DEF advanced_register_index, Fail, Shaped, StackFields
<1>2. p = [a EXCEPT !.stack = Append(a.stack, Register(s.curr_register_index))]
  BY DEF push_register, pushed
<1>3. Register(s.curr_register_index) \in AnySlot
  BY DEF Sound, Shaped, Register, AnySlot
<1>4. Shaped(p) /\ Len(p.stack) = h + 1 /\ p.failed = a.failed
  <2> HIDE DEF p, a
  <2> QED
    BY <1>1, <1>2, <1>3 DEF Shaped, StackFields, Sound
<1>5. ~p.failed => StackInv(p)
  BY <1>1, <1>4, PushRegisterInv DEF Sound
<1> QED
  BY <1>1, <1>4, <1>5 DEF Sound

LEMMA SetLazySound ==
  ASSUME NEW s, NEW h \in Nat, Sound(s, h), NEW x \in Locals
  PROVE  /\ Sound(set_lazy(s, x), h)
         /\ s.failed => set_lazy(s, x).failed
<1> DEFINE r == reserve_slot(s)
           p == set_lazy(s, x)
<1>1. Shaped(s)
  BY DEF Sound
<1>2. Shaped(r) /\ r.stack = s.stack /\ (s.failed => r.failed)
  BY <1>1 DEF reserve_slot, Fail, Shaped, StackFields
<1>3. Shaped(p) /\ p.stack = s.stack /\ (s.failed => p.failed)
  <2>1. CASE ~borrowed(s, x)
    BY <1>1, <2>1 DEF set_lazy
  <2>2. CASE borrowed(s, x)
    <3>1. PICK es, os : p = [r EXCEPT !.entries = es, !.origin = os]
      BY <2>2 DEF set_lazy
    <3> HIDE DEF p, r
    <3> QED
      BY <1>2, <3>1 DEF Shaped, StackFields
  <2> QED
    BY <2>1, <2>2
<1>4. ~p.failed => StackInv(p)
  BY <1>3, SetLazyInv DEF Sound
<1> QED
  BY <1>3, <1>4 DEF Sound

-----------------------------------------------------------------------------
(* Runs of pops, pushes and rescues.  Each is a recursion over 0 .. n; that *)
(* it defines a function is shown by extending it one step at a time.       *)

IsPops(f, s, n) == f = [k \in 0 .. n |-> IF k = 0 THEN s ELSE pop(f[k - 1])]

LEMMA PopsExist ==
  ASSUME NEW s, NEW n \in Nat
  PROVE  \E f : IsPops(f, s, n)
<1> DEFINE S == {m \in Nat : \E f : IsPops(f, s, m)}
<1>1. 0 \in S
  <2>1. IsPops([k \in 0 .. 0 |-> s], s, 0)
    BY DEF IsPops
  <2> QED
    BY <2>1
<1>2. ASSUME NEW m \in Nat, m \in S
      PROVE  m + 1 \in S
  <2>1. PICK f : IsPops(f, s, m)
    BY <1>2
  <2> DEFINE g == [k \in 0 .. m + 1 |-> IF k \in 0 .. m THEN f[k] ELSE pop(f[m])]
  <2>2. \A k \in 0 .. m : g[k] = f[k]
    OBVIOUS
  <2>3. \A k \in 0 .. m + 1 : g[k] = IF k = 0 THEN s ELSE pop(g[k - 1])
    <3>1. SUFFICES ASSUME NEW k \in 0 .. m + 1
                   PROVE  g[k] = IF k = 0 THEN s ELSE pop(g[k - 1])
      OBVIOUS
    <3>2. CASE k = m + 1
      <4>1. k - 1 = m /\ k # 0 /\ k \notin 0 .. m /\ m \in 0 .. m
        BY <3>2
      <4>2. g[k] = pop(f[m])
        BY <3>1, <4>1
      <4> QED
        BY <2>2, <4>1, <4>2
    <3>3. CASE k \in 0 .. m
      <4>1. f[k] = IF k = 0 THEN s ELSE pop(f[k - 1])
        BY <2>1, <3>3 DEF IsPops
      <4>2. k # 0 => k - 1 \in 0 .. m
        BY <3>3
      <4> QED
        BY <2>2, <3>3, <4>1, <4>2
    <3> QED
      BY <3>1, <3>2, <3>3
  <2>4. PICK h : h = g
    OBVIOUS
  <2>5. IsPops(h, s, m + 1)
    <3>1. h = [k \in 0 .. m + 1 |-> h[k]]
      BY <2>4
    <3>2. \A k \in 0 .. m + 1 : h[k] = IF k = 0 THEN s ELSE pop(h[k - 1])
      BY <2>3, <2>4
    <3> QED
      BY <3>1, <3>2 DEF IsPops
  <2> QED
    BY <2>5
<1>3. Nat \subseteq S
  <2> HIDE DEF S
  <2> QED
    BY <1>1, <1>2, CountingUp
<1> QED
  BY <1>3

LEMMA PopsDefined ==
  ASSUME NEW s, NEW n \in Nat
  PROVE  \E f : IsPops(f, s, n) /\ pop_n(s, n) = f[n]
<1> DEFINE c == CHOOSE f : IsPops(f, s, n)
<1>1. IsPops(c, s, n)
  BY PopsExist
<1>2. pop_n(s, n) = c[n]
  BY DEF pop_n, IsPops
<1> HIDE DEF c
<1> QED
  BY <1>1, <1>2

LEMMA PopsSound ==
  ASSUME NEW s, NEW h \in Nat, Sound(s, h), NEW n \in 0 .. h
  PROVE  Sound(pop_n(s, n), h - n)
<1>0. n \in Nat
  OBVIOUS
<1>1. PICK f : IsPops(f, s, n) /\ pop_n(s, n) = f[n]
  BY <1>0, PopsDefined
<1> DEFINE S == {k \in 0 .. n : Sound(f[k], h - k)}
<1>2. 0 \in S
  BY <1>1 DEF IsPops
<1>3. ASSUME NEW k \in 0 .. n, k \in S, k < n
      PROVE  k + 1 \in S
  <2>1. k + 1 \in 0 .. n /\ f[k + 1] = pop(f[k])
    BY <1>1, <1>3 DEF IsPops
  <2>2. PICK d \in Nat : d = h - k
    BY <1>3
  <2>3. d > 0 /\ Sound(f[k], d) /\ h - (k + 1) = d - 1
    BY <1>3, <2>2
  <2>4. Sound(pop(f[k]), d - 1)
    BY <2>2, <2>3, PopSound
  <2> QED
    BY <2>1, <2>3, <2>4
<1>4. 0 .. n \subseteq S
  <2> HIDE DEF S
  <2> QED
    BY <1>2, <1>3, CountingTo
<1> QED
  BY <1>1, <1>4

IsPushes(f, s, n) == f = [k \in 0 .. n |-> IF k = 0 THEN s ELSE push_register(f[k - 1])]

LEMMA PushesExist ==
  ASSUME NEW s, NEW n \in Nat
  PROVE  \E f : IsPushes(f, s, n)
<1> DEFINE S == {m \in Nat : \E f : IsPushes(f, s, m)}
<1>1. 0 \in S
  <2>1. IsPushes([k \in 0 .. 0 |-> s], s, 0)
    BY DEF IsPushes
  <2> QED
    BY <2>1
<1>2. ASSUME NEW m \in Nat, m \in S
      PROVE  m + 1 \in S
  <2>1. PICK f : IsPushes(f, s, m)
    BY <1>2
  <2> DEFINE g == [k \in 0 .. m + 1 |-> IF k \in 0 .. m THEN f[k] ELSE push_register(f[m])]
  <2>2. \A k \in 0 .. m : g[k] = f[k]
    OBVIOUS
  <2>3. \A k \in 0 .. m + 1 : g[k] = IF k = 0 THEN s ELSE push_register(g[k - 1])
    <3>1. SUFFICES ASSUME NEW k \in 0 .. m + 1
                   PROVE  g[k] = IF k = 0 THEN s ELSE push_register(g[k - 1])
      OBVIOUS
    <3>2. CASE k = m + 1
      <4>1. k - 1 = m /\ k # 0 /\ k \notin 0 .. m /\ m \in 0 .. m
        BY <3>2
      <4>2. g[k] = push_register(f[m])
        BY <3>1, <4>1
      <4> QED
        BY <2>2, <4>1, <4>2
    <3>3. CASE k \in 0 .. m
      <4>1. f[k] = IF k = 0 THEN s ELSE push_register(f[k - 1])
        BY <2>1, <3>3 DEF IsPushes
      <4>2. k # 0 => k - 1 \in 0 .. m
        BY <3>3
      <4> QED
        BY <2>2, <3>3, <4>1, <4>2
    <3> QED
      BY <3>1, <3>2, <3>3
  <2>4. PICK h : h = g
    OBVIOUS
  <2>5. IsPushes(h, s, m + 1)
    <3>1. h = [k \in 0 .. m + 1 |-> h[k]]
      BY <2>4
    <3>2. \A k \in 0 .. m + 1 : h[k] = IF k = 0 THEN s ELSE push_register(h[k - 1])
      BY <2>3, <2>4
    <3> QED
      BY <3>1, <3>2 DEF IsPushes
  <2> QED
    BY <2>5
<1>3. Nat \subseteq S
  <2> HIDE DEF S
  <2> QED
    BY <1>1, <1>2, CountingUp
<1> QED
  BY <1>3

LEMMA PushesDefined ==
  ASSUME NEW s, NEW n \in Nat
  PROVE  \E f : IsPushes(f, s, n) /\ push_n(s, n) = f[n]
<1> DEFINE c == CHOOSE f : IsPushes(f, s, n)
<1>1. IsPushes(c, s, n)
  BY PushesExist
<1>2. push_n(s, n) = c[n]
  BY DEF push_n, IsPushes
<1> HIDE DEF c
<1> QED
  BY <1>1, <1>2

LEMMA PushesSound ==
  ASSUME NEW s, NEW h \in Nat, Sound(s, h), NEW n \in Nat
  PROVE  Sound(push_n(s, n), h + n)
<1>1. PICK f : IsPushes(f, s, n) /\ push_n(s, n) = f[n]
  BY PushesDefined
<1> DEFINE S == {k \in 0 .. n : Sound(f[k], h + k)}
<1>2. 0 \in S
  BY <1>1 DEF IsPushes
<1>3. ASSUME NEW k \in 0 .. n, k \in S, k < n
      PROVE  k + 1 \in S
  <2>1. k + 1 \in 0 .. n /\ f[k + 1] = push_register(f[k])
    BY <1>1, <1>3 DEF IsPushes
  <2>2. PICK d \in Nat : d = h + k
    OBVIOUS
  <2>3. Sound(f[k], d) /\ h + (k + 1) = d + 1
    BY <1>3, <2>2
  <2>4. Sound(push_register(f[k]), d + 1)
    BY <2>2, <2>3, PushRegisterSound
  <2> QED
    BY <2>1, <2>3, <2>4
<1>4. 0 .. n \subseteq S
  <2> HIDE DEF S
  <2> QED
    BY <1>2, <1>3, CountingTo
<1> QED
  BY <1>1, <1>4

-----------------------------------------------------------------------------
(* The lowering record.                                                     *)

(* What a rule does at height h to everything but the labels.               *)
Good(L, h) == Formed(L) /\ Sound(L.sim, h)

LEMMA EmitGood ==
  ASSUME NEW L, NEW h, Good(L, h), NEW x, NEW M, M = emit(L, x)
  PROVE  Good(M, h) /\ M.sim = L.sim /\ M.control_stack = L.control_stack
<1>1. IsSeq(Append(L.instructions, x))
  BY AppendIsSeq DEF Good, Formed
<1>2. PICK q : q = Append(L.instructions, x)
  OBVIOUS
<1> QED
  BY <1>1, <1>2 DEF Good, Formed, emit

LEMMA RecordGood ==
  ASSUME NEW L, Formed(L), NEW source, NEW slots, NEW M, M = record_run(L, source, slots)
  PROVE  /\ Formed(M) /\ M.sim = L.sim /\ M.control_stack = L.control_stack
         /\ M.instructions = L.instructions
<1>1. PICK r : M = [L EXCEPT !.backpatch_map = r]
  BY DEF record_run
<1> QED
  BY <1>1 DEF Formed

LEMMA SimGood ==
  ASSUME NEW L, Formed(L), NEW s, NEW h, Sound(s, h), NEW M, M = [L EXCEPT !.sim = s]
  PROVE  Good(M, h) /\ M.sim = s /\ M.control_stack = L.control_stack
BY DEF Good, Formed

LEMMA EffectsSound ==
  ASSUME NEW s, NEW h \in Nat, Sound(s, h), NEW pops \in 0 .. h, NEW pushes \in Nat
  PROVE  Sound(pops_and_pushes(s, pops, pushes), h - pops + pushes)
<1>1. PICK d \in Nat : d = h - pops
  OBVIOUS
<1>2. Sound(pop_n(s, pops), d)
  BY <1>1, PopsSound
<1>3. Sound(push_n(pop_n(s, pops), pushes), d + pushes)
  BY <1>2, PushesSound
<1> QED
  BY <1>1, <1>3 DEF pops_and_pushes

LEMMA EffectsGood ==
  ASSUME NEW L, NEW h \in Nat, Good(L, h), NEW pops \in 0 .. h, NEW pushes \in Nat, NEW source,
         NEW M, M = pops_and_pushes_registers(L, pops, pushes, source)
  PROVE  /\ Good(M, h - pops + pushes)
         /\ M.control_stack = L.control_stack
         /\ M.sim = pops_and_pushes(L.sim, pops, pushes)
<1>1. PICK R : R = record_run(L, source, top_locations(L.sim, pops))
  OBVIOUS
<1>2. Formed(R) /\ R.control_stack = L.control_stack
  BY <1>1, RecordGood DEF Good
<1>3. PICK s : s = pops_and_pushes(L.sim, pops, pushes)
  OBVIOUS
<1>4. Sound(s, h - pops + pushes)
  BY <1>3, EffectsSound DEF Good
<1>5. M = [R EXCEPT !.sim = s]
  BY <1>1, <1>3 DEF pops_and_pushes_registers
<1> QED
  BY <1>2, <1>3, <1>4, <1>5, SimGood

LEMMA MaterializeGood ==
  ASSUME NEW L, NEW h \in Nat, Good(L, h), NEW n \in 0 .. h, NEW M, M = materialize(L, n)
  PROVE  Good(M, h) /\ M.control_stack = L.control_stack
<1>1. CASE n = 0
  BY <1>1 DEF materialize
<1>2. CASE n # 0
  <2>1. PICK P : P = pops_and_pushes_registers(L, n, n, "Emit")
    OBVIOUS
  <2>2. n \in Nat /\ h - n + n = h
    OBVIOUS
  <2>3. Good(P, h) /\ P.control_stack = L.control_stack
    BY <2>1, <2>2, EffectsGood
  <2>4. M = emit(P, Move(output_start(L, n)))
    BY <1>2, <2>1 DEF materialize
  <2> QED
    BY <2>3, <2>4, EmitGood
<1> QED
  BY <1>1, <1>2

LEMMA RescueGood ==
  ASSUME NEW L, NEW h \in Nat, Good(L, h), NEW x \in Locals, NEW M, M = rescue(L, x)
  PROVE  Good(M, h) /\ M.control_stack = L.control_stack
<1>1. CASE ~borrowed(L.sim, x)
  BY <1>1 DEF rescue
<1>2. CASE borrowed(L.sim, x)
  <2>1. PICK s : s = set_lazy(L.sim, x)
    OBVIOUS
  <2>2. Sound(s, h)
    BY <2>1, SetLazySound DEF Good
  <2>3. PICK P : P = [L EXCEPT !.sim = s]
    OBVIOUS
  <2>4. Good(P, h) /\ P.control_stack = L.control_stack
    BY <2>2, <2>3, SimGood DEF Good
  <2>5. M = emit(P, LocalSpillInstr(x, reserved(L.sim)))
    BY <1>2, <2>1, <2>3 DEF rescue
  <2> QED
    BY <2>4, <2>5, EmitGood
<1> QED
  BY <1>1, <1>2

IsRescues(f, L, n) ==
  f = [k \in 0 .. n |-> IF k = 0 THEN L ELSE rescue(f[k - 1], k - 1)]

LEMMA RescuesExist ==
  ASSUME NEW L, NEW n \in Nat
  PROVE  \E f : IsRescues(f, L, n)
<1> DEFINE S == {m \in Nat : \E f : IsRescues(f, L, m)}
<1>1. 0 \in S
  <2>1. IsRescues([k \in 0 .. 0 |-> L], L, 0)
    BY DEF IsRescues
  <2> QED
    BY <2>1
<1>2. ASSUME NEW m \in Nat, m \in S
      PROVE  m + 1 \in S
  <2>1. PICK f : IsRescues(f, L, m)
    BY <1>2
  <2> DEFINE g == [k \in 0 .. m + 1 |-> IF k \in 0 .. m THEN f[k] ELSE rescue(f[m], m)]
  <2>2. \A k \in 0 .. m : g[k] = f[k]
    OBVIOUS
  <2>3. \A k \in 0 .. m + 1 : g[k] = IF k = 0 THEN L ELSE rescue(g[k - 1], k - 1)
    <3>1. SUFFICES ASSUME NEW k \in 0 .. m + 1
                   PROVE  g[k] = IF k = 0 THEN L ELSE rescue(g[k - 1], k - 1)
      OBVIOUS
    <3>2. CASE k = m + 1
      <4>1. k - 1 = m /\ k # 0 /\ k \notin 0 .. m /\ m \in 0 .. m
        BY <3>2
      <4>2. g[k] = rescue(f[m], m)
        BY <3>1, <4>1
      <4> QED
        BY <2>2, <4>1, <4>2
    <3>3. CASE k \in 0 .. m
      <4>1. f[k] = IF k = 0 THEN L ELSE rescue(f[k - 1], k - 1)
        BY <2>1, <3>3 DEF IsRescues
      <4>2. k # 0 => k - 1 \in 0 .. m
        BY <3>3
      <4> QED
        BY <2>2, <3>3, <4>1, <4>2
    <3> QED
      BY <3>1, <3>2, <3>3
  <2>4. PICK h : h = g
    OBVIOUS
  <2>5. IsRescues(h, L, m + 1)
    <3>1. h = [k \in 0 .. m + 1 |-> h[k]]
      BY <2>4
    <3>2. \A k \in 0 .. m + 1 : h[k] = IF k = 0 THEN L ELSE rescue(h[k - 1], k - 1)
      BY <2>3, <2>4
    <3> QED
      BY <3>1, <3>2 DEF IsRescues
  <2> QED
    BY <2>5
<1>3. Nat \subseteq S
  <2> HIDE DEF S
  <2> QED
    BY <1>1, <1>2, CountingUp
<1> QED
  BY <1>3

LEMMA RescuesDefined ==
  ASSUME NEW L
  PROVE  \E f : IsRescues(f, L, LocalsCount) /\ spill_live_locals(L) = f[LocalsCount]
<1> DEFINE c == CHOOSE f : IsRescues(f, L, LocalsCount)
<1>1. IsRescues(c, L, LocalsCount)
  BY RescuesExist, LimitsAssumption
<1>2. spill_live_locals(L) = c[LocalsCount]
  BY DEF spill_live_locals, IsRescues
<1> HIDE DEF c
<1> QED
  BY <1>1, <1>2

LEMMA SpillLiveGood ==
  ASSUME NEW L, NEW h \in Nat, Good(L, h), NEW M, M = spill_live_locals(L)
  PROVE  Good(M, h) /\ M.control_stack = L.control_stack
<1>1. PICK f : IsRescues(f, L, LocalsCount) /\ M = f[LocalsCount]
  BY RescuesDefined
<1>2. LocalsCount \in Nat
  BY LimitsAssumption
<1> DEFINE S == {k \in 0 .. LocalsCount :
                  Good(f[k], h) /\ f[k].control_stack = L.control_stack}
<1>3. 0 \in S
  BY <1>1, <1>2 DEF IsRescues
<1>4. ASSUME NEW k \in 0 .. LocalsCount, k \in S, k < LocalsCount
      PROVE  k + 1 \in S
  <2>1. k + 1 \in 0 .. LocalsCount /\ k \in Locals /\ f[k + 1] = rescue(f[k], k)
    BY <1>1, <1>2, <1>4 DEF IsRescues, Locals
  <2>2. Good(f[k + 1], h) /\ f[k + 1].control_stack = f[k].control_stack
    BY <1>4, <2>1, RescueGood
  <2> QED
    BY <1>4, <2>1, <2>2
<1>5. 0 .. LocalsCount \subseteq S
  <2> HIDE DEF S
  <2> QED
    BY <1>2, <1>3, <1>4, CountingTo
<1> QED
  BY <1>1, <1>2, <1>5

(* A high-water mark may always be raised within the limit.                 *)
LEMMA RaisedInv ==
  ASSUME NEW s, StackInv(s), NEW m \in Nat, s.max_registers <= m, m <= MAX_REGISTER_SLOTS
  PROVE  StackInv([s EXCEPT !.max_registers = m])
<1> DEFINE p == [s EXCEPT !.max_registers = m]
<1>1. s \in SimStack
  BY DEF StackInv
<1>2. /\ p \in SimStack
      /\ p.stack = s.stack
      /\ p.curr_register_index = s.curr_register_index
      /\ p.max_registers = m
      /\ p.entries = s.entries
      /\ p.origin = s.origin
      /\ p.allocation_len = s.allocation_len
      /\ p.free_slots = s.free_slots
      /\ p.consts = s.consts
  BY <1>1 DEF SimStack
<1> HIDE DEF p
<1>3. RefCountsOK(p)
  BY <1>2 DEF StackInv, RefCountsOK, Entries, Borrowers, Positions
<1>4. OriginsOK(p)
  BY <1>2 DEF StackInv, OriginsOK, Entries, borrowed, Live
<1>5. SpillsOK(p)
  BY <1>2 DEF StackInv, SpillsOK, Entries, SpilledLive, Live
<1>6. RegistersOK(p)
  <2>1. s.curr_register_index <= m
    BY <1>1, SimStackFields DEF StackInv, RegistersOK
  <2> QED
    BY <1>2, <2>1 DEF StackInv, RegistersOK, Positions, IsRegister
<1>7. StackInv(p)
  BY <1>2, <1>3, <1>4, <1>5, <1>6 DEF StackInv
<1> QED
  BY <1>7 DEF p

LEMMA TruncationGood ==
  ASSUME NEW L, NEW h \in Nat, Good(L, h), NEW base \in Nat, NEW arity \in Nat, NEW source,
         NEW M, M = br_truncation_registers(L, base, arity, source)
  PROVE  /\ Good(M, h)
         /\ M.control_stack = L.control_stack
         /\ M.instructions = L.instructions
<1> DEFINE s == L.sim
           peak == truncation_base(s, base) + arity
           R == IF arity = 0 THEN L ELSE record_run(L, source, top_locations(s, arity))
<1>1. /\ Formed(R) /\ R.sim = s /\ R.control_stack = L.control_stack
      /\ R.instructions = L.instructions
  BY RecordGood DEF Good
<1>2. Sound(s, h) /\ Shaped(s)
  BY DEF Good, Sound
<1>3. M = IF peak <= s.max_registers THEN R
          ELSE IF peak > MAX_REGISTER_SLOTS THEN [R EXCEPT !.sim = Fail(s)]
          ELSE [R EXCEPT !.sim.max_registers = peak]
  BY DEF br_truncation_registers
<1>4. CASE peak <= s.max_registers
  BY <1>1, <1>2, <1>3, <1>4 DEF Good
<1>5. CASE ~(peak <= s.max_registers) /\ peak > MAX_REGISTER_SLOTS
  <2>1. Sound(Fail(s), h)
    BY <1>2, FailShaped DEF Sound
  <2> HIDE DEF R, s, peak
  <2>2. M = [R EXCEPT !.sim = Fail(s)]
    BY <1>3, <1>5
  <2> QED
    BY <1>1, <2>1, <2>2, SimGood DEF Formed
<1>6. CASE ~(peak <= s.max_registers) /\ ~(peak > MAX_REGISTER_SLOTS)
  <2>1. PICK p : p = [s EXCEPT !.max_registers = peak]
    OBVIOUS
  <2>2. M = [R EXCEPT !.sim = p]
    BY <1>1, <1>3, <1>6, <2>1
  <2>3. Shaped(p) /\ p.stack = s.stack /\ p.failed = s.failed
    <3> HIDE DEF s, peak
    <3> QED
      BY <1>2, <2>1 DEF Shaped, StackFields
  <2>4. ~s.failed => StackInv(p)
    <3>1. SUFFICES ASSUME StackInv(s)
                   PROVE  StackInv(p)
      BY <1>2 DEF Sound
    <3>2. s.curr_register_index \in Nat /\ s.max_registers \in Nat /\ Len(s.stack) \in Nat
      BY <3>1, SimStackFields DEF StackInv
    <3> DEFINE I == {i \in Len(s.stack) - (Len(s.stack) - base) + 1 .. Len(s.stack) :
                       s.stack[i].kind = "Register"}
    <3>3. Cardinality(I) \in Nat
      <4>1. Len(s.stack) - (Len(s.stack) - base) + 1 \in Int /\ Len(s.stack) \in Int
        BY <3>2
      <4>2. IsFiniteSet(Len(s.stack) - (Len(s.stack) - base) + 1 .. Len(s.stack))
        BY <4>1, FS_Interval
      <4>3. IsFiniteSet(I)
        BY <4>2, FS_Subset
      <4> QED
        BY <4>3, FS_CardinalityType
    <3>4. peak = s.curr_register_index - Cardinality(I) + arity
      BY DEF truncation_base, register_index_at_depth
    <3>5. PICK m : m = peak
      OBVIOUS
    <3>6. m \in Nat /\ s.max_registers <= m /\ m <= MAX_REGISTER_SLOTS
      <4> HIDE DEF I, s, peak
      <4> QED
        BY SMTT(30), <1>6, <3>2, <3>3, <3>4, <3>5, LimitsAssumption
    <3> HIDE DEF s, peak
    <3> QED
      BY <2>1, <3>1, <3>5, <3>6, RaisedInv
  <2>5. Sound(p, h)
    BY <1>2, <2>3, <2>4 DEF Sound
  <2> HIDE DEF R, s, peak
  <2> QED
    BY <1>1, <2>2, <2>5, SimGood DEF Formed
<1> QED
  BY <1>4, <1>5, <1>6

-----------------------------------------------------------------------------
(* Labels.                                                                  *)

SameLabels(cs, ds) ==
  /\ Len(ds) = Len(cs)
  /\ \A k \in 1 .. Len(cs) : /\ ds[k].recorded_height = cs[k].recorded_height
                             /\ ds[k].params = cs[k].params
                             /\ ds[k].results = cs[k].results

LEMMA BlockFields ==
  ASSUME NEW b \in LoweringBlock
  PROVE  /\ b.index \in Nat /\ b.recorded_height \in Nat /\ b.params \in Nat /\ b.results \in Nat
         /\ b.else_index \in Int /\ b.attached_breaks \in Seq(Nat \X Nat)
         /\ branch_arity(b) \in Nat
BY DEF LoweringBlock, branch_arity

(* Attaching a branch to a label changes only the label's list.             *)
LEMMA AttachGood ==
  ASSUME NEW L, NEW h, Good(L, h), NEW k \in 1 .. Len(L.control_stack),
         NEW index \in Nat, NEW arm \in Nat, NEW M, M = attach(L, k, index, arm)
  PROVE  /\ Good(M, h) /\ M.sim = L.sim /\ M.instructions = L.instructions
         /\ SameLabels(L.control_stack, M.control_stack)
<1>1. L.control_stack \in Seq(LoweringBlock)
  BY DEF Good, Formed
<1>2. CASE L.control_stack[k].kind = "Loop"
  BY <1>2 DEF attach, SameLabels
<1>3. CASE L.control_stack[k].kind # "Loop"
  <2> DEFINE b == L.control_stack[k]
             d == [b EXCEPT !.attached_breaks = Append(b.attached_breaks, <<index, arm>>)]
             ds == [L.control_stack EXCEPT ![k] = d]
  <2>1. b \in LoweringBlock
    BY <1>1
  <2>2. Append(b.attached_breaks, <<index, arm>>) \in Seq(Nat \X Nat)
    BY <2>1, BlockFields
  <2>3. d \in LoweringBlock /\ d.recorded_height = b.recorded_height /\ d.params = b.params
        /\ d.results = b.results
    <3>1. PICK q \in Seq(Nat \X Nat) : q = Append(b.attached_breaks, <<index, arm>>)
      BY <2>2
    <3>2. d = [b EXCEPT !.attached_breaks = q]
      BY <3>1
    <3> HIDE DEF d, b
    <3> QED
      BY <2>1, <3>1, <3>2 DEF LoweringBlock
  <2>4. M = [L EXCEPT !.control_stack = ds]
    BY <1>3 DEF attach
  <2>5. ds \in Seq(LoweringBlock) /\ SameLabels(L.control_stack, ds)
    <3> HIDE DEF d
    <3> QED
      BY <1>1, <2>1, <2>3 DEF SameLabels
  <2> HIDE DEF ds
  <2> QED
    BY <2>4, <2>5 DEF Good, Formed
<1> QED
  BY <1>2, <1>3

LEMMA ResetGood ==
  ASSUME NEW L, NEW h \in Nat, Good(L, h), L.control_stack # <<>>,
         curr_block(L).recorded_height <= h,
         NEW M, M = reset_enclosing_block_layout(L)
  PROVE  /\ Good(M, curr_block(L).recorded_height + curr_block(L).results)
         /\ M.control_stack = L.control_stack
<1>1. L.control_stack \in Seq(LoweringBlock)
  BY DEF Good, Formed
<1>2. PICK b \in LoweringBlock : b = curr_block(L)
  BY <1>1 DEF curr_block
<1>3. b.recorded_height \in Nat /\ b.results \in Nat /\ b.recorded_height <= h
  BY <1>2, BlockFields
<1>4. PICK n \in 0 .. h : n = h - b.recorded_height
  BY <1>3
<1>5. Height(L.sim) = h /\ Sound(L.sim, h)
  BY DEF Good, Sound, Height
<1>6. PICK s : s = pops_and_pushes(L.sim, n, b.results)
  OBVIOUS
<1>7. Sound(s, h - n + b.results)
  BY <1>3, <1>5, <1>6, EffectsSound
<1>8. h - n + b.results = b.recorded_height + b.results
  BY <1>3, <1>4
<1>9. M = [L EXCEPT !.sim = s]
  BY <1>2, <1>4, <1>5, <1>6 DEF reset_enclosing_block_layout
<1> QED
  BY <1>2, <1>7, <1>8, <1>9, SimGood DEF Good

-----------------------------------------------------------------------------
(* The rules for operators that leave the labels alone.                     *)

LEMMA NumericGood ==
  ASSUME NEW L, NEW h \in Nat, Good(L, h), NEW o, o.op \in DOMAIN Arity,
         Arity[o.op][1] <= h, NEW M, M = LowerNumeric(L, o)
  PROVE  Good(M, h - Arity[o.op][1] + Arity[o.op][2]) /\ M.control_stack = L.control_stack
<1>2. Arity[o.op][1] \in 0 .. h /\ Arity[o.op][2] \in Nat
  BY ArityShape
<1>1. PICK i \in 0 .. h, j \in Nat : i = Arity[o.op][1] /\ j = Arity[o.op][2]
  BY <1>2
<1>3. PICK P : P = pops_and_pushes_registers(L, i, j, "Emit")
  OBVIOUS
<1>4. Good(P, h - i + j) /\ P.control_stack = L.control_stack
  BY <1>3, EffectsGood
<1>5. PICK x : M = emit(P, x)
  BY <1>1, <1>3 DEF LowerNumeric
<1> QED
  BY <1>1, <1>4, <1>5, EmitGood

LEMMA LocalSetGood ==
  ASSUME NEW L, NEW h \in Nat, Good(L, h), h > 0, NEW x \in Locals,
         NEW M, M = LowerLocalSet(L, x)
  PROVE  Good(M, h - 1) /\ M.control_stack = L.control_stack
<1>1. PICK R : R = rescue(L, x)
  OBVIOUS
<1>2. Good(R, h) /\ R.control_stack = L.control_stack
  BY <1>1, RescueGood
<1>3. PICK P : P = pops_and_pushes_registers(R, 1, 0, "Emit")
  OBVIOUS
<1>4. 1 \in 0 .. h /\ 0 \in Nat /\ h - 1 + 0 = h - 1
  OBVIOUS
<1>5. Good(P, h - 1) /\ P.control_stack = L.control_stack
  BY <1>2, <1>3, <1>4, EffectsGood
<1>6. M = emit(P, WriteLocal("LocalSet", x))
  BY <1>1, <1>3 DEF LowerLocalSet
<1> QED
  BY <1>5, <1>6, EmitGood

LEMMA LocalTeeGood ==
  ASSUME NEW L, NEW h \in Nat, Good(L, h), NEW x \in Locals,
         NEW M, M = LowerLocalTee(L, x)
  PROVE  Good(M, h) /\ M.control_stack = L.control_stack
<1>1. PICK R : R = rescue(L, x)
  OBVIOUS
<1>2. Good(R, h) /\ R.control_stack = L.control_stack
  BY <1>1, RescueGood
<1>3. PICK P : P = record_run(R, "Emit", top_locations(R.sim, 1))
  OBVIOUS
<1>4. Good(P, h) /\ P.control_stack = L.control_stack
  BY <1>2, <1>3, RecordGood DEF Good
<1>5. M = emit(P, WriteLocal("LocalTee", x))
  BY <1>1, <1>3 DEF LowerLocalTee
<1> QED
  BY <1>4, <1>5, EmitGood

LEMMA PushConstSound ==
  ASSUME NEW s, StackInv(s), NEW v \in Val
  PROVE  Sound(push_const(s, v), Len(s.stack) + 1)
<1> DEFINE c == IF interned(s, v) THEN s
                ELSE IF Len(s.consts) >= MAX_CONSTS THEN Fail(s)
                ELSE [s EXCEPT !.consts = Append(s.consts, v)]
           id == const_id(s, v)
           p == push_const(s, v)
<1>1. Shaped(s) /\ Len(s.stack) \in Nat
  BY InvIsSound, SimStackFields DEF Sound, StackInv
<1>2. Shaped(c) /\ c.stack = s.stack
  <2>1. CASE interned(s, v)
    BY <1>1, <2>1
  <2>2. CASE ~interned(s, v) /\ Len(s.consts) >= MAX_CONSTS
    BY <1>1, <2>2, FailShaped
  <2>3. CASE ~interned(s, v) /\ ~(Len(s.consts) >= MAX_CONSTS)
    BY <1>1, <2>3 DEF Shaped, StackFields
  <2> QED
    BY <2>1, <2>2, <2>3
<1>3. id \in Int
  <2>1. s.consts \in Seq(Val)
    BY SimStackFields DEF StackInv
  <2> QED
    BY <2>1 DEF const_id, interned
<1>4. Const(id) \in AnySlot
  BY <1>3 DEF Const, AnySlot
<1>5. p = [c EXCEPT !.stack = Append(c.stack, Const(id))]
  BY DEF push_const, pushed
<1>6. Shaped(p) /\ Len(p.stack) = Len(s.stack) + 1
  <2> HIDE DEF c, p, id
  <2> QED
    BY <1>1, <1>2, <1>4, <1>5 DEF Shaped, StackFields
<1> QED
  BY <1>6, PushConstInv DEF Sound

LEMMA PushLocalSound ==
  ASSUME NEW s, StackInv(s), NEW x \in Locals
  PROVE  Sound(push_local(s, x), Len(s.stack) + 1)
<1>1. StackInv(push_local(s, x)) /\ Len(push_local(s, x).stack) = Len(s.stack) + 1
  BY PushLocalInv, PushLocalFrame
<1> QED
  BY <1>1, InvIsSound

(* What BodiesAssumption says of one operator.                              *)
NamesItsOwn(o) ==
  /\ o.op \in {"LocalGet", "LocalSet", "LocalTee"} => o.x \in Locals
  /\ o.op = "Const" => o.x \in Val

LEMMA PlainGood ==
  ASSUME NEW L, NEW h \in Nat, Good(L, h), StackInv(L.sim), NEW o, Plain(o), NamesItsOwn(o),
         Arity[o.op][1] <= h, NEW M, M = LowerPlain(L, o)
  PROVE  Good(M, h - Arity[o.op][1] + Arity[o.op][2]) /\ M.control_stack = L.control_stack
<1>1. Len(L.sim.stack) = h /\ Formed(L) /\ Sound(L.sim, h)
  BY DEF Good, Sound
<1>2. CASE o.op = "Const"
  <2>1. PICK s : s = push_const(L.sim, o.x)
    OBVIOUS
  <2>2. Sound(s, h + 1)
    BY <1>1, <1>2, <2>1, PushConstSound DEF NamesItsOwn
  <2>3. M = [L EXCEPT !.sim = s]
    BY <1>2, <2>1 DEF LowerPlain
  <2>4. h - Arity[o.op][1] + Arity[o.op][2] = h + 1
    BY <1>2 DEF Arity
  <2> QED
    BY <1>1, <2>2, <2>3, <2>4, SimGood
<1>3. CASE o.op = "LocalGet"
  <2>1. PICK s : s = push_local(L.sim, o.x)
    OBVIOUS
  <2>2. Sound(s, h + 1)
    BY <1>1, <1>3, <2>1, PushLocalSound DEF NamesItsOwn
  <2>3. M = [L EXCEPT !.sim = s]
    BY <1>3, <2>1 DEF LowerPlain
  <2>4. h - Arity[o.op][1] + Arity[o.op][2] = h + 1
    BY <1>3 DEF Arity
  <2> QED
    BY <1>1, <2>2, <2>3, <2>4, SimGood
<1>4. CASE o.op = "LocalSet"
  <2>1. h > 0 /\ h - Arity[o.op][1] + Arity[o.op][2] = h - 1
    BY <1>4 DEF Arity
  <2>2. M = LowerLocalSet(L, o.x) /\ o.x \in Locals
    BY <1>4 DEF LowerPlain, NamesItsOwn
  <2> QED
    BY <2>1, <2>2, LocalSetGood
<1>5. CASE o.op = "LocalTee"
  <2>1. h - Arity[o.op][1] + Arity[o.op][2] = h
    BY <1>5 DEF Arity
  <2>2. M = LowerLocalTee(L, o.x) /\ o.x \in Locals
    BY <1>5 DEF LowerPlain, NamesItsOwn
  <2> QED
    BY <2>1, <2>2, LocalTeeGood
<1>6. CASE o.op = "Drop"
  <2>1. h > 0 /\ h - Arity[o.op][1] + Arity[o.op][2] = h - 1
    BY <1>6 DEF Arity
  <2>2. PICK s : s = pop(L.sim)
    OBVIOUS
  <2>3. Sound(s, h - 1)
    BY <1>1, <2>1, <2>2, PopSound
  <2>4. M = [L EXCEPT !.sim = s]
    BY <1>6, <2>2 DEF LowerPlain
  <2> QED
    BY <1>1, <2>1, <2>3, <2>4, SimGood
<1>7. CASE o.op = "Nop"
  <2>1. h - Arity[o.op][1] + Arity[o.op][2] = h
    BY <1>7 DEF Arity
  <2>2. M = L
    BY <1>7 DEF LowerPlain
  <2> QED
    BY <2>1, <2>2
<1>8. CASE o.op \notin {"Const", "LocalGet", "LocalSet", "LocalTee", "Drop", "Nop"}
  <2>1. M = LowerNumeric(L, o)
    BY <1>8 DEF LowerPlain
  <2> QED
    BY <2>1, NumericGood DEF Plain
<1> QED
  BY <1>2, <1>3, <1>4, <1>5, <1>6, <1>7, <1>8

(* A call leaves its results in place of its arguments.                     *)
LEMMA CallGood ==
  ASSUME NEW L, NEW h \in Nat, Good(L, h), NEW ty, ty[1] \in 0 .. h, ty[2] \in Nat,
         NEW M, M = LowerCall(L, ty)
  PROVE  Good(M, h - ty[1] + ty[2]) /\ M.control_stack = L.control_stack
<1>1. PICK P : P = materialize(L, ty[1])
  OBVIOUS
<1>2. Good(P, h) /\ P.control_stack = L.control_stack
  BY <1>1, MaterializeGood
<1>3. PICK C : C = emit(P, CallInstr("Call", register_index_at_depth(L.sim, ty[1]), ty))
  OBVIOUS
<1>4. Good(C, h) /\ C.control_stack = L.control_stack
  BY <1>2, <1>3, EmitGood
<1>5. PICK s : s = pops_and_pushes(C.sim, ty[1], ty[2])
  OBVIOUS
<1>6. Sound(s, h - ty[1] + ty[2])
  BY <1>4, <1>5, EffectsSound DEF Good
<1>7. M = [C EXCEPT !.sim = s]
  BY <1>1, <1>3, <1>5 DEF LowerCall
<1> QED
  BY <1>4, <1>6, <1>7, SimGood DEF Good

LEMMA CallIndirectGood ==
  ASSUME NEW L, NEW h \in Nat, Good(L, h), NEW ty, ty[1] \in Nat, ty[1] + 1 <= h, ty[2] \in Nat,
         NEW M, M = LowerCallIndirect(L, ty)
  PROVE  Good(M, h - (ty[1] + 1) + ty[2]) /\ M.control_stack = L.control_stack
<1>1. PICK d \in Nat : d = h - 1
  OBVIOUS
<1>2. 1 \in 0 .. h /\ 0 \in Nat /\ h - 1 + 0 = d /\ ty[1] \in 0 .. d /\ d - ty[1] + ty[1] = d
  BY <1>1
<1>3. PICK S : S = pops_and_pushes_registers(L, 1, 0, "CallIndirectSlot")
  OBVIOUS
<1>4. Good(S, d) /\ S.control_stack = L.control_stack
  BY <1>2, <1>3, EffectsGood
<1>5. PICK P : P = pops_and_pushes_registers(S, ty[1], ty[1], "CallIndirectMov")
  OBVIOUS
<1>6. Good(P, d) /\ P.control_stack = L.control_stack
  BY <1>2, <1>4, <1>5, EffectsGood
<1>7. PICK C : C = emit(P, CallInstr("CallIndirect", register_index_at_depth(L.sim, ty[1] + 1), ty))
  OBVIOUS
<1>8. Good(C, d) /\ C.control_stack = L.control_stack
  BY <1>6, <1>7, EmitGood
<1>9. PICK s : s = pops_and_pushes(C.sim, ty[1], ty[2])
  OBVIOUS
<1>10. Sound(s, d - ty[1] + ty[2])
  BY <1>2, <1>8, <1>9, EffectsSound DEF Good
<1>11. M = [C EXCEPT !.sim = s]
  BY <1>3, <1>5, <1>7, <1>9 DEF LowerCallIndirect
<1>12. d - ty[1] + ty[2] = h - (ty[1] + 1) + ty[2]
  BY <1>1
<1> QED
  BY <1>8, <1>10, <1>11, <1>12, SimGood DEF Good

LEMMA UnreachableGood ==
  ASSUME NEW L, NEW h \in Nat, Good(L, h), L.control_stack # <<>>,
         curr_block(L).recorded_height <= h,
         NEW M, M = LowerUnreachable(L)
  PROVE  /\ Good(M, curr_block(L).recorded_height + curr_block(L).results)
         /\ M.control_stack = L.control_stack
<1>1. PICK P : P = emit(L, Instr("Unreachable"))
  OBVIOUS
<1>2. Good(P, h) /\ P.control_stack = L.control_stack
  BY <1>1, EmitGood
<1>3. curr_block(P) = curr_block(L) /\ M = reset_enclosing_block_layout(P)
  BY <1>1, <1>2 DEF curr_block, LowerUnreachable
<1> QED
  BY <1>2, <1>3, ResetGood

-----------------------------------------------------------------------------
(* The rules that open and close labels.                                    *)

Opened(cs, ds, height, ty) ==
  /\ Len(ds) = Len(cs) + 1
  /\ \A k \in 1 .. Len(cs) : ds[k] = cs[k]
  /\ ds[Len(cs) + 1].recorded_height = height
  /\ ds[Len(cs) + 1].params = ty[1]
  /\ ds[Len(cs) + 1].results = ty[2]

LEMMA AddBlockGood ==
  ASSUME NEW L, NEW h \in Nat, Good(L, h), NEW kind \in {"Block", "Loop", "If"},
         NEW ty, ty[1] \in Nat, ty[2] \in Nat, NEW n \in Nat,
         n = h - ty[1] - IF kind = "If" THEN 1 ELSE 0,
         NEW M, M = add_block(L, kind, ty)
  PROVE  Good(M, h) /\ Opened(L.control_stack, M.control_stack, n, ty)
<1>1. L.control_stack \in Seq(LoweringBlock) /\ Len(L.instructions) \in Nat
  BY DEF Good, Formed, IsSeq
<1>2. Height(L.sim) = h
  BY DEF Good, Sound, Height
<1>3. PICK index \in Nat : index = IF ty[1] # 0 THEN len(L) + 1 ELSE len(L)
  BY <1>1 DEF len
<1>4. PICK b : b = NewBlock(kind, index, n, ty[1], ty[2])
  OBVIOUS
<1>5. /\ b \in LoweringBlock
      /\ b.recorded_height = n /\ b.params = ty[1] /\ b.results = ty[2]
  <2>1. kind \in LabelKinds /\ <<>> \in Seq(Nat \X Nat) /\ Unset \in Int
    BY DEF LabelKinds, Unset
  <2> QED
    BY <1>4, <2>1 DEF NewBlock, LoweringBlock
<1>6. M = [L EXCEPT !.control_stack = Append(L.control_stack, b)]
  BY <1>2, <1>3, <1>4 DEF add_block
<1>7. PICK ds : ds = Append(L.control_stack, b)
  OBVIOUS
<1>8. ds \in Seq(LoweringBlock) /\ Opened(L.control_stack, ds, n, ty)
  BY <1>1, <1>5, <1>7 DEF Opened
<1> QED
  BY <1>6, <1>7, <1>8 DEF Good, Formed

LEMMA BlockGood ==
  ASSUME NEW L, NEW h \in Nat, Good(L, h), NEW o, o.ty[1] \in Nat, o.ty[2] \in Nat,
         o.ty[1] <= h, NEW M, M = LowerBlock(L, o)
  PROVE  Good(M, h) /\ Opened(L.control_stack, M.control_stack, h - o.ty[1], o.ty)
<1>1. PICK B : B = add_block(L, "Block", o.ty)
  OBVIOUS
<1>2. PICK n \in Nat : n = h - o.ty[1]
  OBVIOUS
<1>3. n = h - o.ty[1] - IF "Block" = "If" THEN 1 ELSE 0
  BY <1>2
<1>4. Good(B, h) /\ Opened(L.control_stack, B.control_stack, n, o.ty)
  BY <1>1, <1>3, AddBlockGood
<1>5. PICK m \in 0 .. h : m = o.ty[1]
  OBVIOUS
<1>6. M = materialize(B, m)
  BY <1>1, <1>5 DEF LowerBlock
<1>7. Good(M, h) /\ M.control_stack = B.control_stack
  BY <1>4, <1>6, MaterializeGood
<1> QED
  BY <1>2, <1>4, <1>7

LEMMA LoopGood ==
  ASSUME NEW L, NEW h \in Nat, Good(L, h), NEW o, o.ty[1] \in Nat, o.ty[2] \in Nat,
         o.ty[1] <= h, NEW M, M = LowerLoop(L, o)
  PROVE  Good(M, h) /\ Opened(L.control_stack, M.control_stack, h - o.ty[1], o.ty)
<1>1. PICK S : S = spill_live_locals(L)
  OBVIOUS
<1>2. Good(S, h) /\ S.control_stack = L.control_stack
  BY <1>1, SpillLiveGood
<1>3. PICK B : B = add_block(S, "Loop", o.ty)
  OBVIOUS
<1>4. PICK n \in Nat : n = h - o.ty[1]
  OBVIOUS
<1>5. n = h - o.ty[1] - IF "Loop" = "If" THEN 1 ELSE 0
  BY <1>4
<1>6. Good(B, h) /\ Opened(L.control_stack, B.control_stack, n, o.ty)
  BY <1>2, <1>3, <1>5, AddBlockGood
<1>7. PICK P : P = materialize(B, o.ty[1])
  OBVIOUS
<1>8. Good(P, h) /\ P.control_stack = B.control_stack
  <2>1. o.ty[1] \in 0 .. h
    OBVIOUS
  <2> QED
    BY <1>6, <1>7, <2>1, MaterializeGood
<1>9. M = emit(P, Instr("Loop"))
  BY <1>1, <1>3, <1>7 DEF LowerLoop, OpenLoop
<1> QED
  BY <1>4, <1>6, <1>8, <1>9, EmitGood

LEMMA IfGood ==
  ASSUME NEW L, NEW h \in Nat, Good(L, h), NEW o, o.ty[1] \in Nat, o.ty[2] \in Nat,
         o.ty[1] + 1 <= h, NEW M, M = LowerIf(L, o)
  PROVE  Good(M, h - 1) /\ Opened(L.control_stack, M.control_stack, h - (o.ty[1] + 1), o.ty)
<1>1. PICK S : S = spill_live_locals(L)
  OBVIOUS
<1>2. Good(S, h) /\ S.control_stack = L.control_stack
  BY <1>1, SpillLiveGood
<1>3. PICK B : B = add_block(S, "If", o.ty)
  OBVIOUS
<1>4. PICK n \in Nat : n = h - (o.ty[1] + 1)
  OBVIOUS
<1>5. n = h - o.ty[1] - IF "If" = "If" THEN 1 ELSE 0
  BY <1>4
<1>6. Good(B, h) /\ Opened(L.control_stack, B.control_stack, n, o.ty)
  BY <1>2, <1>3, <1>5, AddBlockGood
<1>7. PICK P : P = IF o.ty[1] = 0 THEN B ELSE materialize(B, o.ty[1] + 1)
  OBVIOUS
<1>8. Good(P, h) /\ P.control_stack = B.control_stack
  <2>1. PICK m \in 0 .. h : m = o.ty[1] + 1
    OBVIOUS
  <2>2. CASE o.ty[1] = 0
    BY <1>6, <1>7, <2>2
  <2>3. CASE o.ty[1] # 0
    <3>1. P = materialize(B, m)
      BY <1>7, <2>1, <2>3
    <3> QED
      BY <1>6, <3>1, MaterializeGood
  <2> QED
    BY <2>2, <2>3
<1>9. PICK C : C = pops_and_pushes_registers(P, 1, 0, "Emit")
  OBVIOUS
<1>10. 1 \in 0 .. h /\ 0 \in Nat /\ h - 1 + 0 = h - 1
  OBVIOUS
<1>11. Good(C, h - 1) /\ C.control_stack = B.control_stack
  BY <1>8, <1>9, <1>10, EffectsGood
<1>12. M = emit(C, IfInstr)
  BY <1>1, <1>3, <1>7, <1>9 DEF LowerIf, OpenIf
<1> QED
  BY <1>4, <1>6, <1>11, <1>12, EmitGood

(* The first arm is closed and the second begins with the params.           *)
LEMMA ElseGood ==
  ASSUME NEW L, NEW h \in Nat, Good(L, h), L.control_stack # <<>>,
         h = curr_block(L).recorded_height + curr_block(L).results,
         NEW M, M = LowerElse(L)
  PROVE  /\ Good(M, curr_block(L).recorded_height + curr_block(L).params)
         /\ SameLabels(L.control_stack, M.control_stack)
<1>1. L.control_stack \in Seq(LoweringBlock) /\ IsSeq(L.instructions)
  BY DEF Good, Formed
<1>2. PICK b \in LoweringBlock : b = curr_block(L)
  BY <1>1 DEF curr_block
<1>3. b.recorded_height \in Nat /\ b.results \in Nat /\ b.params \in Nat
      /\ b.results \in 0 .. h /\ b.recorded_height <= h
  BY <1>2, BlockFields
<1>4. PICK e \in Int : e = IF b.results = 0 THEN len(L) ELSE len(L) + 1
  BY <1>1 DEF len, IsSeq
<1>5. PICK E : E = [L EXCEPT !.control_stack[Len(L.control_stack)].else_index = e]
  OBVIOUS
<1>6. Good(E, h) /\ SameLabels(L.control_stack, E.control_stack)
  <2> DEFINE d == [b EXCEPT !.else_index = e]
             ds == [L.control_stack EXCEPT ![Len(L.control_stack)] = d]
  <2>1. d \in LoweringBlock /\ d.recorded_height = b.recorded_height /\ d.params = b.params
        /\ d.results = b.results
    BY DEF LoweringBlock
  <2>2. E = [L EXCEPT !.control_stack = ds]
    BY <1>2, <1>5 DEF curr_block
  <2>3. ds \in Seq(LoweringBlock) /\ SameLabels(L.control_stack, ds)
    <3> HIDE DEF d
    <3> QED
      BY <1>1, <1>2, <2>1 DEF SameLabels, curr_block
  <2> HIDE DEF ds
  <2> QED
    BY <2>2, <2>3 DEF Good, Formed
<1>7. PICK P : P = materialize(E, b.results)
  OBVIOUS
<1>8. Good(P, h) /\ P.control_stack = E.control_stack
  <2>1. PICK m \in 0 .. h : m = b.results
    BY <1>3
  <2>2. P = materialize(E, m)
    BY <1>7, <2>1
  <2> QED
    BY <1>6, <2>2, MaterializeGood
<1>9. PICK n \in 0 .. h : n = h - b.recorded_height
  BY <1>3
<1>10. PICK s : s = pops_and_pushes(P.sim, n, b.params)
  OBVIOUS
<1>11. Sound(s, h - n + b.params)
  BY <1>3, <1>8, <1>10, EffectsSound DEF Good
<1>12. Height(P.sim) = h /\ h - n + b.params = b.recorded_height + b.params
  BY <1>3, <1>8, <1>9 DEF Good, Sound, Height
<1>13. PICK S : S = [P EXCEPT !.sim = s]
  OBVIOUS
<1>14. Good(S, b.recorded_height + b.params) /\ S.control_stack = E.control_stack
  BY <1>8, <1>11, <1>12, <1>13, SimGood DEF Good
<1>15. M = emit(S, ElseInstr)
  BY <1>2, <1>4, <1>5, <1>7, <1>9, <1>10, <1>12, <1>13 DEF LowerElse
<1> QED
  BY <1>2, <1>6, <1>14, <1>15, EmitGood

LEMMA EndGood ==
  ASSUME NEW L, NEW h \in Nat, Good(L, h), L.control_stack # <<>>,
         curr_block(L).results <= h,
         NEW M, M = LowerEnd(L)
  PROVE  /\ Good(M, h)
         /\ Len(M.control_stack) = Len(L.control_stack) - 1
         /\ \A k \in 1 .. Len(L.control_stack) - 1 : M.control_stack[k] = L.control_stack[k]
<1>1. L.control_stack \in Seq(LoweringBlock)
  BY DEF Good, Formed
<1>2. PICK b \in LoweringBlock : b = curr_block(L)
  BY <1>1 DEF curr_block
<1>3. b.results \in 0 .. h
  BY <1>2, BlockFields
<1>4. PICK ds : ds = SubSeq(L.control_stack, 1, Len(L.control_stack) - 1)
  OBVIOUS
<1>5. /\ ds \in Seq(LoweringBlock)
      /\ Len(ds) = Len(L.control_stack) - 1
      /\ \A k \in 1 .. Len(L.control_stack) - 1 : ds[k] = L.control_stack[k]
  BY <1>1, <1>4
<1>6. PICK C : C = [L EXCEPT !.control_stack = ds]
  OBVIOUS
<1>7. Good(C, h) /\ C.control_stack = ds
  BY <1>5, <1>6 DEF Good, Formed
<1>8. PICK P : P = materialize(C, b.results)
  OBVIOUS
<1>9. Good(P, h) /\ P.control_stack = ds
  BY <1>3, <1>7, <1>8, MaterializeGood
<1>10. PICK q : q = [i \in DOMAIN P.instructions |-> patched(P.instructions[i], i - 1, b, len(P))]
  OBVIOUS
<1>11. IsSeq(q)
  <2>1. IsSeq(P.instructions)
    BY <1>9 DEF Good, Formed
  <2>2. Len(P.instructions) \in Nat /\ DOMAIN P.instructions = 1 .. Len(P.instructions)
    BY <2>1 DEF IsSeq
  <2>3. PICK n \in Nat : n = Len(P.instructions)
    BY <2>2
  <2>4. q = [i \in 1 .. n |-> q[i]]
    BY <1>10, <2>2, <2>3
  <2>5. Len(q) = n
    <3>1. q \in [1 .. n -> {q[i] : i \in 1 .. n}]
      BY <2>4
    <3>2. q \in Seq({q[i] : i \in 1 .. n})
      BY SMTT(30), <2>3, <3>1
    <3> QED
      BY <2>3, <2>4, <3>2
  <2> QED
    BY <2>4, <2>5 DEF IsSeq
<1>12. PICK Q : Q = [P EXCEPT !.instructions = q]
  OBVIOUS
<1>13. Good(Q, h) /\ Q.control_stack = ds
  BY <1>9, <1>11, <1>12 DEF Good, Formed
<1>14. M = emit(Q, Instr("End"))
  BY <1>2, <1>4, <1>6, <1>8, <1>10, <1>12 DEF LowerEnd
<1> QED
  BY <1>5, <1>13, <1>14, EmitGood

-----------------------------------------------------------------------------
(* The branches.                                                            *)

LEMMA SameLabelsChain ==
  ASSUME NEW a, NEW b, NEW c, SameLabels(a, b), SameLabels(b, c)
  PROVE  SameLabels(a, c)
BY DEF SameLabels

LEMMA SameCurrent ==
  ASSUME NEW L, NEW M, Formed(L), Formed(M), L.control_stack # <<>>,
         SameLabels(L.control_stack, M.control_stack)
  PROVE  /\ M.control_stack # <<>>
         /\ Len(L.control_stack) \in Nat \ {0}
         /\ curr_block(M).recorded_height = curr_block(L).recorded_height
         /\ curr_block(M).results = curr_block(L).results
         /\ curr_block(L) \in LoweringBlock
<1>1. L.control_stack \in Seq(LoweringBlock) /\ M.control_stack \in Seq(LoweringBlock)
  BY DEF Formed
<1>2. Len(L.control_stack) \in Nat \ {0}
  BY <1>1
<1> QED
  BY <1>1, <1>2 DEF SameLabels, curr_block

LEMMA LenIsNat ==
  ASSUME NEW L, Formed(L)
  PROVE  len(L) \in Nat
BY DEF Formed, IsSeq, len

LEMMA BrGood ==
  ASSUME NEW L, NEW h \in Nat, Good(L, h), L.control_stack # <<>>,
         curr_block(L).recorded_height <= h, NEW k \in 1 .. Len(L.control_stack), NEW name,
         NEW M, M = LowerBr(L, name, k)
  PROVE  /\ Good(M, curr_block(L).recorded_height + curr_block(L).results)
         /\ SameLabels(L.control_stack, M.control_stack)
<1>1. L.control_stack \in Seq(LoweringBlock)
  BY DEF Good, Formed
<1>2. PICK b \in LoweringBlock : b = L.control_stack[k]
  BY <1>1
<1>3. PICK n \in Nat : n = branch_arity(b)
  BY BlockFields
<1>4. b.recorded_height \in Nat
  BY BlockFields
<1>5. PICK T : T = br_truncation_registers(L, b.recorded_height, n, "Emit")
  OBVIOUS
<1>6. Good(T, h) /\ T.control_stack = L.control_stack
  <2>1. PICK r \in Nat : r = b.recorded_height
    BY <1>4
  <2>2. T = br_truncation_registers(L, r, n, "Emit")
    BY <1>5, <2>1
  <2> QED
    BY <2>2, TruncationGood
<1>7. PICK i \in Nat : i = IF n = 0 THEN len(T) ELSE len(T) + 1
  BY <1>6, LenIsNat DEF Good
<1>8. PICK A : A = attach(T, k, i, 0)
  OBVIOUS
<1>9. Good(A, h) /\ SameLabels(L.control_stack, A.control_stack)
  BY <1>6, <1>8, AttachGood
<1>10. PICK P : P = IF n = 0 THEN A ELSE emit(A, Move(truncation_base(L.sim, b.recorded_height)))
  OBVIOUS
<1>11. Good(P, h) /\ P.control_stack = A.control_stack
  BY <1>9, <1>10, EmitGood
<1>12. PICK Q : Q = emit(P, Jump(name, branch_target(b), 0))
  OBVIOUS
<1>13. Good(Q, h) /\ Q.control_stack = A.control_stack
  BY <1>11, <1>12, EmitGood
<1>14. M = reset_enclosing_block_layout(Q)
  BY <1>2, <1>3, <1>5, <1>7, <1>8, <1>10, <1>12 DEF LowerBr
<1>15. /\ SameLabels(L.control_stack, Q.control_stack)
       /\ Q.control_stack # <<>>
       /\ curr_block(Q).recorded_height = curr_block(L).recorded_height
       /\ curr_block(Q).results = curr_block(L).results
  BY <1>9, <1>13, SameCurrent DEF Good
<1>16. /\ Good(M, curr_block(Q).recorded_height + curr_block(Q).results)
       /\ M.control_stack = Q.control_stack
  BY <1>13, <1>14, <1>15, ResetGood
<1> QED
  BY <1>15, <1>16

LEMMA BrIfGood ==
  ASSUME NEW L, NEW h \in Nat, Good(L, h), h > 0, NEW depth,
         block_at(L, depth) \in 1 .. Len(L.control_stack),
         NEW M, M = LowerBrIf(L, depth)
  PROVE  Good(M, h - 1) /\ SameLabels(L.control_stack, M.control_stack)
<1>1. PICK S : S = spill_live_locals(L)
  OBVIOUS
<1>2. Good(S, h) /\ S.control_stack = L.control_stack
  BY <1>1, SpillLiveGood
<1>3. PICK k \in 1 .. Len(L.control_stack) : k = block_at(S, depth)
  BY <1>2 DEF block_at
<1>4. L.control_stack \in Seq(LoweringBlock)
  BY DEF Good, Formed
<1>5. PICK b \in LoweringBlock : b = S.control_stack[k]
  BY <1>2, <1>4
<1>6. PICK C : C = pops_and_pushes_registers(S, 1, 0, "BrIfCond")
  OBVIOUS
<1>7. 1 \in 0 .. h /\ 0 \in Nat /\ h - 1 + 0 = h - 1 /\ h - 1 \in Nat
  OBVIOUS
<1>8. Good(C, h - 1) /\ C.control_stack = L.control_stack
  BY <1>2, <1>6, <1>7, EffectsGood
<1>9. b.recorded_height \in Nat /\ branch_arity(b) \in Nat
  BY BlockFields
<1>10. PICK T : T = br_truncation_registers(C, b.recorded_height, branch_arity(b), "BrIfMov")
  OBVIOUS
<1>11. Good(T, h - 1) /\ T.control_stack = L.control_stack
  BY <1>7, <1>8, <1>9, <1>10, TruncationGood
<1>12. PICK i \in Nat : i = len(T)
  BY <1>11, LenIsNat DEF Good
<1>13. PICK A : A = attach(T, k, i, 0)
  OBVIOUS
<1>14. Good(A, h - 1) /\ SameLabels(L.control_stack, A.control_stack)
  BY <1>11, <1>13, AttachGood
<1>15. M = emit(A, Jump("BrIf", branch_target(b), truncation_base(C.sim, b.recorded_height)))
  BY <1>1, <1>3, <1>5, <1>6, <1>10, <1>12, <1>13 DEF LowerBrIf, BranchIf
<1> QED
  BY <1>14, <1>15, EmitGood

(* One arm of a br_table: its Move counted, its branch attached.            *)
Arm(L, C, depths, i) ==
  LET b == C.control_stack[block_at(C, depths[i])]
      T == br_truncation_registers(L, b.recorded_height, branch_arity(b), "BrTableMov")
  IN  attach(T, block_at(C, depths[i]), len(T), i)

IsArms(f, C, depths, n) ==
  f = [k \in 0 .. n |-> IF k = 0 THEN C ELSE Arm(f[k - 1], C, depths, k)]

LEMMA ArmsExist ==
  ASSUME NEW C, NEW depths, NEW n \in Nat
  PROVE  \E f : IsArms(f, C, depths, n)
<1> DEFINE S == {m \in Nat : \E f : IsArms(f, C, depths, m)}
<1>1. 0 \in S
  <2>1. IsArms([k \in 0 .. 0 |-> C], C, depths, 0)
    BY DEF IsArms
  <2> QED
    BY <2>1
<1>2. ASSUME NEW m \in Nat, m \in S
      PROVE  m + 1 \in S
  <2>1. PICK f : IsArms(f, C, depths, m)
    BY <1>2
  <2> DEFINE g == [k \in 0 .. m + 1 |-> IF k \in 0 .. m THEN f[k] ELSE Arm(f[m], C, depths, m + 1)]
  <2>2. \A k \in 0 .. m : g[k] = f[k]
    OBVIOUS
  <2>3. \A k \in 0 .. m + 1 : g[k] = IF k = 0 THEN C ELSE Arm(g[k - 1], C, depths, k)
    <3>1. SUFFICES ASSUME NEW k \in 0 .. m + 1
                   PROVE  g[k] = IF k = 0 THEN C ELSE Arm(g[k - 1], C, depths, k)
      OBVIOUS
    <3>2. CASE k = m + 1
      <4>1. k - 1 = m /\ k # 0 /\ k \notin 0 .. m /\ m \in 0 .. m
        BY <3>2
      <4>2. g[k] = Arm(f[m], C, depths, m + 1)
        BY <3>1, <4>1
      <4> QED
        BY <2>2, <4>1, <4>2
    <3>3. CASE k \in 0 .. m
      <4>1. f[k] = IF k = 0 THEN C ELSE Arm(f[k - 1], C, depths, k)
        BY <2>1, <3>3 DEF IsArms
      <4>2. k # 0 => k - 1 \in 0 .. m
        BY <3>3
      <4> QED
        BY <2>2, <3>3, <4>1, <4>2
    <3> QED
      BY <3>1, <3>2, <3>3
  <2>4. PICK h : h = g
    OBVIOUS
  <2>5. IsArms(h, C, depths, m + 1)
    <3>1. h = [k \in 0 .. m + 1 |-> h[k]]
      BY <2>4
    <3>2. \A k \in 0 .. m + 1 : h[k] = IF k = 0 THEN C ELSE Arm(h[k - 1], C, depths, k)
      BY <2>3, <2>4
    <3> QED
      BY <3>1, <3>2 DEF IsArms
  <2> QED
    BY <2>5
<1>3. Nat \subseteq S
  <2> HIDE DEF S
  <2> QED
    BY <1>1, <1>2, CountingUp
<1> QED
  BY <1>3

LEMMA ArmGood ==
  ASSUME NEW L, NEW C, NEW h \in Nat, Good(L, h), C.control_stack \in Seq(LoweringBlock),
         SameLabels(C.control_stack, L.control_stack),
         NEW depths, NEW i \in Nat, block_at(C, depths[i]) \in 1 .. Len(C.control_stack),
         NEW M, M = Arm(L, C, depths, i)
  PROVE  Good(M, h) /\ SameLabels(C.control_stack, M.control_stack)
<1>1. PICK k \in 1 .. Len(C.control_stack) : k = block_at(C, depths[i])
  OBVIOUS
<1>2. PICK b \in LoweringBlock : b = C.control_stack[k]
  OBVIOUS
<1>3. PICK r \in Nat, n \in Nat : r = b.recorded_height /\ n = branch_arity(b)
  BY BlockFields
<1>4. PICK T : T = br_truncation_registers(L, r, n, "BrTableMov")
  OBVIOUS
<1>5. Good(T, h) /\ T.control_stack = L.control_stack
  BY <1>4, TruncationGood
<1>6. k \in 1 .. Len(T.control_stack)
  BY <1>5 DEF SameLabels
<1>7. PICK j \in Nat : j = len(T)
  BY <1>5, LenIsNat DEF Good
<1>8. M = attach(T, k, j, i)
  BY <1>1, <1>2, <1>3, <1>4, <1>7 DEF Arm
<1>9. Good(M, h) /\ SameLabels(T.control_stack, M.control_stack)
  BY <1>5, <1>6, <1>8, AttachGood
<1> QED
  BY <1>5, <1>9, SameLabelsChain

(* The arms of a table, all computed against the stack without its index.   *)
LEMMA ArmsGood ==
  ASSUME NEW C, NEW h \in Nat, Good(C, h), NEW depths, NEW n \in Nat,
         \A i \in 1 .. n : block_at(C, depths[i]) \in 1 .. Len(C.control_stack),
         NEW f, IsArms(f, C, depths, n)
  PROVE  Good(f[n], h) /\ SameLabels(C.control_stack, f[n].control_stack)
<1>1. C.control_stack \in Seq(LoweringBlock)
  BY DEF Good, Formed
<1> DEFINE S == {k \in 0 .. n : Good(f[k], h) /\ SameLabels(C.control_stack, f[k].control_stack)}
<1>2. 0 \in S
  BY DEF IsArms, SameLabels
<1>3. ASSUME NEW k \in 0 .. n, k \in S, k < n
      PROVE  k + 1 \in S
  <2>1. PICK i \in Nat : i = k + 1
    OBVIOUS
  <2>2. i \in 1 .. n /\ i \in 0 .. n /\ f[i] = Arm(f[k], C, depths, i)
    BY <1>3, <2>1 DEF IsArms
  <2>3. Good(f[i], h) /\ SameLabels(C.control_stack, f[i].control_stack)
    <3>1. Good(f[k], h) /\ SameLabels(C.control_stack, f[k].control_stack)
      BY <1>3
    <3> QED
      BY <1>1, <2>2, <3>1, ArmGood
  <2> QED
    BY <2>1, <2>2, <2>3
<1>4. 0 .. n \subseteq S
  <2> HIDE DEF S
  <2> QED
    BY <1>2, <1>3, CountingTo
<1> QED
  BY <1>4

(* The arms of the instruction itself.                                      *)
TableArms(C, depths) ==
  [i \in 1 .. Len(depths) |->
     LET b == C.control_stack[block_at(C, depths[i])]
     IN  [target_index |-> branch_target(b), out |-> truncation_base(C.sim, b.recorded_height)]]

LEMMA TableDefined ==
  ASSUME NEW L, NEW depths, Len(depths) \in Nat,
         NEW C, C = pops_and_pushes_registers(L, 1, 0, "BrTableIndex")
  PROVE  \E f : /\ IsArms(f, C, depths, Len(depths))
                /\ BranchTable(L, depths) =
                     reset_enclosing_block_layout(
                       emit(f[Len(depths)], BrTableInstr(TableArms(C, depths))))
<1> DEFINE c == CHOOSE f : IsArms(f, C, depths, Len(depths))
<1>1. IsArms(c, C, depths, Len(depths))
  BY ArmsExist
<1>2. BranchTable(L, depths) =
        reset_enclosing_block_layout(emit(c[Len(depths)], BrTableInstr(TableArms(C, depths))))
  BY ZenonT(30) DEF BranchTable, IsArms, Arm, TableArms
<1> HIDE DEF c
<1> QED
  BY <1>1, <1>2

LEMMA BrTableGood ==
  ASSUME NEW L, NEW h \in Nat, Good(L, h), L.control_stack # <<>>,
         curr_block(L).recorded_height + 1 <= h,
         NEW depths, Len(depths) \in Nat,
         \A i \in 1 .. Len(depths) : block_at(L, depths[i]) \in 1 .. Len(L.control_stack),
         NEW M, M = LowerBrTable(L, depths)
  PROVE  /\ Good(M, curr_block(L).recorded_height + curr_block(L).results)
         /\ SameLabels(L.control_stack, M.control_stack)
<1>1. PICK S : S = spill_live_locals(L)
  OBVIOUS
<1>2. Good(S, h) /\ S.control_stack = L.control_stack
  BY <1>1, SpillLiveGood
<1>4. L.control_stack \in Seq(LoweringBlock) /\ curr_block(L) \in LoweringBlock
  BY DEF Good, Formed, curr_block
<1>5. curr_block(L).recorded_height \in Nat
  BY <1>4, BlockFields
<1>6. PICK C : C = pops_and_pushes_registers(S, 1, 0, "BrTableIndex")
  OBVIOUS
<1>7. PICK d \in Nat : d = h - 1
  BY <1>5
<1>8. 1 \in 0 .. h /\ 0 \in Nat /\ h - 1 + 0 = d /\ curr_block(L).recorded_height <= d
  BY <1>5, <1>7
<1>9. Good(C, d) /\ C.control_stack = L.control_stack
  BY <1>2, <1>6, <1>8, EffectsGood
<1>10. PICK f : /\ IsArms(f, C, depths, Len(depths))
                /\ \E x : M = reset_enclosing_block_layout(emit(f[Len(depths)], x))
  BY <1>1, <1>6, TableDefined DEF LowerBrTable
<1>11. PICK x : M = reset_enclosing_block_layout(emit(f[Len(depths)], x))
  BY <1>10
<1>12. PICK n \in Nat : n = Len(depths)
  OBVIOUS
<1>13. Good(f[n], d) /\ SameLabels(C.control_stack, f[n].control_stack)
  <2>1. \A i \in 1 .. n : block_at(C, depths[i]) \in 1 .. Len(C.control_stack)
    BY <1>9, <1>12 DEF block_at
  <2> QED
    BY <1>9, <1>10, <1>12, <2>1, ArmsGood
<1>14. PICK Q : Q = emit(f[n], x)
  OBVIOUS
<1>15. Good(Q, d) /\ SameLabels(L.control_stack, Q.control_stack)
  BY <1>9, <1>13, <1>14, EmitGood
<1>16. /\ Q.control_stack # <<>>
       /\ curr_block(Q).recorded_height = curr_block(L).recorded_height
       /\ curr_block(Q).results = curr_block(L).results
  BY <1>15, SameCurrent DEF Good
<1>17. /\ Good(M, curr_block(Q).recorded_height + curr_block(Q).results)
       /\ M.control_stack = Q.control_stack
  BY <1>8, <1>11, <1>12, <1>14, <1>15, <1>16, ResetGood
<1> QED
  BY <1>15, <1>16, <1>17

-----------------------------------------------------------------------------
(* The labels after a step.                                                 *)

LEMMA LabelsKeptMatch ==
  ASSUME NEW cs, NEW ds, NEW v, NEW w, NEW t, LabelsMatch(cs, v, t),
         Len(cs) \in Nat, SameLabels(cs, ds), cs = <<>> <=> ds = <<>>, w.labels = v.labels
  PROVE  LabelsMatch(ds, w, t)
BY DEF LabelsMatch, SameLabels

(* An unconditional transfer.                                               *)
LEMMA LabelsMarkedMatch ==
  ASSUME NEW cs, NEW ds, NEW v, NEW w, NEW t \in Tracking, NEW u, LabelsMatch(cs, v, t),
         Len(cs) \in Nat \ {0}, Len(ds) \in Nat, SameLabels(cs, ds), ds # <<>>,
         ReaderInv(v), v.labels # <<>>, ~t.unreachable,
         w = MarkUnreachable(v), u = [t EXCEPT !.unreachable = TRUE]
  PROVE  LabelsMatch(ds, w, u)
<1>1. u.unreachable /\ u.blocks = t.blocks /\ t.blocks = <<>>
  BY DEF Tracking, LabelsMatch
<1>2. /\ Len(w.labels) = Len(v.labels)
      /\ w.labels[Len(v.labels)] = [Innermost(v) EXCEPT !.unreachable = TRUE]
      /\ \A k \in 1 .. Len(v.labels) - 1 : w.labels[k] = v.labels[k]
  BY MarkedShape
<1>3. Innermost(v) = v.labels[Len(v.labels)] /\ Innermost(v) \in ValidatorLabel
  BY InnermostIsLabel
<1>4. Len(cs) = Len(v.labels)
  BY <1>1 DEF LabelsMatch
<1>5. /\ w.labels[Len(cs)].unreachable
      /\ w.labels[Len(cs)].height = v.labels[Len(cs)].height
      /\ w.labels[Len(cs)].params = v.labels[Len(cs)].params
      /\ w.labels[Len(cs)].results = v.labels[Len(cs)].results
  BY <1>2, <1>3, <1>4 DEF ValidatorLabel
<1>6. \A k \in 1 .. Len(cs) : /\ ds[k].recorded_height = w.labels[k].height
                              /\ ds[k].params = w.labels[k].params
                              /\ ds[k].results = w.labels[k].results
  <2>1. SUFFICES ASSUME NEW k \in 1 .. Len(cs)
                 PROVE  /\ ds[k].recorded_height = w.labels[k].height
                        /\ ds[k].params = w.labels[k].params
                        /\ ds[k].results = w.labels[k].results
    OBVIOUS
  <2>2. /\ ds[k].recorded_height = v.labels[k].height
        /\ ds[k].params = v.labels[k].params
        /\ ds[k].results = v.labels[k].results
    BY DEF SameLabels, LabelsMatch
  <2>3. k = Len(cs) \/ k \in 1 .. Len(v.labels) - 1
    BY <1>4
  <2> QED
    BY <1>2, <1>5, <2>2, <2>3
<1>7. \A k \in 1 .. Len(ds) - 1 : ~w.labels[k].unreachable
  BY <1>2, <1>4 DEF SameLabels, LabelsMatch
<1>8. Len(ds) = Len(cs)
  BY DEF SameLabels
<1> QED
  BY <1>1, <1>2, <1>4, <1>5, <1>6, <1>7, <1>8 DEF LabelsMatch

(* A block opened in live code.                                             *)
LEMMA LabelsOpenedMatch ==
  ASSUME NEW cs, NEW ds, NEW v, NEW w, NEW t \in Tracking, LabelsMatch(cs, v, t),
         Len(cs) \in Nat \ {0}, Len(ds) \in Nat, ds # <<>>,
         ~t.unreachable, NEW l, l.unreachable = FALSE, NEW ty, Opened(cs, ds, l.height, ty),
         l.params = ty[1], l.results = ty[2],
         Len(w.labels) = Len(v.labels) + 1, w.labels[Len(v.labels) + 1] = l,
         \A k \in 1 .. Len(v.labels) : w.labels[k] = v.labels[k]
  PROVE  LabelsMatch(ds, w, t)
<1>1. t.blocks = <<>> /\ Len(cs) = Len(v.labels)
  BY DEF LabelsMatch
<1>2. Len(ds) = Len(cs) + 1
  BY DEF Opened
<1>3. \A k \in 1 .. Len(ds) : /\ ds[k].recorded_height = w.labels[k].height
                              /\ ds[k].params = w.labels[k].params
                              /\ ds[k].results = w.labels[k].results
  BY <1>1, <1>2 DEF Opened, LabelsMatch
<1>4. \A k \in 1 .. Len(ds) - 1 : ~w.labels[k].unreachable
  <2>1. PICK n \in Nat : n = Len(cs)
    OBVIOUS
  <2>2. ASSUME NEW k \in 1 .. n
        PROVE  ~v.labels[k].unreachable
    <3>1. CASE k = n
      <4>1. cs # <<>>
        BY <2>1
      <4> QED
        BY <2>1, <3>1, <4>1 DEF LabelsMatch
    <3>2. CASE k \in 1 .. n - 1
      BY <2>1, <3>2 DEF LabelsMatch
    <3> QED
      BY <3>1, <3>2
  <2>3. Len(ds) - 1 = n
    BY <1>2, <2>1
  <2>4. \A k \in 1 .. n : w.labels[k] = v.labels[k]
    BY <1>1, <2>1
  <2> QED
    BY ONLY <2>2, <2>3, <2>4
<1>5. w.labels[Len(ds)].unreachable = t.unreachable
  <2>1. l.unreachable = t.unreachable
    BY DEF Tracking
  <2> QED
    BY <1>1, <1>2, <2>1
<1> QED
  BY <1>1, <1>2, <1>3, <1>4, <1>5 DEF LabelsMatch

(* The else of the innermost label: its second arm is live.                 *)
LEMMA LabelsElseMatch ==
  ASSUME NEW cs, NEW ds, NEW v, NEW w, NEW t, LabelsMatch(cs, v, t), t.blocks = <<>>,
         Len(cs) \in Nat \ {0}, Len(ds) \in Nat, ds # <<>>, SameLabels(cs, ds),
         NEW l, l = w.labels[Len(v.labels)], l.unreachable = FALSE,
         l.height = v.labels[Len(v.labels)].height, l.params = v.labels[Len(v.labels)].params,
         l.results = v.labels[Len(v.labels)].results,
         Len(w.labels) = Len(v.labels),
         \A k \in 1 .. Len(v.labels) - 1 : w.labels[k] = v.labels[k]
  PROVE  LabelsMatch(ds, w, LiveTracking)
<1>1. Len(cs) = Len(v.labels) /\ Len(ds) = Len(cs)
  BY DEF LabelsMatch, SameLabels
<1>2. \A k \in 1 .. Len(ds) : /\ ds[k].recorded_height = w.labels[k].height
                              /\ ds[k].params = w.labels[k].params
                              /\ ds[k].results = w.labels[k].results
  <2>1. SUFFICES ASSUME NEW k \in 1 .. Len(cs)
                 PROVE  /\ ds[k].recorded_height = w.labels[k].height
                        /\ ds[k].params = w.labels[k].params
                        /\ ds[k].results = w.labels[k].results
    BY <1>1
  <2>2. /\ ds[k].recorded_height = v.labels[k].height
        /\ ds[k].params = v.labels[k].params
        /\ ds[k].results = v.labels[k].results
    BY DEF SameLabels, LabelsMatch
  <2>3. k = Len(v.labels) \/ k \in 1 .. Len(v.labels) - 1
    BY <1>1
  <2> QED
    BY <2>2, <2>3
<1>3. \A k \in 1 .. Len(ds) - 1 : ~w.labels[k].unreachable
  BY <1>1 DEF LabelsMatch
<1>4. LiveTracking.unreachable = FALSE /\ LiveTracking.blocks = <<>>
  BY DEF LiveTracking
<1> QED
  BY <1>1, <1>2, <1>3, <1>4 DEF LabelsMatch

(* The end of the innermost label: the one around it was live when it was   *)
(* opened, and still is.                                                    *)
LEMMA LabelsEndMatch ==
  ASSUME NEW cs, NEW ds, NEW v, NEW w, NEW t, LabelsMatch(cs, v, t), t.blocks = <<>>,
         v.labels \in Seq(ValidatorLabel), Len(cs) \in Nat \ {0}, Len(ds) = Len(cs) - 1, ds # <<>> => Len(ds) > 0,
         \A k \in 1 .. Len(cs) - 1 : ds[k] = cs[k],
         Len(w.labels) = Len(v.labels) - 1,
         \A k \in 1 .. Len(v.labels) - 1 : w.labels[k] = v.labels[k]
  PROVE  LabelsMatch(ds, w, LiveTracking)
<1>1. Len(cs) = Len(v.labels)
  BY DEF LabelsMatch
<1>2. \A k \in 1 .. Len(ds) : /\ ds[k].recorded_height = w.labels[k].height
                              /\ ds[k].params = w.labels[k].params
                              /\ ds[k].results = w.labels[k].results
                              /\ w.labels[k].unreachable = FALSE
  <2>1. SUFFICES ASSUME NEW k \in 1 .. Len(ds)
                 PROVE  /\ ds[k].recorded_height = w.labels[k].height
                        /\ ds[k].params = w.labels[k].params
                        /\ ds[k].results = w.labels[k].results
                        /\ w.labels[k].unreachable = FALSE
    OBVIOUS
  <2>2. k \in 1 .. Len(cs) - 1 /\ k \in 1 .. Len(cs)
    OBVIOUS
  <2>3. ds[k] = cs[k] /\ w.labels[k] = v.labels[k]
    BY <1>1, <2>2
  <2>4. v.labels[k] \in ValidatorLabel
    BY <1>1, <2>2
  <2>5. v.labels[k].unreachable \in BOOLEAN /\ ~v.labels[k].unreachable
    BY <2>2, <2>4, LabelFields DEF LabelsMatch
  <2>6. /\ cs[k].recorded_height = v.labels[k].height
        /\ cs[k].params = v.labels[k].params
        /\ cs[k].results = v.labels[k].results
    BY <2>2 DEF LabelsMatch
  <2> QED
    BY <2>3, <2>5, <2>6
<1>3. LiveTracking.unreachable = FALSE /\ LiveTracking.blocks = <<>>
  BY DEF LiveTracking
<1>4. ds # <<>> => w.labels[Len(ds)].unreachable = FALSE
  <2>1. SUFFICES ASSUME ds # <<>>
                 PROVE  w.labels[Len(ds)].unreachable = FALSE
    OBVIOUS
  <2>2. Len(ds) \in 1 .. Len(ds)
    BY <2>1
  <2> QED
    BY <1>2, <2>2
<1>5. Len(ds) \in Nat
  OBVIOUS
<1>6. \A k \in 1 .. Len(ds) - 1 : ~w.labels[k].unreachable
  BY <1>2, <1>5
<1>7. Len(ds) + Len(LiveTracking.blocks) = Len(w.labels)
  BY <1>1, <1>3
<1> QED
  BY <1>2, <1>3, <1>4, <1>6, <1>7 DEF LabelsMatch

(* Labels opened above those of the lowering, in code that cannot run.      *)
LEMMA LabelsBelowMatch ==
  ASSUME NEW cs, NEW v, NEW w, NEW t, NEW u, LabelsMatch(cs, v, t), Len(cs) \in Nat \ {0},
         t.unreachable = TRUE, u.unreachable = TRUE,
         Len(cs) + Len(u.blocks) = Len(w.labels),
         \A k \in 1 .. Len(cs) : w.labels[k] = v.labels[k]
  PROVE  LabelsMatch(cs, w, u)
<1>1. cs # <<>>
  BY DEF LabelsMatch
<1>2. Len(cs) \in 1 .. Len(cs) /\ \A k \in 1 .. Len(cs) - 1 : k \in 1 .. Len(cs)
  OBVIOUS
<1> QED
  BY ZenonT(30), <1>1, <1>2 DEF LabelsMatch

(* What is counted of the code that is skipped.                             *)
AfterSkip(t, o) ==
  CASE Opens(o)     -> [t EXCEPT !.blocks = Append(t.blocks, o.op)]
    [] o.op = "End" -> [t EXCEPT !.blocks = SubSeq(t.blocks, 1, Len(t.blocks) - 1)]
    [] OTHER        -> t

(* The labels after a skipped operator.                                     *)
LEMMA LabelsSkippedMatch ==
  ASSUME NEW cs, NEW v, NEW t \in Tracking, LabelsMatch(cs, v, t), Len(cs) \in Nat \ {0},
         t.unreachable, ReaderInv(v), v.labels # <<>>, NEW o, IsOperator(o),
         o.op \in {"Else", "End"} => t.blocks # <<>>,
         NEW w, w = Validated(v, o),
         NEW u, u = AfterSkip(t, o)
  PROVE  /\ u \in Tracking /\ u.unreachable = t.unreachable /\ LabelsMatch(cs, w, u)
         /\ \A k \in 1 .. Len(cs) : w.labels[k] = v.labels[k]
<1>1. /\ t.blocks \in Seq(Openers) /\ t.unreachable = TRUE
      /\ Len(t.blocks) \in Nat /\ Len(v.labels) \in Nat \ {0}
      /\ Len(cs) + Len(t.blocks) = Len(v.labels)
      /\ v \in Validator
  BY InnermostIsLabel DEF Tracking, LabelsMatch, ReaderInv
<1>0. \A k \in 1 .. Len(cs) : k \in 1 .. Len(v.labels)
  BY <1>1
<1>2. CASE Opens(o)
  <2>1. PICK q : q = Append(t.blocks, o.op)
    OBVIOUS
  <2>2. q \in Seq(Openers) /\ Len(q) = Len(t.blocks) + 1
    BY <1>1, <1>2, <2>1 DEF Opens
  <2>3. u = [t EXCEPT !.blocks = q]
    BY <1>2, <2>1 DEF AfterSkip, Opens, Openers
  <2>4. u \in Tracking /\ u.unreachable = t.unreachable /\ u.blocks = q
    BY <2>2, <2>3 DEF Tracking
  <2>5. /\ Len(w.labels) = Len(v.labels) + 1
        /\ \A k \in 1 .. Len(v.labels) : w.labels[k] = v.labels[k]
    <3>1. ASSUME NEW pops \in Nat, NEW e, e = Effect(v, pops, 0), NEW h, NEW l,
                 w = [height |-> h, labels |-> Append(e.labels, l)]
          PROVE  /\ Len(w.labels) = Len(v.labels) + 1
                 /\ \A k \in 1 .. Len(v.labels) : w.labels[k] = v.labels[k]
      <4>1. e.labels = v.labels
        BY <3>1, EffectShape
      <4> QED
        BY <1>1, <3>1, <4>1 DEF Validator
    <3>2. o.ty[1] \in Nat /\ o.ty[1] + 1 \in Nat
      BY SMTT(30), OperatorCases
    <3>3. CASE o.op = "If"
      <4>1. PICK e : e = Effect(v, o.ty[1] + 1, 0)
        OBVIOUS
      <4>2. w = [height |-> e.height + o.ty[1],
                 labels |-> Append(e.labels, Label("If", e.height, o.ty[1], o.ty[2]))]
        BY <3>3, <4>1, ValidatedCases
      <4> QED
        BY <3>1, <3>2, <4>1, <4>2
    <3>4. CASE o.op \in {"Block", "Loop"}
      <4>1. PICK e : e = Effect(v, o.ty[1], 0)
        OBVIOUS
      <4>2. w = [height |-> e.height + o.ty[1],
                 labels |-> Append(e.labels, Label(o.op, e.height, o.ty[1], o.ty[2]))]
        BY <3>4, <4>1, ValidatedCases
      <4> QED
        BY <3>1, <3>2, <4>1, <4>2
    <3> QED
      BY <1>2, <3>3, <3>4 DEF Opens, Openers
  <2>6. /\ Len(cs) + Len(u.blocks) = Len(w.labels)
        /\ \A k \in 1 .. Len(cs) : w.labels[k] = v.labels[k]
    <3>1. Len(u.blocks) = Len(t.blocks) + 1
      BY <2>2, <2>4
    <3>2. Len(cs) + Len(u.blocks) = Len(w.labels)
      <4>1. Len(w.labels) = Len(v.labels) + 1
        BY <2>5
      <4>2. /\ Len(cs) \in Nat /\ Len(t.blocks) \in Nat
            /\ Len(cs) + Len(t.blocks) = Len(v.labels)
        BY <1>1
      <4> QED
        BY <3>1, <4>1, <4>2
    <3> QED
      BY <1>0, <2>5, <3>2
  <2> QED
    BY <1>1, <2>4, <2>6, LabelsBelowMatch
<1>3. CASE o.op = "End"
  <2>1. PICK q : q = SubSeq(t.blocks, 1, Len(t.blocks) - 1)
    OBVIOUS
  <2>2. q \in Seq(Openers) /\ Len(q) = Len(t.blocks) - 1 /\ Len(t.blocks) > 0
    BY <1>1, <1>3, <2>1
  <2>3. u = [t EXCEPT !.blocks = q]
    BY <1>3, <2>1 DEF AfterSkip, Opens, Openers
  <2>4. u \in Tracking /\ u.unreachable = t.unreachable /\ u.blocks = q
    BY <2>2, <2>3 DEF Tracking
  <2>5. /\ Len(w.labels) = Len(v.labels) - 1
        /\ \A k \in 1 .. Len(v.labels) - 1 : w.labels[k] = v.labels[k]
    BY <1>3, ValidatedCases, ClosedInv
  <2>6. /\ Len(cs) + Len(u.blocks) = Len(w.labels)
        /\ \A k \in 1 .. Len(cs) : w.labels[k] = v.labels[k]
    <3>1. PICK n \in Nat, m \in Nat : n = Len(cs) /\ m = Len(t.blocks)
      BY <1>1
    <3>2. Len(v.labels) = n + m /\ Len(u.blocks) = m - 1 /\ m > 0
      BY <1>1, <2>2, <2>4, <3>1
    <3>3. \A k \in 1 .. n : k \in 1 .. Len(v.labels) - 1
      BY ONLY <3>1, <3>2
    <3>4. Len(w.labels) = n + m - 1
      BY <2>5, <3>2
    <3> QED
      BY ONLY <2>5, <3>1, <3>2, <3>3, <3>4
  <2> QED
    BY <1>1, <2>4, <2>6, LabelsBelowMatch
<1>4. CASE o.op = "Else"
  <2>1. u = t
    BY <1>4 DEF AfterSkip, Opens, Openers
  <2>2. Len(t.blocks) > 0
    BY <1>1, <1>4
  <2>3. PICK l : w.labels = [v.labels EXCEPT ![Len(v.labels)] = l]
    <3>1. w = [height |-> Innermost(v).height + Innermost(v).params,
               labels |-> [v.labels EXCEPT ![Len(v.labels)] =
                             Label("Else", Innermost(v).height, Innermost(v).params,
                                   Innermost(v).results)]]
      BY <1>4, ValidatedCases
    <3>2. w.labels = [v.labels EXCEPT ![Len(v.labels)] =
                        Label("Else", Innermost(v).height, Innermost(v).params,
                              Innermost(v).results)]
      BY <3>1
    <3> QED
      BY <3>2
  <2>4. /\ Len(w.labels) = Len(v.labels)
        /\ \A k \in 1 .. Len(v.labels) - 1 : w.labels[k] = v.labels[k]
    BY <1>1, <2>3 DEF Validator
  <2>5. /\ Len(cs) + Len(u.blocks) = Len(w.labels)
        /\ \A k \in 1 .. Len(cs) : w.labels[k] = v.labels[k]
    BY SMTT(30), <1>1, <2>1, <2>2, <2>4
  <2> QED
    BY <1>1, <2>1, <2>5, LabelsBelowMatch
<1>5. CASE o.op \in {"Br", "BrTable", "Return", "Unreachable"}
  <2>1. u = t
    BY <1>5 DEF AfterSkip, Opens, Openers
  <2>2. /\ Len(w.labels) = Len(v.labels)
        /\ w.labels[Len(v.labels)] = [Innermost(v) EXCEPT !.unreachable = TRUE]
        /\ \A k \in 1 .. Len(v.labels) - 1 : w.labels[k] = v.labels[k]
    BY <1>5, ValidatedCases, MarkedShape
  <2>3. CASE t.blocks = <<>>
    <3>1. Innermost(v).unreachable = TRUE /\ Innermost(v) \in ValidatorLabel
      <4>1. Len(cs) = Len(v.labels) /\ cs # <<>>
        BY <1>1, <2>3
      <4>2. v.labels[Len(cs)].unreachable = t.unreachable
        BY <4>1 DEF LabelsMatch
      <4> QED
        BY <1>1, <4>1, <4>2, InnermostIsLabel
    <3>2. [Innermost(v) EXCEPT !.unreachable = TRUE] = Innermost(v)
      BY <3>1 DEF ValidatorLabel
    <3>3. \A k \in 1 .. Len(v.labels) : w.labels[k] = v.labels[k]
      <4>1. w.labels[Len(v.labels)] = v.labels[Len(v.labels)]
        BY <2>2, <3>2, InnermostIsLabel
      <4>2. \A k \in 1 .. Len(v.labels) : k = Len(v.labels) \/ k \in 1 .. Len(v.labels) - 1
        BY <1>1
      <4> QED
        BY <2>2, <4>1, <4>2
    <3>4. /\ Len(cs) + Len(u.blocks) = Len(w.labels)
          /\ \A k \in 1 .. Len(cs) : w.labels[k] = v.labels[k]
      BY <1>0, <1>1, <2>1, <2>2, <3>3
    <3> QED
      BY <1>1, <2>1, <3>4, LabelsBelowMatch
  <2>4. CASE t.blocks # <<>>
    <3>1. Len(t.blocks) > 0
      BY <1>1, <2>4
    <3>2. /\ Len(cs) + Len(u.blocks) = Len(w.labels)
          /\ \A k \in 1 .. Len(cs) : w.labels[k] = v.labels[k]
      BY <1>1, <2>1, <2>2, <3>1
    <3> QED
      BY <1>1, <2>1, <3>2, LabelsBelowMatch
  <2> QED
    BY <2>3, <2>4
<1>6. CASE Plain(o) \/ o.op \in {"Call", "CallIndirect", "BrIf"}
  <2>1. u = t
    BY <1>6, OperatorCases DEF AfterSkip, Opens, Openers
  <2>2. w.labels = v.labels
    <3>1. CASE Plain(o)
      BY <3>1, ValidatedCases, ArityShape, EffectShape DEF Plain
    <3>2. CASE o.op \in {"Call", "CallIndirect"}
      BY <3>2, ValidatedCases, OperatorCases, EffectShape DEF IsCall
    <3>3. CASE o.op = "BrIf"
      BY <3>3, ValidatedCases, EffectShape
    <3> QED
      BY <1>6, <3>1, <3>2, <3>3
  <2>3. /\ Len(cs) + Len(u.blocks) = Len(w.labels)
        /\ \A k \in 1 .. Len(cs) : w.labels[k] = v.labels[k]
    BY <1>0, <1>1, <2>1, <2>2
  <2> QED
    BY <1>1, <2>1, <2>3, LabelsBelowMatch
<1> QED
  BY <1>2, <1>3, <1>4, <1>5, <1>6, OperatorCases DEF Opens, Openers

-----------------------------------------------------------------------------
(* The actions.                                                             *)

(* What the reader gives.                                                   *)
LEMMA ReadGives ==
  ASSUME LoweringInv, NEW o \in Alphabets[alphabet].ops, Reads(o)
  PROVE  /\ IsOperator(o) /\ NamesItsOwn(o)
         /\ status = "lowering" /\ valid.labels # <<>>
         /\ Allowed(valid, o) /\ valid' = Validated(valid, o) /\ ReaderInv(valid')
         /\ alphabet' = alphabet
<1>1. alphabet \in DOMAIN Alphabets
  BY DEF LoweringInv
<1>2. IsOperator(o) /\ NamesItsOwn(o)
  BY <1>1, AlphabetsAssumption, BodiesAssumption DEF NamesItsOwn
<1>3. /\ status = "lowering" /\ valid.labels # <<>>
      /\ Allowed(valid, o) /\ valid' = Validated(valid, o)
      /\ alphabet' = alphabet
  BY DEF Reads, ReadsOperator
<1>4. ReaderInv(Validated(valid, o))
  BY <1>2, <1>3, ValidatedInv DEF LoweringInv
<1> QED
  BY <1>2, <1>3, <1>4

(* An operator that is lowered finds the validator's innermost label open   *)
(* in the lowering too, and a consistent stack of the expected height.      *)
LEMMA OpenState ==
  ASSUME LoweringInv, status = "lowering", valid.labels # <<>>, tracking.blocks = <<>>,
         NEW L, L = lowering, NEW v, v = valid
  PROVE  \E h \in Nat :
           /\ Good(L, h) /\ StackInv(L.sim)
           /\ h = ExpectedHeight(L, v, tracking)
           /\ Len(L.control_stack) \in Nat \ {0} /\ L.control_stack # <<>>
           /\ Len(L.control_stack) = Len(v.labels)
           /\ ReaderInv(v)
           /\ curr_block(L).recorded_height = Innermost(v).height
           /\ curr_block(L).params = Innermost(v).params
           /\ curr_block(L).results = Innermost(v).results
           /\ tracking \in Tracking /\ LabelsMatch(L.control_stack, v, tracking)
           /\ Innermost(v).unreachable = tracking.unreachable
<1>1. /\ Formed(L) /\ LabelsMatch(L.control_stack, v, tracking) /\ ReaderInv(v)
      /\ StackInv(L.sim) /\ tracking \in Tracking
  BY DEF LoweringInv
<1>2. Len(v.labels) \in Nat \ {0}
  BY <1>1, InnermostIsLabel
<1>3. L.control_stack \in Seq(LoweringBlock) /\ Len(L.control_stack) \in Nat
  BY <1>1 DEF Formed
<1>4. Len(L.control_stack) = Len(v.labels)
  <2>1. Len(L.control_stack) + Len(tracking.blocks) = Len(v.labels)
    BY <1>1 DEF LabelsMatch
  <2>2. Len(tracking.blocks) = 0
    OBVIOUS
  <2> QED
    BY <1>3, <2>1, <2>2
<1>5. L.control_stack # <<>> /\ Len(L.control_stack) \in 1 .. Len(L.control_stack)
  BY <1>2, <1>3, <1>4
<1>6. /\ curr_block(L).recorded_height = Innermost(v).height
      /\ curr_block(L).params = Innermost(v).params
      /\ curr_block(L).results = Innermost(v).results
      /\ Innermost(v).unreachable = tracking.unreachable
  BY <1>1, <1>4, <1>5 DEF LabelsMatch, curr_block, Innermost
<1>7. PICK h : h = Len(L.sim.stack)
  OBVIOUS
<1>8. Good(L, h)
  BY <1>1, <1>7, InvIsSound DEF Good
<1>9. h \in Nat
  BY <1>1, <1>7, SimStackFields DEF StackInv
<1>10. h = ExpectedHeight(L, v, tracking)
  BY <1>5, <1>7 DEF LoweringInv, Height
<1> QED
  BY <1>1, <1>2, <1>4, <1>5, <1>6, <1>8, <1>9, <1>10

(* In live code that is the validator's height.                             *)
LEMMA LiveState ==
  ASSUME LoweringInv, status = "lowering", valid.labels # <<>>, ~tracking.unreachable,
         NEW L, L = lowering, NEW v, v = valid
  PROVE  /\ v.height \in Nat
         /\ Good(L, v.height) /\ StackInv(L.sim)
         /\ Len(L.control_stack) \in Nat \ {0} /\ L.control_stack # <<>>
         /\ Len(L.control_stack) = Len(v.labels)
         /\ ReaderInv(v)
         /\ curr_block(L).recorded_height = Innermost(v).height
         /\ curr_block(L).params = Innermost(v).params
         /\ curr_block(L).results = Innermost(v).results
         /\ tracking \in Tracking /\ LabelsMatch(L.control_stack, v, tracking)
         /\ ~Innermost(v).unreachable
<1>1. tracking.blocks = <<>>
  BY DEF LoweringInv, LabelsMatch
<1>2. ExpectedHeight(L, v, tracking) = v.height
  BY DEF ExpectedHeight
<1> QED
  BY <1>1, <1>2, OpenState

(* A rule that leaves a sound stack, of the height and the labels that are  *)
(* expected next, keeps the invariant whether it failed or not.             *)
LEMMA LoweredInv ==
  ASSUME LoweringInv, status = "lowering", alphabet' = alphabet,
         NEW M, lowering' = M, status' = IF M.sim.failed THEN "failed" ELSE status,
         NEW w, valid' = w, ReaderInv(w), NEW u \in Tracking, tracking' = u,
         NEW h, Good(M, h), LabelsMatch(M.control_stack, w, u),
         M.control_stack # <<>> => h = ExpectedHeight(M, w, u)
  PROVE  LoweringInv'
<1>1. alphabet' \in DOMAIN Alphabets /\ status' \in {"lowering", "failed", "lowered"}
  BY DEF LoweringInv
<1>2. status' # "failed" => ~M.sim.failed /\ StackInv(M.sim) /\ status' = "lowering"
  BY DEF Good, Sound
<1>3. Formed(M) /\ Height(M.sim) = h
  BY DEF Good, Sound, Height
<1>4. /\ Formed(lowering') /\ StackInv(lowering'.sim) = StackInv(M.sim)
      /\ lowering'.sim.failed = M.sim.failed
      /\ Height(lowering'.sim) = h
      /\ LabelsMatch(lowering'.control_stack, valid', tracking')
      /\ lowering'.control_stack # <<>> => h = ExpectedHeight(lowering', valid', tracking')
  BY <1>3
<1> QED
  BY <1>1, <1>2, <1>4 DEF LoweringInv

(* An operator that only pops and pushes.                                   *)
LEMMA EffectStep ==
  ASSUME LoweringInv, status = "lowering", valid.labels # <<>>, alphabet' = alphabet,
         ~tracking.unreachable, tracking' = tracking,
         NEW pops \in Nat, NEW pushes \in Nat, CanPop(valid, pops),
         valid' = Effect(valid, pops, pushes),
         NEW M, lowering' = M, status' = IF M.sim.failed THEN "failed" ELSE status,
         Good(M, valid.height - pops + pushes),
         SameLabels(lowering.control_stack, M.control_stack)
  PROVE  LoweringInv'
<1>1. PICK v : v = valid
  OBVIOUS
<1>2. PICK L : L = lowering
  OBVIOUS
<1>3. PICK t : t = tracking
  OBVIOUS
<1>4. PICK w : w = Effect(v, pops, pushes)
  OBVIOUS
<1>5. /\ Len(L.control_stack) \in Nat \ {0} /\ L.control_stack # <<>>
      /\ ReaderInv(v) /\ ~Innermost(v).unreachable
      /\ t \in Tracking /\ LabelsMatch(L.control_stack, v, t)
  BY <1>1, <1>2, <1>3, LiveState
<1>6. ReaderInv(w)
  BY <1>1, <1>4, <1>5, EffectInv
<1>7. w.labels = v.labels /\ w.height = v.height - pops + pushes
  BY <1>1, <1>4, <1>5, EffectShape
<1>8. M.control_stack # <<>> /\ Formed(M)
  <2>1. Len(M.control_stack) # 0
    BY <1>2, <1>5 DEF SameLabels
  <2> QED
    BY <2>1 DEF Good
<1>9. LabelsMatch(M.control_stack, w, t)
  BY <1>2, <1>5, <1>7, <1>8, LabelsKeptMatch
<1>10. ExpectedHeight(M, w, t) = w.height
  BY <1>3 DEF ExpectedHeight
<1>11. Good(M, w.height) /\ valid' = w /\ tracking' = t
  BY <1>1, <1>3, <1>4, <1>7
<1> QED
  BY <1>5, <1>6, <1>9, <1>10, <1>11, LoweredInv

LEMMA SameItself ==
  ASSUME NEW cs
  PROVE  SameLabels(cs, cs)
BY DEF SameLabels

(* What an operator may pop, when code is live, is on the lowering's stack  *)
(* above the innermost label.                                               *)
LEMMA PopsThere ==
  ASSUME LoweringInv, status = "lowering", valid.labels # <<>>, ~tracking.unreachable,
         NEW n \in Nat, CanPop(valid, n)
  PROVE  /\ valid.height \in Nat /\ n <= valid.height
         /\ curr_block(lowering).recorded_height \in Nat
         /\ curr_block(lowering).recorded_height + n <= valid.height
<1>1. /\ ReaderInv(valid) /\ ~Innermost(valid).unreachable
      /\ curr_block(lowering).recorded_height = Innermost(valid).height
  BY LiveState
<1>2. /\ Innermost(valid).height \in Nat /\ valid.height \in Nat
      /\ valid.height - n >= Innermost(valid).height
  BY <1>1, InnermostIsLabel DEF CanPop
<1> QED
  BY <1>1, <1>2

LEMMA PlainlyKeeps ==
  ASSUME LoweringInv, NEW o \in Alphabets[alphabet].ops, Plainly(o)
  PROVE  LoweringInv'
<1>1. /\ IsOperator(o) /\ NamesItsOwn(o) /\ Plain(o)
      /\ status = "lowering" /\ valid.labels # <<>>
      /\ Allowed(valid, o) /\ valid' = Validated(valid, o) /\ alphabet' = alphabet
  BY ReadGives DEF Plainly
<1>2. ~tracking.unreachable /\ tracking' = tracking
  BY <1>1, OperatorCases DEF Plainly, Lowers, Reachable, Resumes
<1>3. PICK M : M = LowerPlain(lowering, o)
  OBVIOUS
<1>4. PICK p \in Nat, q \in Nat : p = Arity[o.op][1] /\ q = Arity[o.op][2]
  BY <1>1, ArityShape DEF Plain
<1>5. CanPop(valid, p) /\ valid' = Effect(valid, p, q)
  BY <1>1, <1>4, AllowedCases, ValidatedCases
<1>6. valid.height \in Nat /\ p <= valid.height
  BY <1>1, <1>2, <1>5, PopsThere
<1>7. Good(lowering, valid.height) /\ StackInv(lowering.sim)
  BY <1>1, <1>2, LiveState
<1>8. Good(M, valid.height - p + q) /\ M.control_stack = lowering.control_stack
  BY <1>1, <1>3, <1>4, <1>6, <1>7, PlainGood
<1>9. lowering' = M /\ status' = IF M.sim.failed THEN "failed" ELSE status
  BY <1>3 DEF Plainly, Lowers
<1> QED
  BY <1>1, <1>2, <1>5, <1>8, <1>9, SameItself, EffectStep

LEMMA CallKeeps ==
  ASSUME LoweringInv, NEW o \in Alphabets[alphabet].ops, Call(o)
  PROVE  LoweringInv'
<1>1. /\ IsOperator(o) /\ o.op = "Call"
      /\ status = "lowering" /\ valid.labels # <<>>
      /\ Allowed(valid, o) /\ valid' = Validated(valid, o) /\ alphabet' = alphabet
  BY ReadGives DEF Call
<1>2. ~tracking.unreachable /\ tracking' = tracking
  BY <1>1 DEF Call, Lowers, Reachable, Resumes
<1>3. PICK M : M = LowerCall(lowering, o.ty)
  OBVIOUS
<1>4. PICK p \in Nat, q \in Nat : p = o.ty[1] /\ q = o.ty[2]
  BY <1>1, OperatorCases
<1>5. CanPop(valid, p) /\ valid' = Effect(valid, p, q)
  <2>1. CallPops(o) = p + 0 /\ p + 0 = p /\ IsCall(o)
    BY <1>1, <1>4 DEF CallPops, IsCall
  <2> QED
    BY <1>1, <1>4, <2>1, AllowedCases, ValidatedCases
<1>6. valid.height \in Nat /\ p \in 0 .. valid.height
  BY <1>1, <1>2, <1>5, PopsThere
<1>7. Good(lowering, valid.height)
  BY <1>1, <1>2, LiveState
<1>8. Good(M, valid.height - p + q) /\ M.control_stack = lowering.control_stack
  BY <1>3, <1>4, <1>6, <1>7, CallGood
<1>9. lowering' = M /\ status' = IF M.sim.failed THEN "failed" ELSE status
  BY <1>3 DEF Call, Lowers
<1> QED
  BY <1>1, <1>2, <1>5, <1>8, <1>9, SameItself, EffectStep

LEMMA CallIndirectKeeps ==
  ASSUME LoweringInv, NEW o \in Alphabets[alphabet].ops, CallIndirect(o)
  PROVE  LoweringInv'
<1>1. /\ IsOperator(o) /\ o.op = "CallIndirect"
      /\ status = "lowering" /\ valid.labels # <<>>
      /\ Allowed(valid, o) /\ valid' = Validated(valid, o) /\ alphabet' = alphabet
  BY ReadGives DEF CallIndirect
<1>2. ~tracking.unreachable /\ tracking' = tracking
  BY <1>1 DEF CallIndirect, Lowers, Reachable, Resumes
<1>3. PICK M : M = LowerCallIndirect(lowering, o.ty)
  OBVIOUS
<1>4. PICK p \in Nat, q \in Nat : p = o.ty[1] + 1 /\ q = o.ty[2]
  BY <1>1, OperatorCases
<1>5. CanPop(valid, p) /\ valid' = Effect(valid, p, q)
  <2>1. CallPops(o) = p /\ IsCall(o)
    BY <1>1, <1>4 DEF CallPops, IsCall
  <2> QED
    BY <1>1, <1>4, <2>1, AllowedCases, ValidatedCases
<1>6. valid.height \in Nat /\ p <= valid.height
  BY <1>1, <1>2, <1>5, PopsThere
<1>7. Good(lowering, valid.height) /\ o.ty[1] \in Nat
  BY <1>1, <1>2, LiveState, OperatorCases
<1>8. Good(M, valid.height - p + q) /\ M.control_stack = lowering.control_stack
  BY <1>3, <1>4, <1>6, <1>7, CallIndirectGood
<1>9. lowering' = M /\ status' = IF M.sim.failed THEN "failed" ELSE status
  BY <1>3 DEF CallIndirect, Lowers
<1> QED
  BY <1>1, <1>2, <1>5, <1>8, <1>9, SameItself, EffectStep

LEMMA BrIfKeeps ==
  ASSUME LoweringInv, NEW o \in Alphabets[alphabet].ops, BrIf(o)
  PROVE  LoweringInv'
<1>1. /\ IsOperator(o) /\ o.op = "BrIf"
      /\ status = "lowering" /\ valid.labels # <<>>
      /\ Allowed(valid, o) /\ valid' = Validated(valid, o) /\ alphabet' = alphabet
  BY ReadGives DEF BrIf
<1>2. ~tracking.unreachable /\ tracking' = tracking
  BY <1>1 DEF BrIf, Lowers, Reachable, Resumes
<1>3. PICK M : M = LowerBrIf(lowering, o.x)
  OBVIOUS
<1>4. PICK n \in {0, 1, 2} : o.x < Len(valid.labels) /\ CanPop(valid, n + 1)
  BY <1>1, AllowedCases DEF Depths
<1>5. n + 1 \in Nat
  OBVIOUS
<1>6. valid.height \in Nat /\ n + 1 <= valid.height
  BY <1>1, <1>2, <1>4, <1>5, PopsThere
<1>7. /\ Good(lowering, valid.height) /\ ReaderInv(valid) /\ ~Innermost(valid).unreachable
      /\ Len(lowering.control_stack) = Len(valid.labels)
      /\ Len(lowering.control_stack) \in Nat
  BY <1>1, <1>2, LiveState
<1>8. CanPop(valid, 1) /\ valid' = Effect(valid, 1, 0)
  <2>1. valid' = Effect(valid, 1, 0)
    BY <1>1, ValidatedCases
  <2>2. Innermost(valid).height \in Nat
    BY <1>1, <1>7, InnermostIsLabel
  <2>3. valid.height - 1 >= Innermost(valid).height
    BY <1>4, <1>5, <1>6, <1>7, <2>2 DEF CanPop
  <2> QED
    BY <2>1, <2>3 DEF CanPop
<1>9. block_at(lowering, o.x) \in 1 .. Len(lowering.control_stack)
  <2>1. o.x \in Nat
    BY <1>1 DEF IsOperator
  <2> QED
    BY <1>4, <1>7, <2>1 DEF block_at
<1>10. PICK d \in Nat : d = valid.height - 1
  BY <1>5, <1>6
<1>11. Good(M, d) /\ SameLabels(lowering.control_stack, M.control_stack)
  <2>1. valid.height > 0
    BY <1>5, <1>6
  <2> QED
    BY <1>3, <1>6, <1>7, <1>9, <1>10, <2>1, BrIfGood
<1>12. Good(M, valid.height - 1 + 0)
  BY <1>6, <1>10, <1>11
<1>13. lowering' = M /\ status' = IF M.sim.failed THEN "failed" ELSE status
  BY <1>3 DEF BrIf, Lowers
<1> QED
  BY <1>1, <1>2, <1>8, <1>11, <1>12, <1>13, EffectStep

(* The validator after it.                                                  *)
WithLabel(e, p, l) == [height |-> e.height + p, labels |-> Append(e.labels, l)]

Widened(v, w, l) ==
  /\ Len(w.labels) = Len(v.labels) + 1
  /\ w.labels[Len(v.labels) + 1] = l
  /\ \A k \in 1 .. Len(v.labels) : w.labels[k] = v.labels[k]

(* The validator v reads an opener of p params and r results and becomes w, *)
(* of height n; the new label l begins at h.                                *)
OpensInto(v, w, pops, kind, p, r, e, l, h, n) ==
  /\ ReaderInv(v) /\ v.labels # <<>> /\ Innermost(v).unreachable = FALSE
  /\ pops \in Nat /\ p \in Nat /\ r \in Nat /\ kind \in LabelKinds
  /\ CanPop(v, pops) /\ e = Effect(v, pops, 0)
  /\ l = Label(kind, e.height, p, r) /\ w = WithLabel(e, p, l)
  /\ h = v.height - pops /\ n = h + p

LEMMA OpenedReading ==
  ASSUME NEW v, NEW w, NEW pops \in Nat, NEW kind, NEW p \in Nat, NEW r \in Nat, NEW e, NEW l,
         NEW h \in Nat, NEW n \in Nat, OpensInto(v, w, pops, kind, p, r, e, l, h, n)
  PROVE  /\ ReaderInv(w) /\ w.height = n
         /\ l.height = h /\ l.params = p /\ l.results = r
         /\ l.unreachable = FALSE /\ Widened(v, w, l)
<1>0. /\ ReaderInv(v) /\ v.labels # <<>> /\ ~Innermost(v).unreachable
      /\ pops \in Nat /\ p \in Nat /\ r \in Nat /\ kind \in LabelKinds
      /\ CanPop(v, pops) /\ e = Effect(v, pops, 0)
      /\ l = Label(kind, e.height, p, r) /\ w = WithLabel(e, p, l)
      /\ h = v.height - pops /\ n = h + p
  BY DEF OpensInto
<1>1. 0 \in Nat
  OBVIOUS
<1>2. ReaderInv(e)
  BY <1>0, <1>1, EffectInv
<1>3. PICK z \in Nat : z = 0 /\ e.labels = v.labels /\ e.height = v.height - pops + z
  <2>1. /\ ReaderInv(v) /\ v.labels # <<>> /\ ~Innermost(v).unreachable
        /\ CanPop(v, pops) /\ e = Effect(v, pops, 0)
    BY <1>0
  <2>2. PICK z \in Nat : z = 0
    OBVIOUS
  <2>3. e = Effect(v, pops, z)
    BY <2>1, <2>2
  <2>4. e.labels = v.labels /\ e.height = v.height - pops + z
    BY ONLY <2>1, <2>3, EffectShape
  <2> QED
    BY <2>2, <2>4
<1>4. v.height \in Nat /\ e.height \in Nat
  BY <1>0, <1>2 DEF ReaderInv, Validator
<1>5. e.height = h
  BY <1>0, <1>3, <1>4
<1>6. /\ l \in ValidatorLabel /\ l.height = e.height /\ l.params = p /\ l.results = r
      /\ l.unreachable = FALSE
  <2>1. PICK d \in Nat : d = e.height
    BY <1>4
  <2>2. l = Label(kind, d, p, r)
    BY <1>0, <2>1
  <2> QED
    BY <1>0, <2>1, <2>2 DEF Label, ValidatorLabel
<1>7. e.labels # <<>>
  BY <1>0, <1>3
<1>8. /\ ReaderInv(w)
      /\ Len(w.labels) = Len(e.labels) + 1
      /\ w.labels[Len(e.labels) + 1] = l
      /\ \A k \in 1 .. Len(e.labels) : w.labels[k] = e.labels[k]
  <2>1. w = [height |-> e.height + p, labels |-> Append(e.labels, l)]
    BY <1>0 DEF WithLabel
  <2>2. l \in ValidatorLabel /\ l.height = e.height
    BY <1>6
  <2> QED
    BY <1>2, <1>7, <2>1, <2>2, OpenedInv
<1>9. w.height = e.height + p
  BY <1>0 DEF WithLabel
<1>10. Widened(v, w, l)
  BY <1>3, <1>8 DEF Widened
<1> QED
  BY <1>0, <1>5, <1>6, <1>8, <1>9, <1>10

(* An operator that opens a block.                                          *)
LEMMA OpenStep ==
  ASSUME LoweringInv, status = "lowering", valid.labels # <<>>, alphabet' = alphabet,
         ~tracking.unreachable, tracking' = tracking,
         NEW pops \in Nat, CanPop(valid, pops), NEW ty, NEW p \in Nat, NEW r \in Nat,
         p = ty[1], r = ty[2], NEW kind \in LabelKinds,
         NEW e, e = Effect(valid, pops, 0), NEW l, l = Label(kind, e.height, p, r),
         valid' = WithLabel(e, p, l),
         NEW M, lowering' = M, status' = IF M.sim.failed THEN "failed" ELSE status,
         NEW h \in Nat, h = valid.height - pops, Good(M, h + p),
         Opened(lowering.control_stack, M.control_stack, h, ty)
  PROVE  LoweringInv'
<1>1. PICK v : v = valid
  OBVIOUS
<1>2. PICK L : L = lowering
  OBVIOUS
<1>3. PICK t : t = tracking
  OBVIOUS
<1>4. /\ Len(L.control_stack) \in Nat \ {0} /\ L.control_stack # <<>>
      /\ ReaderInv(v) /\ ~Innermost(v).unreachable
      /\ t \in Tracking /\ LabelsMatch(L.control_stack, v, t)
  BY <1>1, <1>2, <1>3, LiveState
<1>0. PICK n \in Nat : n = h + p
  OBVIOUS
<1>5. PICK w : w = WithLabel(e, p, l)
  OBVIOUS
<1>6. /\ v.labels # <<>> /\ CanPop(v, pops) /\ e = Effect(v, pops, 0)
      /\ h = v.height - pops /\ ReaderInv(v) /\ ~Innermost(v).unreachable
  BY <1>1, <1>4
<1>6a. /\ ReaderInv(w) /\ w.height = n
       /\ l.height = h /\ l.params = p /\ l.results = r
       /\ l.unreachable = FALSE /\ Widened(v, w, l)
  <2>1. Innermost(v).unreachable = FALSE
    BY <1>6, InnermostIsLabel
  <2>2. OpensInto(v, w, pops, kind, p, r, e, l, h, n)
    BY <1>0, <1>5, <1>6, <2>1 DEF OpensInto
  <2> QED
    BY ONLY <2>2, OpenedReading
<1>7. /\ ReaderInv(w) /\ w.height = n
      /\ l.height = h /\ l.params = p /\ l.results = r /\ l.unreachable = FALSE
      /\ Len(w.labels) = Len(v.labels) + 1
      /\ w.labels[Len(v.labels) + 1] = l
      /\ \A k \in 1 .. Len(v.labels) : w.labels[k] = v.labels[k]
  BY <1>6, <1>6a DEF Widened
<1>8. Len(M.control_stack) = Len(L.control_stack) + 1
  BY <1>2 DEF Opened
<1>9. M.control_stack # <<>> /\ Len(M.control_stack) \in Nat
  <2>1. Len(M.control_stack) # 0
    BY <1>4, <1>8
  <2> QED
    BY <1>4, <1>8, <2>1
<1>10. LabelsMatch(M.control_stack, w, t)
  <2>1. PICK cs, ds : cs = L.control_stack /\ ds = M.control_stack
    OBVIOUS
  <2>2. /\ Opened(cs, ds, l.height, ty)
        /\ l.params = ty[1] /\ l.results = ty[2] /\ ~t.unreachable
        /\ Len(cs) \in Nat \ {0} /\ LabelsMatch(cs, v, t)
        /\ Len(ds) \in Nat /\ ds # <<>> /\ t \in Tracking /\ l.unreachable = FALSE
    BY <1>2, <1>3, <1>4, <1>7, <1>9, <2>1
  <2>3. /\ Len(w.labels) = Len(v.labels) + 1
        /\ w.labels[Len(v.labels) + 1] = l
        /\ \A k \in 1 .. Len(v.labels) : w.labels[k] = v.labels[k]
    BY <1>7
  <2>4. LabelsMatch(ds, w, t)
    BY ONLY <2>2, <2>3, LabelsOpenedMatch
  <2> QED
    BY <2>1, <2>4
<1>11. ExpectedHeight(M, w, t) = n /\ Good(M, n)
  BY <1>0, <1>3, <1>7 DEF ExpectedHeight
<1>12. valid' = w /\ tracking' = t
  BY <1>3, <1>5
<1> QED
  BY <1>4, <1>7, <1>10, <1>11, <1>12, LoweredInv

LEMMA BlockKeeps ==
  ASSUME LoweringInv, NEW o \in Alphabets[alphabet].ops, Block(o)
  PROVE  LoweringInv'
<1>1. /\ IsOperator(o) /\ o.op = "Block"
      /\ status = "lowering" /\ valid.labels # <<>>
      /\ Allowed(valid, o) /\ valid' = Validated(valid, o) /\ alphabet' = alphabet
  BY ReadGives DEF Block
<1>2. ~tracking.unreachable /\ tracking' = tracking
  BY <1>1 DEF Block, Lowers, Reachable, Resumes
<1>3. PICK M : M = LowerBlock(lowering, o)
  OBVIOUS
<1>4. PICK ty : ty = o.ty
  OBVIOUS
<1>5. PICK p \in Nat, r \in Nat : p = ty[1] /\ r = ty[2]
  BY <1>1, <1>4, OperatorCases
<1>6. CanPop(valid, p)
  BY <1>1, <1>4, <1>5, AllowedCases
<1>7. PICK e : e = Effect(valid, p, 0)
  OBVIOUS
<1>7a. PICK l : l = Label("Block", e.height, p, r)
  OBVIOUS
<1>8. valid' = WithLabel(e, p, l)
  BY <1>1, <1>4, <1>5, <1>7, <1>7a, ValidatedCases DEF WithLabel
<1>9. valid.height \in Nat /\ p <= valid.height
  BY <1>1, <1>2, <1>6, PopsThere
<1>10. PICK h \in Nat : h = valid.height - p
  BY <1>9
<1>11. Good(lowering, valid.height)
  BY <1>1, <1>2, LiveState
<1>12. /\ Good(M, valid.height)
       /\ Opened(lowering.control_stack, M.control_stack, valid.height - p, ty)
  BY <1>3, <1>4, <1>5, <1>9, <1>11, BlockGood
<1>13. Good(M, h + p) /\ Opened(lowering.control_stack, M.control_stack, h, ty)
  <2>1. h + p = valid.height
    BY <1>5, <1>9, <1>10
  <2> QED
    BY <1>10, <1>12, <2>1
<1>14. lowering' = M /\ status' = IF M.sim.failed THEN "failed" ELSE status
  BY <1>3 DEF Block, Lowers
<1>15. "Block" \in LabelKinds
  BY DEF LabelKinds
<1> QED
  BY <1>1, <1>2, <1>5, <1>6, <1>7, <1>7a, <1>8, <1>10, <1>13, <1>14, <1>15, OpenStep

LEMMA LoopKeeps ==
  ASSUME LoweringInv, NEW o \in Alphabets[alphabet].ops, Loop(o)
  PROVE  LoweringInv'
<1>1. /\ IsOperator(o) /\ o.op = "Loop"
      /\ status = "lowering" /\ valid.labels # <<>>
      /\ Allowed(valid, o) /\ valid' = Validated(valid, o) /\ alphabet' = alphabet
  BY ReadGives DEF Loop
<1>2. ~tracking.unreachable /\ tracking' = tracking
  BY <1>1 DEF Loop, Lowers, Reachable, Resumes
<1>3. PICK M : M = LowerLoop(lowering, o)
  OBVIOUS
<1>4. PICK ty : ty = o.ty
  OBVIOUS
<1>5. PICK p \in Nat, r \in Nat : p = ty[1] /\ r = ty[2]
  BY <1>1, <1>4, OperatorCases
<1>6. CanPop(valid, p)
  BY <1>1, <1>4, <1>5, AllowedCases
<1>7. PICK e : e = Effect(valid, p, 0)
  OBVIOUS
<1>7a. PICK l : l = Label("Loop", e.height, p, r)
  OBVIOUS
<1>8. valid' = WithLabel(e, p, l)
  BY <1>1, <1>4, <1>5, <1>7, <1>7a, ValidatedCases DEF WithLabel
<1>9. valid.height \in Nat /\ p <= valid.height
  BY <1>1, <1>2, <1>6, PopsThere
<1>10. PICK h \in Nat : h = valid.height - p
  BY <1>9
<1>11. Good(lowering, valid.height)
  BY <1>1, <1>2, LiveState
<1>12. /\ Good(M, valid.height)
       /\ Opened(lowering.control_stack, M.control_stack, valid.height - p, ty)
  BY <1>3, <1>4, <1>5, <1>9, <1>11, LoopGood
<1>13. Good(M, h + p) /\ Opened(lowering.control_stack, M.control_stack, h, ty)
  <2>1. h + p = valid.height
    BY <1>5, <1>9, <1>10
  <2> QED
    BY <1>10, <1>12, <2>1
<1>14. lowering' = M /\ status' = IF M.sim.failed THEN "failed" ELSE status
  BY <1>3 DEF Loop, Lowers
<1>15. "Loop" \in LabelKinds
  BY DEF LabelKinds
<1> QED
  BY <1>1, <1>2, <1>5, <1>6, <1>7, <1>7a, <1>8, <1>10, <1>13, <1>14, <1>15, OpenStep

LEMMA IfKeeps ==
  ASSUME LoweringInv, NEW o \in Alphabets[alphabet].ops, If(o)
  PROVE  LoweringInv'
<1>1. /\ IsOperator(o) /\ o.op = "If"
      /\ status = "lowering" /\ valid.labels # <<>>
      /\ Allowed(valid, o) /\ valid' = Validated(valid, o) /\ alphabet' = alphabet
  BY ReadGives DEF If
<1>2. ~tracking.unreachable /\ tracking' = tracking
  BY <1>1 DEF If, Lowers, Reachable, Resumes
<1>3. PICK M : M = LowerIf(lowering, o)
  OBVIOUS
<1>4. PICK ty : ty = o.ty
  OBVIOUS
<1>5. PICK p \in Nat, n \in Nat, r \in Nat : p = n + 1 /\ n = ty[1] /\ r = ty[2]
  <2>1. ty[1] \in Nat /\ ty[2] \in Nat
    BY <1>1, <1>4, OperatorCases
  <2>2. PICK n \in Nat : n = ty[1]
    BY <2>1
  <2>3. n + 1 \in Nat
    OBVIOUS
  <2> QED
    BY <2>1, <2>2, <2>3
<1>6. CanPop(valid, p)
  BY <1>1, <1>4, <1>5, AllowedCases
<1>7. PICK e : e = Effect(valid, p, 0)
  OBVIOUS
<1>7a. PICK l : l = Label("If", e.height, n, r)
  OBVIOUS
<1>8. valid' = WithLabel(e, n, l)
  BY ZenonT(30), <1>1, <1>4, <1>5, <1>7, <1>7a, ValidatedCases DEF WithLabel
<1>9. valid.height \in Nat /\ p <= valid.height
  BY <1>1, <1>2, <1>6, PopsThere
<1>10. PICK h \in Nat : h = valid.height - p
  BY <1>9
<1>11. Good(lowering, valid.height)
  BY <1>1, <1>2, LiveState
<1>12. /\ Good(M, valid.height - 1)
       /\ Opened(lowering.control_stack, M.control_stack, valid.height - p, ty)
  BY <1>3, <1>4, <1>5, <1>9, <1>11, IfGood
<1>13. Good(M, h + n) /\ Opened(lowering.control_stack, M.control_stack, h, ty)
  <2>1. h + n = valid.height - 1
    BY <1>5, <1>9, <1>10
  <2> QED
    BY <1>10, <1>12, <2>1
<1>14. lowering' = M /\ status' = IF M.sim.failed THEN "failed" ELSE status
  BY <1>3 DEF If, Lowers
<1>15. "If" \in LabelKinds
  BY DEF LabelKinds
<1> QED
  BY <1>1, <1>2, <1>5, <1>6, <1>7, <1>7a, <1>8, <1>10, <1>13, <1>14, <1>15, OpenStep

(* An operator that ends the code of its block.                             *)
LEMMA DivergeStep ==
  ASSUME LoweringInv, status = "lowering", valid.labels # <<>>, alphabet' = alphabet,
         ~tracking.unreachable, SetUnreachable, valid' = MarkUnreachable(valid),
         NEW M, lowering' = M, status' = IF M.sim.failed THEN "failed" ELSE status,
         Good(M, curr_block(lowering).recorded_height + curr_block(lowering).results),
         SameLabels(lowering.control_stack, M.control_stack)
  PROVE  LoweringInv'
<1>1. PICK v : v = valid
  OBVIOUS
<1>2. PICK L : L = lowering
  OBVIOUS
<1>3. PICK t : t = tracking
  OBVIOUS
<1>4. /\ Len(L.control_stack) \in Nat \ {0} /\ L.control_stack # <<>>
      /\ ReaderInv(v) /\ Formed(L) /\ v.labels # <<>>
      /\ t \in Tracking /\ LabelsMatch(L.control_stack, v, t) /\ ~t.unreachable
  BY <1>1, <1>2, <1>3, LiveState DEF Good
<1>5. PICK w : w = MarkUnreachable(v)
  OBVIOUS
<1>6. PICK u : u = [t EXCEPT !.unreachable = TRUE]
  OBVIOUS
<1>7. u \in Tracking /\ u.unreachable = TRUE
  BY <1>4, <1>6 DEF Tracking
<1>8. ReaderInv(w)
  BY <1>4, <1>5, MarkedShape
<1>9. SameLabels(L.control_stack, M.control_stack) /\ Formed(M)
  BY <1>2 DEF Good
<1>10. /\ M.control_stack # <<>>
       /\ curr_block(M).recorded_height = curr_block(L).recorded_height
       /\ curr_block(M).results = curr_block(L).results
  BY <1>4, <1>9, SameCurrent
<1>11. LabelsMatch(M.control_stack, w, u)
  <2>1. Len(M.control_stack) \in Nat
    BY <1>4, <1>9 DEF SameLabels
  <2> QED
    BY <1>4, <1>5, <1>6, <1>9, <1>10, <2>1, LabelsMarkedMatch
<1>12. PICK h : h = curr_block(L).recorded_height + curr_block(L).results
  OBVIOUS
<1>13. Good(M, h) /\ h = ExpectedHeight(M, w, u)
  BY <1>2, <1>7, <1>10, <1>12 DEF ExpectedHeight
<1>14. valid' = w /\ tracking' = u
  BY <1>1, <1>3, <1>5, <1>6 DEF SetUnreachable
<1> QED
  BY <1>7, <1>8, <1>11, <1>13, <1>14, LoweredInv

LEMMA TrapKeeps ==
  ASSUME LoweringInv, NEW o \in Alphabets[alphabet].ops, Trap(o)
  PROVE  LoweringInv'
<1>1. /\ IsOperator(o) /\ o.op = "Unreachable"
      /\ status = "lowering" /\ valid.labels # <<>>
      /\ valid' = Validated(valid, o) /\ alphabet' = alphabet
  BY ReadGives DEF Trap
<1>2. ~tracking.unreachable /\ SetUnreachable
  BY <1>1 DEF Trap, Lowers, Reachable, Resumes
<1>3. PICK M : M = LowerUnreachable(lowering)
  OBVIOUS
<1>4. valid' = MarkUnreachable(valid)
  BY <1>1, ValidatedCases
<1>5. /\ valid.height \in Nat /\ Good(lowering, valid.height)
      /\ lowering.control_stack # <<>> /\ ReaderInv(valid)
      /\ curr_block(lowering).recorded_height = Innermost(valid).height
  BY <1>1, <1>2, LiveState
<1>6. curr_block(lowering).recorded_height <= valid.height
  BY <1>1, <1>5, InnermostIsLabel
<1>7. /\ Good(M, curr_block(lowering).recorded_height + curr_block(lowering).results)
      /\ M.control_stack = lowering.control_stack
  BY <1>3, <1>5, <1>6, UnreachableGood
<1>8. lowering' = M /\ status' = IF M.sim.failed THEN "failed" ELSE status
  BY <1>3 DEF Trap, Lowers
<1> QED
  BY <1>1, <1>2, <1>4, <1>7, <1>8, SameItself, DivergeStep

(* Br and Return, to the k-th label of the lowering.                        *)
LEMMA BranchStep ==
  ASSUME LoweringInv, status = "lowering", valid.labels # <<>>, alphabet' = alphabet,
         ~tracking.unreachable, SetUnreachable, valid' = MarkUnreachable(valid),
         NEW name, NEW k, k \in 1 .. Len(lowering.control_stack),
         NEW M, M = LowerBr(lowering, name, k),
         lowering' = M, status' = IF M.sim.failed THEN "failed" ELSE status
  PROVE  LoweringInv'
<1>1. /\ valid.height \in Nat /\ Good(lowering, valid.height)
      /\ lowering.control_stack # <<>> /\ ReaderInv(valid)
      /\ curr_block(lowering).recorded_height = Innermost(valid).height
  BY LiveState
<1>2. curr_block(lowering).recorded_height <= valid.height
  BY <1>1, InnermostIsLabel
<1>3. /\ Good(M, curr_block(lowering).recorded_height + curr_block(lowering).results)
      /\ SameLabels(lowering.control_stack, M.control_stack)
  BY <1>1, <1>2, BrGood
<1> QED
  BY <1>3, DivergeStep

LEMMA BrKeeps ==
  ASSUME LoweringInv, NEW o \in Alphabets[alphabet].ops, Br(o)
  PROVE  LoweringInv'
<1>1. /\ IsOperator(o) /\ o.op = "Br"
      /\ status = "lowering" /\ valid.labels # <<>> /\ Allowed(valid, o)
      /\ valid' = Validated(valid, o) /\ alphabet' = alphabet
  BY ReadGives DEF Br
<1>2. ~tracking.unreachable /\ SetUnreachable
  BY <1>1 DEF Br, Lowers, Reachable, Resumes
<1>3. PICK k : k = block_at(lowering, o.x)
  OBVIOUS
<1>4. PICK M : M = LowerBr(lowering, "Br", k)
  OBVIOUS
<1>5. valid' = MarkUnreachable(valid)
  BY <1>1, ValidatedCases
<1>6. k \in 1 .. Len(lowering.control_stack)
  <2>1. o.x \in Nat
    BY <1>1 DEF IsOperator
  <2>2. o.x < Len(valid.labels)
    BY <1>1, AllowedCases DEF Depths
  <2>3. /\ Len(lowering.control_stack) = Len(valid.labels)
        /\ Len(lowering.control_stack) \in Nat
    BY <1>1, <1>2, LiveState
  <2> QED
    BY <1>3, <2>1, <2>2, <2>3 DEF block_at
<1>7. lowering' = M /\ status' = IF M.sim.failed THEN "failed" ELSE status
  BY <1>3, <1>4 DEF Br, Lowers
<1> QED
  BY <1>1, <1>2, <1>4, <1>5, <1>6, <1>7, BranchStep

LEMMA ReturnKeeps ==
  ASSUME LoweringInv, NEW o \in Alphabets[alphabet].ops, Return(o)
  PROVE  LoweringInv'
<1>1. /\ IsOperator(o) /\ o.op = "Return"
      /\ status = "lowering" /\ valid.labels # <<>>
      /\ valid' = Validated(valid, o) /\ alphabet' = alphabet
  BY ReadGives DEF Return
<1>2. ~tracking.unreachable /\ SetUnreachable
  BY <1>1 DEF Return, Lowers, Reachable, Resumes
<1>3. PICK M : M = LowerBr(lowering, "Return", 1)
  OBVIOUS
<1>4. valid' = MarkUnreachable(valid)
  BY <1>1, ValidatedCases
<1>5. 1 \in 1 .. Len(lowering.control_stack)
  <2>1. Len(lowering.control_stack) \in Nat \ {0}
    BY <1>1, <1>2, LiveState
  <2> QED
    BY <2>1
<1>6. lowering' = M /\ status' = IF M.sim.failed THEN "failed" ELSE status
  BY <1>3 DEF Return, Lowers
<1>7. PICK k : k = 1
  OBVIOUS
<1>8. M = LowerBr(lowering, "Return", k) /\ k \in 1 .. Len(lowering.control_stack)
  BY <1>3, <1>5, <1>7
<1> QED
  BY <1>1, <1>2, <1>4, <1>6, <1>8, BranchStep

LEMMA BrTableKeeps ==
  ASSUME LoweringInv, NEW o \in Alphabets[alphabet].ops, BrTable(o)
  PROVE  LoweringInv'
<1>1. /\ IsOperator(o) /\ o.op = "BrTable"
      /\ status = "lowering" /\ valid.labels # <<>> /\ Allowed(valid, o)
      /\ valid' = Validated(valid, o) /\ alphabet' = alphabet
  BY ReadGives DEF BrTable
<1>2. ~tracking.unreachable /\ SetUnreachable
  BY <1>1 DEF BrTable, Lowers, Reachable, Resumes
<1>3. PICK a : a = o.arms
  OBVIOUS
<1>4. PICK M : M = LowerBrTable(lowering, a)
  OBVIOUS
<1>5. valid' = MarkUnreachable(valid)
  BY <1>1, ValidatedCases
<1>6. a \in Seq(Nat) /\ a # <<>>
  BY <1>1, <1>3 DEF IsOperator
<1>7. PICK n \in {0, 1, 2} : \A d \in Depths(o) : d < Len(valid.labels) /\ CanPop(valid, n + 1)
  BY <1>1, AllowedCases
<1>8. \A i \in 1 .. Len(a) : a[i] \in Nat /\ a[i] < Len(valid.labels) /\ CanPop(valid, n + 1)
  <2>1. \A i \in 1 .. Len(a) : a[i] \in Depths(o)
    BY <1>1, <1>3 DEF Depths
  <2> QED
    BY <1>6, <1>7, <2>1
<1>9. CanPop(valid, n + 1) /\ n + 1 \in Nat
  <2>1. 1 \in 1 .. Len(a)
    BY <1>6
  <2> QED
    BY <1>8, <2>1
<1>10. PICK p \in Nat : p = n + 1
  BY <1>9
<1>11. /\ curr_block(lowering).recorded_height \in Nat
       /\ curr_block(lowering).recorded_height + p <= valid.height
       /\ valid.height \in Nat
  BY <1>1, <1>2, <1>9, <1>10, PopsThere
<1>12. curr_block(lowering).recorded_height + 1 <= valid.height
  BY <1>10, <1>11
<1>13. /\ Good(lowering, valid.height) /\ lowering.control_stack # <<>>
       /\ Len(lowering.control_stack) = Len(valid.labels)
       /\ Len(lowering.control_stack) \in Nat
  BY <1>1, <1>2, LiveState
<1>14. \A i \in 1 .. Len(a) : block_at(lowering, a[i]) \in 1 .. Len(lowering.control_stack)
  BY <1>8, <1>13 DEF block_at
<1>15. /\ Good(M, curr_block(lowering).recorded_height + curr_block(lowering).results)
       /\ SameLabels(lowering.control_stack, M.control_stack)
  <2>1. Len(a) \in Nat
    BY <1>6
  <2> QED
    BY <1>4, <1>11, <1>12, <1>13, <1>14, <2>1, BrTableGood
<1>16. lowering' = M /\ status' = IF M.sim.failed THEN "failed" ELSE status
  BY <1>3, <1>4 DEF BrTable, Lowers
<1> QED
  BY <1>1, <1>2, <1>5, <1>15, <1>16, DivergeStep

(* An else or an end that is lowered closes the innermost label of both,    *)
(* and finds its results on the stack: of a live block the validator says   *)
(* so, of one that is over the reset does.                                  *)
LEMMA ClosingState ==
  ASSUME LoweringInv, status = "lowering", valid.labels # <<>>, tracking.blocks = <<>>,
         CanPop(valid, Innermost(valid).results),
         Effect(valid, Innermost(valid).results, 0).height = Innermost(valid).height,
         NEW L, L = lowering, NEW v, v = valid
  PROVE  \E h \in Nat :
           /\ Good(L, h) /\ h = curr_block(L).recorded_height + curr_block(L).results
           /\ Len(L.control_stack) \in Nat \ {0} /\ L.control_stack # <<>>
           /\ ReaderInv(v) /\ v.labels \in Seq(ValidatorLabel)
           /\ curr_block(L).recorded_height = Innermost(v).height
           /\ curr_block(L).params = Innermost(v).params
           /\ curr_block(L).results = Innermost(v).results
           /\ LabelsMatch(L.control_stack, v, tracking)
<1>1. PICK h \in Nat :
        /\ Good(L, h) /\ h = ExpectedHeight(L, v, tracking)
        /\ Len(L.control_stack) \in Nat \ {0} /\ L.control_stack # <<>>
        /\ ReaderInv(v)
        /\ curr_block(L).recorded_height = Innermost(v).height
        /\ curr_block(L).params = Innermost(v).params
        /\ curr_block(L).results = Innermost(v).results
        /\ LabelsMatch(L.control_stack, v, tracking)
        /\ Innermost(v).unreachable = tracking.unreachable
  BY OpenState
<1>2. v.labels \in Seq(ValidatorLabel)
  BY <1>1 DEF ReaderInv, Validator
<1>3. h = curr_block(L).recorded_height + curr_block(L).results
  <2>1. CASE tracking.unreachable
    BY <1>1, <2>1 DEF ExpectedHeight
  <2>2. CASE ~tracking.unreachable
    <3>1. h = v.height
      BY <1>1, <2>2 DEF ExpectedHeight
    <3>2. PICK r \in Nat : r = Innermost(v).results
      BY <1>1, InnermostIsLabel
    <3>3. PICK b \in Nat : b = Innermost(v).height
      BY <1>1, InnermostIsLabel
    <3>4. PICK e : e = Effect(v, r, 0)
      OBVIOUS
    <3>5. /\ v.labels # <<>> /\ CanPop(v, r) /\ ~Innermost(v).unreachable
          /\ e.height = b
      BY <1>1, <2>2, <3>2, <3>3, <3>4
    <3>6. PICK z \in Nat : z = 0
      OBVIOUS
    <3>7. e = Effect(v, r, z)
      BY <3>4, <3>6
    <3>8. e.height = v.height - r + z
      BY ONLY <1>1, <3>5, <3>7, EffectShape
    <3>9. b = h - r + z
      BY <3>1, <3>5, <3>8
    <3>10. h = b + r
      BY <3>6, <3>9
    <3> QED
      BY <1>1, <3>2, <3>3, <3>10
  <2> QED
    BY <2>1, <2>2
<1> QED
  BY <1>1, <1>2, <1>3

LEMMA LiveAgain == LiveTracking \in Tracking /\ LiveTracking.unreachable = FALSE
<1>1. <<>> \in Seq(Openers)
  OBVIOUS
<1> QED
  BY <1>1 DEF LiveTracking, Tracking

LEMMA ElseKeeps ==
  ASSUME LoweringInv, NEW o \in Alphabets[alphabet].ops, Else(o)
  PROVE  LoweringInv'
<1>1. /\ IsOperator(o) /\ o.op = "Else"
      /\ status = "lowering" /\ valid.labels # <<>> /\ Allowed(valid, o)
      /\ valid' = Validated(valid, o) /\ ReaderInv(valid') /\ alphabet' = alphabet
  BY ReadGives DEF Else
<1>2. tracking.blocks = <<>> /\ tracking' = LiveTracking
  <2>1. ~tracking.unreachable => tracking.blocks = <<>>
    BY <1>1 DEF LoweringInv, LabelsMatch
  <2> QED
    BY <2>1 DEF Else, Lowers, Reachable, Resumes
<1>3. PICK v : v = valid
  OBVIOUS
<1>4. PICK L : L = lowering
  OBVIOUS
<1>5. PICK t : t = tracking
  OBVIOUS
<1>6. /\ CanPop(valid, Innermost(valid).results)
      /\ Effect(valid, Innermost(valid).results, 0).height = Innermost(valid).height
  BY <1>1, AllowedCases
<1>7. PICK h \in Nat :
        /\ Good(L, h) /\ h = curr_block(L).recorded_height + curr_block(L).results
        /\ Len(L.control_stack) \in Nat \ {0} /\ L.control_stack # <<>>
        /\ ReaderInv(v) /\ v.labels \in Seq(ValidatorLabel)
        /\ curr_block(L).recorded_height = Innermost(v).height
        /\ curr_block(L).params = Innermost(v).params
        /\ curr_block(L).results = Innermost(v).results
        /\ LabelsMatch(L.control_stack, v, t)
  BY <1>1, <1>2, <1>3, <1>4, <1>5, <1>6, ClosingState
<1>8. PICK M : M = LowerElse(L)
  OBVIOUS
<1>9. /\ Good(M, curr_block(L).recorded_height + curr_block(L).params)
      /\ SameLabels(L.control_stack, M.control_stack)
  BY <1>7, <1>8, ElseGood
<1>10. PICK l : l = Label("Else", Innermost(v).height, Innermost(v).params, Innermost(v).results)
  OBVIOUS
<1>11. PICK w : w = [height |-> Innermost(v).height + Innermost(v).params,
                     labels |-> [v.labels EXCEPT ![Len(v.labels)] = l]]
  OBVIOUS
<1>12. valid' = w
  BY <1>1, <1>3, <1>10, <1>11, ValidatedCases
<1>13. /\ l.unreachable = FALSE /\ l.height = Innermost(v).height
       /\ l.params = Innermost(v).params /\ l.results = Innermost(v).results
  BY <1>10 DEF Label
<1>14. /\ w.height = Innermost(v).height + Innermost(v).params
       /\ Len(w.labels) = Len(v.labels) /\ w.labels[Len(v.labels)] = l
       /\ \A k \in 1 .. Len(v.labels) - 1 : w.labels[k] = v.labels[k]
  <2>1. w.labels = [v.labels EXCEPT ![Len(v.labels)] = l]
    BY <1>11
  <2>2. Len(v.labels) \in Nat \ {0}
    BY <1>1, <1>3, <1>7
  <2>3. w.height = Innermost(v).height + Innermost(v).params
    BY <1>11
  <2> QED
    BY ONLY <1>7, <2>1, <2>2, <2>3
<1>15. M.control_stack # <<>> /\ Len(M.control_stack) \in Nat
  <2>1. Formed(L) /\ Formed(M)
    BY <1>7, <1>9 DEF Good
  <2> QED
    BY <1>7, <1>9, <2>1, SameCurrent DEF SameLabels
<1>16. LabelsMatch(M.control_stack, w, LiveTracking)
  <2>1. PICK cs, ds : cs = L.control_stack /\ ds = M.control_stack
    OBVIOUS
  <2>2. /\ LabelsMatch(cs, v, t) /\ t.blocks = <<>>
        /\ Len(cs) \in Nat \ {0} /\ Len(ds) \in Nat /\ ds # <<>> /\ SameLabels(cs, ds)
    BY <1>2, <1>5, <1>7, <1>9, <1>15, <2>1
  <2>3. /\ l = w.labels[Len(v.labels)]
        /\ l.height = v.labels[Len(v.labels)].height
        /\ l.params = v.labels[Len(v.labels)].params
        /\ l.results = v.labels[Len(v.labels)].results
    BY <1>13, <1>14 DEF Innermost
  <2>4. LabelsMatch(ds, w, LiveTracking)
    BY ONLY ZenonT(30), <1>13, <1>14, <2>2, <2>3, LabelsElseMatch
  <2> QED
    BY <2>1, <2>4
<1>17. PICK g : g = curr_block(L).recorded_height + curr_block(L).params
  OBVIOUS
<1>18. Good(M, g) /\ g = ExpectedHeight(M, w, LiveTracking)
  BY <1>7, <1>9, <1>14, <1>17, LiveAgain DEF ExpectedHeight
<1>19. lowering' = M /\ status' = IF M.sim.failed THEN "failed" ELSE status
  BY <1>4, <1>8 DEF Else, Lowers
<1>20. ReaderInv(w)
  BY <1>1, <1>12
<1> QED
  BY <1>1, <1>2, <1>12, <1>16, <1>18, <1>19, <1>20, LiveAgain, LoweredInv

LEMMA EndKeeps ==
  ASSUME LoweringInv, NEW o \in Alphabets[alphabet].ops, End(o)
  PROVE  LoweringInv'
<1>1. /\ IsOperator(o) /\ o.op = "End"
      /\ status = "lowering" /\ valid.labels # <<>> /\ Allowed(valid, o)
      /\ valid' = Validated(valid, o) /\ ReaderInv(valid') /\ alphabet' = alphabet
  BY ReadGives DEF End
<1>2. tracking.blocks = <<>> /\ tracking' = LiveTracking
  <2>1. ~tracking.unreachable => tracking.blocks = <<>>
    BY <1>1 DEF LoweringInv, LabelsMatch
  <2> QED
    BY <2>1 DEF End, Lowers, Reachable, Resumes
<1>3. PICK v : v = valid
  OBVIOUS
<1>4. PICK L : L = lowering
  OBVIOUS
<1>5. PICK t : t = tracking
  OBVIOUS
<1>6. /\ CanPop(valid, Innermost(valid).results)
      /\ Effect(valid, Innermost(valid).results, 0).height = Innermost(valid).height
  BY <1>1, AllowedCases
<1>7. PICK h \in Nat :
        /\ Good(L, h) /\ h = curr_block(L).recorded_height + curr_block(L).results
        /\ Len(L.control_stack) \in Nat \ {0} /\ L.control_stack # <<>>
        /\ ReaderInv(v) /\ v.labels \in Seq(ValidatorLabel)
        /\ curr_block(L).recorded_height = Innermost(v).height
        /\ curr_block(L).params = Innermost(v).params
        /\ curr_block(L).results = Innermost(v).results
        /\ LabelsMatch(L.control_stack, v, t)
  BY <1>1, <1>2, <1>3, <1>4, <1>5, <1>6, ClosingState
<1>8. PICK M : M = LowerEnd(L)
  OBVIOUS
<1>9. curr_block(L).results <= h
  <2>1. curr_block(L).recorded_height \in Nat /\ curr_block(L).results \in Nat
    BY <1>1, <1>3, <1>7, InnermostIsLabel
  <2> QED
    BY <1>7, <2>1
<1>10. /\ Good(M, h)
       /\ Len(M.control_stack) = Len(L.control_stack) - 1
       /\ \A k \in 1 .. Len(L.control_stack) - 1 : M.control_stack[k] = L.control_stack[k]
  BY <1>7, <1>8, <1>9, EndGood
<1>11. PICK w : w = [height |-> Innermost(v).height + Innermost(v).results,
                     labels |-> SubSeq(v.labels, 1, Len(v.labels) - 1)]
  OBVIOUS
<1>12. valid' = w
  BY <1>1, <1>3, <1>11, ValidatedCases
<1>13. /\ Len(w.labels) = Len(v.labels) - 1
       /\ \A k \in 1 .. Len(v.labels) - 1 : w.labels[k] = v.labels[k]
  BY <1>1, <1>3, <1>7, <1>11, ClosedInv
<1>14. LabelsMatch(M.control_stack, w, LiveTracking)
  <2>1. PICK cs, ds : cs = L.control_stack /\ ds = M.control_stack
    OBVIOUS
  <2>2. /\ LabelsMatch(cs, v, t) /\ t.blocks = <<>> /\ v.labels \in Seq(ValidatorLabel)
        /\ Len(cs) \in Nat \ {0} /\ Len(ds) = Len(cs) - 1
        /\ \A k \in 1 .. Len(cs) - 1 : ds[k] = cs[k]
    BY <1>2, <1>5, <1>7, <1>10, <2>1
  <2>3. ds # <<>> => Len(ds) > 0
    BY <1>10, <2>1 DEF Good, Formed
  <2>4. LabelsMatch(ds, w, LiveTracking)
    BY ONLY <1>13, <2>2, <2>3, LabelsEndMatch
  <2> QED
    BY <2>1, <2>4
<1>15. h = ExpectedHeight(M, w, LiveTracking)
  BY <1>7, <1>11, LiveAgain DEF ExpectedHeight
<1>16. lowering' = M /\ status' = IF M.sim.failed THEN "failed" ELSE status
  BY <1>4, <1>8 DEF End, Lowers
<1>17. ReaderInv(w)
  BY <1>1, <1>12
<1> QED
  BY <1>1, <1>2, <1>10, <1>12, <1>14, <1>15, <1>16, <1>17, LiveAgain, LoweredInv

LEMMA SkipKeeps ==
  ASSUME LoweringInv, NEW o \in Alphabets[alphabet].ops, Skip(o)
  PROVE  LoweringInv'
<1>1. /\ IsOperator(o)
      /\ status = "lowering" /\ valid.labels # <<>>
      /\ valid' = Validated(valid, o) /\ ReaderInv(valid') /\ alphabet' = alphabet
  BY ReadGives DEF Skip
<1>2. /\ tracking.unreachable /\ (o.op \in {"Else", "End"} => tracking.blocks # <<>>)
      /\ lowering' = lowering /\ status' = status
  BY DEF Skip, Reachable, Resumes
<1>3. PICK v : v = valid
  OBVIOUS
<1>4. PICK L : L = lowering
  OBVIOUS
<1>5. PICK t : t = tracking
  OBVIOUS
<1>6. PICK w : w = Validated(v, o)
  OBVIOUS
<1>7. PICK u : u = AfterSkip(t, o)
  OBVIOUS
<1>8. /\ Formed(L) /\ StackInv(L.sim) /\ ~L.sim.failed
      /\ LabelsMatch(L.control_stack, v, t) /\ t \in Tracking /\ ReaderInv(v)
      /\ L.control_stack # <<>> => Height(L.sim) = ExpectedHeight(L, v, t)
  BY <1>1, <1>3, <1>4, <1>5 DEF LoweringInv
<1>9. L.control_stack # <<>> /\ Len(L.control_stack) \in Nat \ {0}
  <2>1. L.control_stack # <<>>
    BY <1>2, <1>5, <1>8 DEF LabelsMatch
  <2> QED
    BY <1>8, <2>1 DEF Formed
<1>10. u \in Tracking /\ u.unreachable = t.unreachable /\ LabelsMatch(L.control_stack, w, u)
  BY <1>1, <1>2, <1>3, <1>5, <1>6, <1>7, <1>8, <1>9, LabelsSkippedMatch
<1>11. valid' = w /\ tracking' = u
  BY <1>1, <1>3, <1>5, <1>6, <1>7 DEF Skip, Skipped, AfterSkip
<1>12. ExpectedHeight(L, w, u) = ExpectedHeight(L, v, t)
  BY <1>2, <1>5, <1>10 DEF ExpectedHeight
<1>13. PICK h : h = Height(L.sim)
  OBVIOUS
<1>14. Good(L, h) /\ h = ExpectedHeight(L, w, u)
  BY <1>8, <1>9, <1>12, <1>13, InvIsSound DEF Good, Height
<1>15. /\ lowering' = L /\ status' = IF L.sim.failed THEN "failed" ELSE status
       /\ ReaderInv(w)
  BY <1>1, <1>2, <1>4, <1>8, <1>11
<1> QED
  BY <1>1, <1>10, <1>11, <1>14, <1>15, LoweredInv

(* The end of the body changes no more of the lowering than its             *)
(* instructions.                                                            *)
LEMMA ResolveKeeps ==
  ASSUME LoweringInv, Resolve
  PROVE  LoweringInv'
<1>1. /\ status = "lowering" /\ alphabet' = alphabet /\ valid' = valid /\ tracking' = tracking
  BY DEF Resolve, readerVars
<1>2. /\ status' = "failed" \/ status' = "lowered"
      /\ status' = "lowered" => lowering'.sim = lowering.sim
  <2>1. CASE frame_width(lowering) > MAX_FRAME
    BY <2>1 DEF Resolve
  <2>2. CASE ~(frame_width(lowering) > MAX_FRAME)
    <3>1. PICK x : lowering' = [lowering EXCEPT !.instructions = x]
      BY <2>2 DEF Resolve
    <3>2. Formed(lowering) /\ status' = "lowered"
      BY <1>1, <2>2 DEF LoweringInv, Resolve
    <3>3. lowering'.sim = lowering.sim
      BY ONLY <3>1, <3>2 DEF Formed
    <3> QED
      BY <3>2, <3>3
  <2> QED
    BY <2>1, <2>2
<1>3. status' # "failed" => StackInv(lowering'.sim) /\ ~lowering'.sim.failed
  BY <1>1, <1>2 DEF LoweringInv
<1> QED
  BY <1>1, <1>2, <1>3 DEF LoweringInv

LEMMA LoweringStarts ==
  ASSUME Start
  PROVE  LoweringInv
<1>1. /\ alphabet \in DOMAIN Alphabets /\ valid = NewValidator /\ lowering = NewLowering
      /\ tracking = LiveTracking /\ status = "lowering"
  BY DEF Start, Init, ReaderInit
<1>2. ReaderInv(valid) /\ tracking \in Tracking
  BY <1>1, NewValidatorInv, LiveAgain
<1>3. PICK b : b = NewBlock("Func", 0, 0, 0, ResultsCount)
  OBVIOUS
<1>4. /\ b \in LoweringBlock /\ b.recorded_height = 0 /\ b.params = 0
      /\ b.results = ResultsCount
  <2>1. "Func" \in LabelKinds /\ <<>> \in Seq(Nat \X Nat) /\ Unset \in Int
    BY DEF LabelKinds, Unset
  <2> QED
    BY <1>3, <2>1, ResultsAssumption DEF NewBlock, LoweringBlock
<1>5. /\ DOMAIN lowering = {"sim", "control_stack", "instructions", "backpatch_map"}
      /\ lowering.sim = NewStack /\ lowering.control_stack = <<b>>
      /\ lowering.instructions = <<>>
  BY <1>1, <1>3 DEF NewLowering
<1>6. StackInv(lowering.sim) /\ ~lowering.sim.failed /\ Height(lowering.sim) = 0
  BY <1>5, NewStackInv DEF NewStack, Height
<1>7. Formed(lowering)
  <2>1. IsSeq(<<>>)
    BY DEF IsSeq
  <2> QED
    BY <1>4, <1>5, <2>1 DEF Formed
<1>8. PICK l : l = Label("Func", 0, 0, ResultsCount)
  OBVIOUS
<1>9. /\ l.height = 0 /\ l.params = 0 /\ l.results = ResultsCount /\ l.unreachable = FALSE
  BY <1>8 DEF Label
<1>10. valid.height = 0 /\ valid.labels = <<l>>
  BY <1>1, <1>8 DEF NewValidator
<1>11. LabelsMatch(<<b>>, valid, tracking)
  <2>1. PICK cs : cs = <<b>>
    OBVIOUS
  <2>2. PICK ls : ls = <<l>>
    OBVIOUS
  <2>3. Len(cs) = 1 /\ cs[1] = b /\ cs # <<>> /\ Len(ls) = 1 /\ ls[1] = l
    BY <2>1, <2>2
  <2>4. PICK t : t = tracking
    OBVIOUS
  <2>5. t.unreachable = FALSE /\ t.blocks = <<>> /\ Len(t.blocks) = 0
    BY <1>1, <2>4 DEF LiveTracking
  <2>6. PICK v : v = valid
    OBVIOUS
  <2>7. v.labels = ls
    BY <1>10, <2>2, <2>6
  <2>8. Len(cs) + Len(t.blocks) = Len(v.labels)
    BY <2>3, <2>5, <2>7
  <2>9. \A k \in 1 .. Len(cs) : k = 1
    BY <2>3
  <2>10. \A k \in 1 .. Len(cs) : /\ cs[k].recorded_height = v.labels[k].height
                                 /\ cs[k].params = v.labels[k].params
                                 /\ cs[k].results = v.labels[k].results
    BY ONLY <2>9, <2>3, <2>7, <1>4, <1>9
  <2>11. \A k \in 1 .. Len(cs) - 1 : ~v.labels[k].unreachable
    BY <2>3
  <2>12. v.labels[Len(cs)].unreachable = t.unreachable
    BY ONLY <2>3, <2>5, <2>7, <1>9
  <2>13. LabelsMatch(cs, v, t)
    BY ONLY <2>3, <2>5, <2>8, <2>10, <2>11, <2>12 DEF LabelsMatch
  <2> QED
    BY <2>1, <2>4, <2>6, <2>13
<1>12. ExpectedHeight(lowering, valid, tracking) = 0
  BY <1>1, <1>10 DEF ExpectedHeight, LiveTracking
<1> QED
  BY <1>1, <1>2, <1>5, <1>6, <1>7, <1>11, <1>12 DEF LoweringInv

LEMMA LoweringGoesOn ==
  ASSUME LoweringInv, [Next]_vars
  PROVE  LoweringInv'
<1>1. CASE Lowering
  <2>1. PICK o \in Alphabets[alphabet].ops : Lower(o)
    BY <1>1 DEF Lowering
  <2> QED
    BY <2>1, PlainlyKeeps, CallKeeps, CallIndirectKeeps, BlockKeeps, LoopKeeps, IfKeeps,
       ElseKeeps, EndKeeps, BrKeeps, BrIfKeeps, BrTableKeeps, ReturnKeeps, TrapKeeps, SkipKeeps
       DEF Lower
<1>2. CASE Resolving
  BY <1>2, ResolveKeeps DEF Resolving
<1>3. CASE UNCHANGED loweringVars
  BY <1>3 DEF loweringVars, readerVars, LoweringInv
<1>4. Run => UNCHANGED loweringVars
  BY DEF Run
<1>5. Execute => UNCHANGED loweringVars
  BY DEF Execute, LocalWrite, LocalSpill, Numeric, GlobalGet, GlobalSet, Mov, ImportedCall,
         LocalCall, CallTrap, IfStep, ElseStep, BrStep, BrIfStep, BrTableStep, Marker,
         UnreachableStep, Returns, Next1, Goto
<1>6. UNCHANGED vars => UNCHANGED loweringVars
  BY DEF vars
<1> QED
  BY <1>1, <1>2, <1>3, <1>4, <1>5, <1>6 DEF Next

-----------------------------------------------------------------------------
(* The theorems.                                                            *)

(* What every state of the lowering keeps, until a limit stops it: the      *)
(* control stack of emit_instructions_for_func follows the validator's      *)
(* labels, and the simulated stack is consistent and of their height.       *)
THEOREM LoweringFollowsValidator == Spec => []LoweringInv
<1>1. Start => LoweringInv
  BY LoweringStarts
<1>2. LoweringInv /\ [Next]_vars => LoweringInv'
  BY LoweringGoesOn
<1> QED
  BY <1>1, <1>2, PTL DEF Spec

(* The counts of LazyArena, the spill slots of SpillArena and the registers *)
(* of SimulatedStack agree with the operands on the stack through every     *)
(* branch, reset and merge of every body.                                   *)
THEOREM StacksStayConsistent == Spec => []StackConsistent
<1>1. LoweringInv => StackConsistent
  BY DEF LoweringInv, StackConsistent, StackInv
<1> QED
  BY <1>1, LoweringFollowsValidator, PTL

(* The debug_assert of End (the height it finds is the recorded one), and   *)
(* what it is the instance of: at every operator, live or dead, the         *)
(* simulated stack has the height the validator expects.                    *)
THEOREM HeightsMatchValidator == Spec => []HeightsAgree
<1>1. LoweringInv => HeightsAgree
  <2>1. SUFFICES ASSUME LoweringInv, status = "lowering", valid.labels # <<>>
                 PROVE  HeightsAgree
    BY DEF HeightsAgree
  <2>2. Formed(lowering) /\ LabelsMatch(lowering.control_stack, valid, tracking)
    BY <2>1 DEF LoweringInv
  <2>3. lowering.control_stack # <<>>
    <3>1. SUFFICES ASSUME lowering.control_stack = <<>>
                   PROVE  FALSE
      OBVIOUS
    <3>2. tracking.blocks = <<>> /\ Len(valid.labels) = 0
      BY <2>2, <3>1 DEF LabelsMatch
    <3>3. valid.labels \in Seq(ValidatorLabel)
      BY <2>1 DEF LoweringInv, ReaderInv, Validator
    <3> QED
      BY <2>1, <3>2, <3>3
  <2>4. DOMAIN lowering.control_stack = 1 .. Len(lowering.control_stack)
    BY <2>2 DEF Formed
  <2>5. Height(lowering.sim) = ExpectedHeight(lowering, valid, tracking)
    BY <2>1, <2>3 DEF LoweringInv
  <2> QED
    BY <2>2, <2>4, <2>5 DEF HeightsAgree, LabelsMatch, ExpectedHeight
<1> QED
  BY <1>1, LoweringFollowsValidator, PTL
=============================================================================
