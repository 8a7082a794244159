----------------------------- MODULE StackRunProofs -----------------------------
(***************************************************************************)
(* Why a frame of the stack code is safe to run, for every body.           *)
(*                                                                         *)
(* What the lowering emits: Sized says of each instruction so far that a   *)
(* branch carries the arity of its label to the height of its label, that  *)
(* an End records the height its block leaves, and that max_height bounds  *)
(* the operands wherever code can run.  Every rule is shown to keep it.    *)
(*                                                                         *)
(* What a run does: RunInv says that pc stands at a position the validator *)
(* has seen live, with as many operands on the stack as it counted there,  *)
(* above the locals and the caller's operands.  The targets of jumps are   *)
(* those of StackLoweringProofs, the heights around them those of          *)
(* BodyReaderProofs; each instruction, each call and each jump is shown to *)
(* lead from one such position to another.                                 *)
(***************************************************************************)
EXTENDS StackLoweringProofs

-----------------------------------------------------------------------------
(* What the emitted code knows about the heights.                           *)

(* A jump carries the values of label l and lands at its height.            *)
Carries(jump, l) ==
  /\ {"arity", "recorded_height"} \subseteq DOMAIN jump
  /\ jump.arity = BranchArity(l) /\ jump.recorded_height = l.height

(* The operators whose instruction is a record of its own.                  *)
Refilled == {"If", "Else", "End", "Br", "BrIf", "BrTable", "Return", "Unreachable"}

Knows(q, is, bt, i) ==
  LET u == CheckedAt(q)[i - 1]
      w == CheckedAt(q)[i]
  IN  /\ q[i].op \notin Refilled => is[i] = q[i]
      /\ q[i].op = "End" /\ CanRun(w) => is[i].recorded_height + is[i].arity = w.height
      /\ q[i].op \in {"Br", "BrIf", "Return"} /\ CanRun(u) =>
           Carries(is[i], u.labels[ExitLevel(q, i)])
      /\ q[i].op = "BrTable" =>
           /\ is[i].len = Len(q[i].arms)
           /\ CanRun(u) => \A a \in 1 .. Len(q[i].arms) :
                             Carries(bt[is[i].start_index + a], u.labels[ArmLevel(q, i, a)])

(* max_height bounds the operands wherever code can run.                    *)
Bounds(q, m) ==
  \A i \in 0 .. Len(q) : CanRun(CheckedAt(q)[i]) => CheckedAt(q)[i].height <= m

Sized(q, L, v) ==
  /\ Traced(q, v)
  /\ \A i \in 1 .. Len(q) : Knows(q, L.instructions, L.br_targets, i)
  /\ Bounds(q, L.max_height)

-----------------------------------------------------------------------------
(* Filling in a target changes nothing of this.                             *)

SameCarry(x, y) ==
  {"arity", "recorded_height"} \subseteq DOMAIN x =>
    /\ {"arity", "recorded_height"} \subseteq DOMAIN y
    /\ y.arity = x.arity /\ y.recorded_height = x.recorded_height

Alike(x, y) ==
  /\ SameCarry(x, y)
  /\ x.op \notin {"Br", "BrIf", "Return", "If", "Else"} => y = x

LEMMA CarriesStill ==
  ASSUME NEW x, NEW y, SameCarry(x, y), NEW l, Carries(x, l)
  PROVE  Carries(y, l)
BY DEF SameCarry, Carries

LEMMA PatchesAlike ==
  ASSUME NEW x, NEW y, NEW i, NEW b, NEW n, Patches(x, y, i, b, n)
  PROVE  Alike(x, y)
<1>1. \/ y = x
      \/ y = [x EXCEPT !.target_index = n]
      \/ y = [x EXCEPT !.else_index = b.else_index, !.end_index = n]
      \/ y = [x EXCEPT !.if_end_index = n]
  BY DEF Patches
<1>2. SameCarry(x, y)
  BY <1>1 DEF SameCarry
<1>3. x.op \notin {"Br", "BrIf", "Return", "If", "Else"} => y = x
  BY DEF Patches
<1> QED
  BY <1>2, <1>3 DEF Alike

LEMMA ArmAlike ==
  ASSUME NEW x, NEW i, NEW b, NEW n, NEW y, y = patched_arm(x, i, b, n)
  PROVE  SameCarry(x, y)
BY DEF patched_arm, SameCarry

(* One operator more, the earlier instructions alike.                       *)
Keeping(q, o, r, is, js, bt, ct) ==
  /\ IsSeq(q) /\ r = Append(q, o)
  /\ \A i \in 1 .. Len(q) : is[i].op = q[i].op /\ Alike(is[i], js[i])
  /\ \A s \in 1 .. Len(bt) : SameCarry(bt[s], ct[s])

LEMMA KnowsStill ==
  ASSUME NEW q, NEW o, NEW r, NEW is, NEW js, NEW bt, NEW ct, Keeping(q, o, r, is, js, bt, ct),
         NEW i \in 1 .. Len(q), IsOperator(q[i]), NEW bs, TableOK(q, bs, is, bt, i), Len(bt) \in Nat,
         Knows(q, is, bt, i)
  PROVE  Knows(r, js, ct, i)
<1>1. PICK n \in Nat : n = Len(q)
  BY DEF Keeping, IsSeq
<1>2. /\ is[i].op = q[i].op /\ Alike(is[i], js[i]) /\ IsSeq(q) /\ r = Append(q, o)
      /\ \A s \in 1 .. Len(bt) : SameCarry(bt[s], ct[s])
  BY DEF Keeping
<1>3. SameAt(q, r, i)
  BY <1>2, ReadsSame
<1>4. r[i] = q[i] /\ DepthAt(r)[i - 1] = DepthAt(q)[i - 1]
  BY <1>3 DEF SameAt
<1>5. CheckedAt(r)[i - 1] = CheckedAt(q)[i - 1] /\ CheckedAt(r)[i] = CheckedAt(q)[i]
  <2>1. CheckedOn(CheckedAt(q), CheckedAt(r), Len(q), o)
    BY <1>2, CheckedExtends
  <2>2. i - 1 \in 0 .. Len(q) /\ i \in 0 .. Len(q)
    BY <1>1
  <2> QED
    BY <2>1, <2>2 DEF CheckedOn
<1>6. PICK u : u = CheckedAt(q)[i - 1]
  OBVIOUS
<1>7. PICK w : w = CheckedAt(q)[i]
  OBVIOUS
<1>8. q[i].op \notin Refilled => js[i] = r[i]
  <2>1. HAVE q[i].op \notin Refilled
  <2>2. js[i] = is[i]
    BY <1>2, <2>1 DEF Alike, Refilled
  <2> QED
    BY <1>4, <2>1, <2>2 DEF Knows
<1>9. q[i].op = "End" /\ CanRun(w) => js[i].recorded_height + js[i].arity = w.height
  <2>1. q[i].op = "End" => js[i] = is[i]
    BY <1>2 DEF Alike
  <2> QED
    BY <1>7, <2>1 DEF Knows
<1>10. q[i].op \in {"Br", "BrIf", "Return"} /\ CanRun(u) =>
         Carries(js[i], u.labels[ExitLevel(r, i)])
  <2>1. SUFFICES ASSUME q[i].op \in {"Br", "BrIf", "Return"}, CanRun(u)
                 PROVE  Carries(js[i], u.labels[ExitLevel(r, i)])
    OBVIOUS
  <2>2. ExitLevel(r, i) = ExitLevel(q, i)
    BY <1>4 DEF ExitLevel
  <2>3. Carries(is[i], u.labels[ExitLevel(q, i)])
    BY <1>6, <2>1 DEF Knows
  <2>4. SameCarry(is[i], js[i])
    BY <1>2 DEF Alike
  <2> QED
    BY <2>2, <2>3, <2>4, CarriesStill
<1>11. ASSUME q[i].op = "BrTable"
       PROVE  /\ js[i].len = Len(r[i].arms)
              /\ CanRun(u) => \A a \in 1 .. Len(r[i].arms) :
                   Carries(ct[js[i].start_index + a], u.labels[ArmLevel(r, i, a)])
  <2>1. js[i] = is[i] /\ is[i].len = Len(q[i].arms)
    BY <1>2, <1>11 DEF Alike, Knows
  <2>2. ASSUME CanRun(u), NEW a \in 1 .. Len(q[i].arms)
        PROVE  Carries(ct[is[i].start_index + a], u.labels[ArmLevel(r, i, a)])
    <3>1. ArmLevel(r, i, a) = ArmLevel(q, i, a)
      BY <1>4 DEF ArmLevel
    <3>2. PICK s : s = is[i].start_index + a
      OBVIOUS
    <3>3. s \in 1 .. Len(bt)
      <4>1. Len(q[i].arms) \in Nat
        BY ArmsLength
      <4>2. is[i].start_index \in Nat /\ is[i].start_index + Len(q[i].arms) <= Len(bt)
        BY <1>11 DEF TableOK
      <4> QED
        BY SMTT(30), <3>2, <4>1, <4>2
    <3>4. Carries(bt[s], u.labels[ArmLevel(q, i, a)])
      BY <1>6, <1>11, <2>2, <3>2 DEF Knows
    <3>5. SameCarry(bt[s], ct[s])
      BY <1>2, <3>3
    <3> QED
      BY <3>1, <3>2, <3>4, <3>5, CarriesStill
  <2> QED
    BY <1>4, <2>1, <2>2
<1> QED
  BY <1>4, <1>5, <1>6, <1>7, <1>8, <1>9, <1>10, <1>11 DEF Knows

-----------------------------------------------------------------------------
(* In code that can run no block is dead, so every one stands at its        *)
(* label's height.                                                          *)
LEMMA NoneDeadTo ==
  ASSUME NEW bs, NEW ls, Fits(bs, ls), NEW n \in Nat, Len(bs) \in Nat, n <= Len(bs),
         \A k \in 1 .. n : ~ls[k].unreachable
  PROVE  \A k \in 1 .. n : ~bs[k].has_inherited /\ ~bs[k].is_unreachable_traversing
<1> DEFINE S == {k \in 0 .. n : \A j \in 1 .. k : ~bs[j].is_unreachable_traversing}
<1>2. ASSUME NEW k \in 1 .. n, \A j \in 1 .. k - 1 : ~bs[j].is_unreachable_traversing
      PROVE  ~bs[k].has_inherited /\ ~bs[k].is_unreachable_traversing
  <2>1. FitsAt(bs, ls[k], k)
    BY DEF Fits
  <2> QED
    BY <1>2, <2>1 DEF FitsAt
<1>3. 0 \in S
  OBVIOUS
<1>4. ASSUME NEW k \in 0 .. n, k \in S, k < n
      PROVE  k + 1 \in S
  <2>1. k + 1 \in 1 .. n /\ k + 1 \in 0 .. n /\ (k + 1) - 1 = k
    BY <1>4
  <2>2. \A j \in 1 .. k : ~bs[j].is_unreachable_traversing
    BY <1>4
  <2>3. ~bs[k + 1].is_unreachable_traversing
    BY <1>2, <2>1, <2>2
  <2>4. \A j \in 1 .. k + 1 : j = k + 1 \/ j \in 1 .. k
    OBVIOUS
  <2> QED
    BY <2>1, <2>2, <2>3, <2>4
<1>5. 0 .. n \subseteq S
  <2> HIDE DEF S
  <2> QED
    BY <1>3, <1>4, CountingTo
<1>6. ASSUME NEW k \in 1 .. n
      PROVE  ~bs[k].has_inherited /\ ~bs[k].is_unreachable_traversing
  <2>1. k - 1 \in 0 .. n
    OBVIOUS
  <2>2. \A j \in 1 .. k - 1 : ~bs[j].is_unreachable_traversing
    BY <1>5, <2>1
  <2> QED
    BY <1>2, <2>2
<1> QED
  BY <1>6

LEMMA NoneDead ==
  ASSUME NEW bs, NEW v, Fits(bs, v.labels), CanRun(v), Len(bs) \in Nat
  PROVE  \A k \in 1 .. Len(bs) :
           ~bs[k].has_inherited /\ ~bs[k].is_unreachable_traversing
<1>1. PICK n \in Nat : n = Len(bs) /\ n = Len(v.labels)
  BY DEF Fits
<1>2. PICK ls : ls = v.labels
  OBVIOUS
<1>3. \A k \in 1 .. n : ~ls[k].unreachable
  BY <1>1, <1>2 DEF CanRun
<1>4. Fits(bs, ls) /\ n <= Len(bs)
  BY <1>1, <1>2
<1>5. \A k \in 1 .. n : ~bs[k].has_inherited /\ ~bs[k].is_unreachable_traversing
  BY <1>3, <1>4, NoneDeadTo
<1> QED
  BY <1>1, <1>5

LEMMA LiveBlock ==
  ASSUME NEW L, NEW v, Tracks(L, v), CanRun(v), NEW k \in 1 .. Len(L.inner),
         NEW b, b = L.inner[k], NEW l, l = v.labels[k]
  PROVE  /\ b \in StackBlock /\ ~b.is_unreachable_traversing
         /\ b.recorded_height = l.height /\ b.params = l.params /\ b.results = l.results
<1>1. L.inner \in Seq(StackBlock) /\ Fits(L.inner, v.labels) /\ Len(L.inner) \in Nat
  BY DEF Tracks, Formed
<1>2. ~b.has_inherited /\ ~b.is_unreachable_traversing
  BY <1>1, NoneDead
<1>3. FitsAt(L.inner, l, k)
  BY <1>1 DEF Fits
<1> QED
  BY <1>1, <1>2, <1>3 DEF FitsAt

(* The height of code that can run is the validator's.                      *)
LEMMA LiveHeight ==
  ASSUME NEW L, NEW v, Tracks(L, v), CanRun(v), v.labels # <<>>
  PROVE  L.curr_height = v.height /\ v.height <= L.max_height
<1>1. L.inner \in Seq(StackBlock) /\ Fits(L.inner, v.labels) /\ Len(L.inner) \in Nat
      /\ L.curr_height <= L.max_height
  BY DEF Tracks, Formed
<1>2. L.inner # <<>>
  <2>1. SUFFICES ASSUME L.inner = <<>> PROVE FALSE
    OBVIOUS
  <2>2. Len(L.inner) = 0
    BY <2>1
  <2>3. Len(v.labels) = 0
    BY <1>1, <2>2 DEF Fits
  <2> QED
    BY <2>3
<1>3. PICK m \in Nat \ {0} : m = Len(L.inner) /\ curr_block(L) = L.inner[m]
  BY <1>2, Blocks DEF Tracks
<1>4. m \in 1 .. m
  OBVIOUS
<1>5. ~L.inner[m].is_unreachable_traversing
  BY <1>1, <1>3, <1>4, NoneDead
<1>6. L.curr_height = v.height
  BY <1>2, <1>3, <1>5 DEF Tracks
<1> QED
  BY <1>1, <1>6

-----------------------------------------------------------------------------
(* What each rule emits; max_height never falls.                            *)
Aside(L, M) ==
  /\ Formed(M) /\ M.instructions = L.instructions /\ M.br_targets = L.br_targets
  /\ L.max_height <= M.max_height

Emitted(L, M, x) ==
  /\ M.instructions = Append(L.instructions, x) /\ M.br_targets = L.br_targets
  /\ L.max_height <= M.max_height

LEMMA NoteAside ==
  ASSUME NEW L, Formed(L), NEW h \in Int, NEW M, M = note_height(L, h)
  PROVE  Aside(L, M) /\ M.curr_height = h /\ M.inner = L.inner
<1>1. PICK m \in Int : m = (IF h > L.max_height THEN h ELSE L.max_height) /\ L.max_height <= m
  BY DEF Formed
<1>2. /\ M.max_height = m /\ M.br_targets = L.br_targets /\ M.instructions = L.instructions
  BY <1>1 DEF note_height, Formed
<1>3. Formed(M) /\ M.curr_height = h /\ M.inner = L.inner
  BY NoteShape
<1> QED
  BY <1>1, <1>2, <1>3 DEF Aside

LEMMA AsideSelf ==
  ASSUME NEW L, Formed(L)
  PROVE  Aside(L, L)
BY DEF Aside, Formed

LEMMA AsideChain ==
  ASSUME NEW L, NEW A, NEW M, Formed(L), Aside(L, A), Aside(A, M)
  PROVE  Aside(L, M)
BY DEF Aside, Formed

LEMMA HeightAside ==
  ASSUME NEW L, Formed(L), NEW i \in Nat, NEW j \in Nat, NEW h \in Int
  PROVE  /\ Aside(L, set_height(L, h))
         /\ Aside(L, apply_stack_effects_to_height(L, i, j))
<1>1. L.curr_height - i + j \in Int
  BY DEF Formed
<1>2. Aside(L, L) /\ Aside(L, note_height(L, h)) /\ Aside(L, note_height(L, L.curr_height - i + j))
  BY <1>1, AsideSelf, NoteAside
<1> QED
  BY <1>2 DEF set_height, apply_stack_effects_to_height

(* Rewriting the blocks leaves the rest.                                    *)
LEMMA BlocksAside ==
  ASSUME NEW L, Formed(L), NEW bs \in Seq(StackBlock), NEW M, M = [L EXCEPT !.inner = bs]
  PROVE  Aside(L, M)
<1>1. /\ DOMAIN M = DOMAIN L /\ M.inner = bs /\ M.curr_height = L.curr_height
      /\ M.max_height = L.max_height
      /\ M.br_targets = L.br_targets /\ M.instructions = L.instructions
  BY DEF Formed
<1> QED
  BY <1>1 DEF Formed, Aside

LEMMA CurrAside ==
  ASSUME NEW L, Formed(L), L.inner # <<>>, NEW b \in StackBlock
  PROVE  Aside(L, with_curr_block(L, b))
<1>1. PICK bs \in Seq(StackBlock) : bs = L.inner
  BY DEF Formed
<1>2. PICK S : S = StackBlock
  OBVIOUS
<1>3. PICK m \in Nat \ {0} : m = current(L) /\ m = Len(bs)
  BY <1>1, Blocks DEF current
<1>4. PICK cs : cs = [bs EXCEPT ![m] = b]
  OBVIOUS
<1>5. b \in S /\ bs \in Seq(S)
  BY <1>2
<1>6. cs \in Seq(S)
  BY ONLY <1>3, <1>4, <1>5
<1>7. with_curr_block(L, b) = [L EXCEPT !.inner = cs]
  BY <1>1, <1>3, <1>4 DEF with_curr_block
<1> QED
  BY <1>2, <1>6, <1>7, BlocksAside

LEMMA MarkAside ==
  ASSUME NEW L, Formed(L), L.inner # <<>>
  PROVE  Aside(L, set_unreachable_traversing(L))
<1>1. PICK b : b = [curr_block(L) EXCEPT !.is_unreachable_traversing = TRUE]
  OBVIOUS
<1>2. b \in StackBlock
  BY <1>1, Blocks DEF StackBlock
<1>3. set_unreachable_traversing(L) = with_curr_block(L, b)
  BY <1>1 DEF set_unreachable_traversing, curr_block, current, with_curr_block
<1> QED
  BY <1>2, <1>3, CurrAside

LEMMA AttachAside ==
  ASSUME NEW L, Formed(L), NEW k \in 1 .. Len(L.inner), NEW slot \in Int
  PROVE  Aside(L, attach(L, k, slot))
<1>1. PICK M : M = attach(L, k, slot)
  OBVIOUS
<1>2. AlikeBlocks(L, M)
  BY <1>1, AttachAlike
<1>3. M.max_height = L.max_height
  BY <1>1 DEF attach, Formed
<1> QED
  BY <1>1, <1>2, <1>3 DEF AlikeBlocks, Aside, Formed

LEMMA PushEmits ==
  ASSUME NEW L, NEW A, Aside(L, A), NEW x
  PROVE  Emitted(L, push(A, x), x)
BY DEF Aside, Formed, Emitted, push

LEMMA EmittedAside ==
  ASSUME NEW L, NEW A, NEW M, NEW x, Formed(L), Formed(A), Emitted(L, A, x), Aside(A, M)
  PROVE  Emitted(L, M, x)
BY DEF Aside, Formed, Emitted

LEMMA PlainEmits ==
  ASSUME NEW L, Formed(L), NEW i \in Nat, NEW j \in Nat, NEW o
  PROVE  Emitted(L, push(apply_stack_effects_to_height(L, i, j), o), o)
<1>1. 0 \in Int
  OBVIOUS
<1>2. Aside(L, apply_stack_effects_to_height(L, i, j))
  BY <1>1, HeightAside
<1> QED
  BY <1>2, PushEmits

LEMMA AddAside ==
  ASSUME NEW L, Formed(L), L.inner # <<>>, NEW o, IsOperator(o), o.op \in Openers
  PROVE  Aside(L, add_block(L, o))
<1>1. o.ty[1] \in Nat /\ o.ty[2] \in Nat /\ o.op \in LabelKinds
  BY OperatorCases DEF LabelKinds, Openers
<1>2. PICK d \in BOOLEAN : d = curr_block(L).is_unreachable_traversing
  BY Blocks, BlockFields
<1>3. PICK c \in {0, 1} : c = IF o.op = "If" THEN 1 ELSE 0
  OBVIOUS
<1>4. PICK h \in Int : h = IF d THEN 0 ELSE L.curr_height - o.ty[1] - c
  BY <1>1 DEF Formed
<1>5. PICK n \in Nat : n = len(L)
  BY DEF len, Formed, IsSeq
<1>6. PICK b : b = NewBlock(o.op, n, h, o.ty[1], o.ty[2], d)
  OBVIOUS
<1>7. b \in StackBlock
  <2>1. <<>> \in Seq(Nat \X Int) /\ Unset \in Int
    BY DEF Unset
  <2> QED
    BY <1>1, <1>6, <2>1 DEF NewBlock, StackBlock
<1>8. PICK bs : bs = Append(L.inner, b)
  OBVIOUS
<1>9. bs \in Seq(StackBlock)
  <2>1. PICK S : S = StackBlock
    OBVIOUS
  <2>2. L.inner \in Seq(S) /\ b \in S
    BY <1>7, <2>1 DEF Formed
  <2>3. bs \in Seq(S)
    BY ONLY <1>8, <2>2
  <2> QED
    BY <2>1, <2>3
<1>10. add_block(L, o) = [L EXCEPT !.inner = bs]
  BY <1>2, <1>3, <1>4, <1>5, <1>6, <1>8 DEF add_block
<1> QED
  BY <1>9, <1>10, BlocksAside

LEMMA OpenersEmit ==
  ASSUME NEW L, Formed(L), L.inner # <<>>, NEW o, IsOperator(o), o.op \in Openers
  PROVE  Emitted(L, LowerBlock(L, o), o) /\ Emitted(L, LowerIf(L, o), IfInstr)
<1>1. PICK A : A = add_block(L, o)
  OBVIOUS
<1>2. Aside(L, A)
  BY <1>1, AddAside
<1>3. PICK B : B = apply_stack_effects_to_height(A, 1, 0)
  OBVIOUS
<1>4. Aside(A, B)
  <2>1. Formed(A) /\ 1 \in Nat /\ 0 \in Nat /\ 0 \in Int
    BY <1>2 DEF Aside
  <2> QED
    BY <1>3, <2>1, HeightAside
<1>5. Aside(L, B)
  BY <1>2, <1>4, AsideChain
<1> QED
  BY <1>1, <1>2, <1>3, <1>5, PushEmits DEF LowerBlock, LowerIf

LEMMA ElseEmits ==
  ASSUME NEW L, Formed(L), L.inner # <<>>
  PROVE  Emitted(L, LowerElse(L), ElseInstr)
<1>1. PICK b \in StackBlock : b = curr_block(L)
  BY Blocks
<1>2. PICK n \in Nat : n = len(L)
  BY DEF len, Formed, IsSeq
<1>3. PICK f : f = [b EXCEPT !.else_index = n]
  OBVIOUS
<1>4. f \in StackBlock
  <2>1. n \in Int
    OBVIOUS
  <2> QED
    BY ONLY <1>3, <2>1, b \in StackBlock DEF StackBlock
<1>5. PICK E : E = with_curr_block(L, f)
  OBVIOUS
<1>6. BlockRewritten(L, E, f) /\ Aside(L, E)
  BY <1>4, <1>5, Rewritten, CurrAside
<1>7. Formed(E) /\ E.inner # <<>>
  BY <1>6 DEF BlockRewritten
<1>8. PICK g : g = [curr_block(E) EXCEPT !.is_unreachable_traversing = FALSE]
  OBVIOUS
<1>9. g \in StackBlock
  <2>1. curr_block(E) \in StackBlock
    BY <1>7, Blocks
  <2> QED
    BY <1>8, <2>1 DEF StackBlock
<1>10. PICK M : M = end_unreachable_traversing(E)
  OBVIOUS
<1>11. Aside(E, M)
  <2>1. CASE curr_block(E).has_inherited
    BY <1>7, <1>10, <2>1, AsideSelf DEF end_unreachable_traversing
  <2>2. CASE ~curr_block(E).has_inherited
    <3>1. M = with_curr_block(E, g)
      BY <1>8, <1>10, <2>2
         DEF end_unreachable_traversing, curr_block, current, with_curr_block
    <3> QED
      BY <1>7, <1>9, <3>1, CurrAside
  <2> QED
    BY <2>1, <2>2
<1>12. PICK h \in Int : h = b.recorded_height + b.params
  BY <1>1, BlockFields
<1>13. PICK S : S = set_height(M, h)
  OBVIOUS
<1>14. Aside(M, S)
  <2>1. Formed(M) /\ 1 \in Nat
    BY <1>11 DEF Aside
  <2> QED
    BY <1>13, <2>1, HeightAside
<1>15. Aside(L, S)
  BY <1>6, <1>7, <1>11, <1>14, AsideChain
<1>16. E = [L EXCEPT !.inner[current(L)].else_index = len(L)]
  BY <1>1, <1>2, <1>3, <1>5 DEF with_curr_block, curr_block, current
<1>17. LowerElse(L) = push(S, ElseInstr)
  BY <1>1, <1>10, <1>12, <1>13, <1>16 DEF LowerElse
<1> QED
  BY <1>15, <1>17, PushEmits

LEMMA TrapEmits ==
  ASSUME NEW L, Formed(L), L.inner # <<>>
  PROVE  Emitted(L, LowerUnreachable(L), [op |-> "Unreachable"])
BY MarkAside, PushEmits DEF LowerUnreachable

(* The jump to block b.                                                     *)
JumpInstr(op, b) == Jump(op, branch_target(b), branch_arity(b), b.recorded_height)

LEMMA JumpEmits ==
  ASSUME NEW L, NEW v, Tracks(L, v), v.labels # <<>>, NEW k \in 1 .. Len(L.inner), NEW b, b = L.inner[k], NEW op,
         NEW M, M = JumpTo(L, op, k), NEW x, x = JumpInstr(op, b)
  PROVE  /\ Emitted(L, M, x)
         /\ Emitted(L, set_unreachable_traversing(M), x)
         /\ Emitted(L, apply_stack_effects_to_height(M, 1, 0), x)
<1>1. PICK A : A = attach(L, k, Unset)
  OBVIOUS
<1>2. Unset \in Int /\ Formed(L)
  BY DEF Unset, Tracks
<1>3. Aside(L, A)
  BY <1>1, <1>2, AttachAside
<1>4. M = push(A, x)
  BY <1>1 DEF JumpTo, JumpInstr
<1>5. Emitted(L, M, x)
  BY <1>3, <1>4, PushEmits
<1>6. Tracks(M, v)
  BY JumpTracks
<1>7. Formed(M) /\ M.inner # <<>>
  <2>1. Formed(M) /\ Len(M.inner) = Len(v.labels)
    BY <1>6 DEF Tracks, Fits
  <2>2. Len(L.inner) = Len(v.labels) /\ Len(L.inner) \in Nat
    BY <1>2 DEF Tracks, Fits, Formed
  <2>3. Len(M.inner) # 0
    BY <2>1, <2>2
  <2> QED
    BY <2>1, <2>3
<1>8. Aside(M, set_unreachable_traversing(M))
  BY <1>7, MarkAside
<1>9. Aside(M, apply_stack_effects_to_height(M, 1, 0))
  <2>1. 1 \in Nat /\ 0 \in Nat /\ 0 \in Int
    OBVIOUS
  <2> QED
    BY <1>7, <2>1, HeightAside
<1> QED
  BY <1>2, <1>5, <1>7, <1>8, <1>9, EmittedAside

LEMMA ArmsAside ==
  ASSUME NEW L, Formed(L), NEW depths, NEW n \in Nat,
         \A i \in 1 .. n : block_at(L, depths[i]) \in 1 .. Len(L.inner),
         NEW f, IsArms(f, L, depths, n)
  PROVE  Aside(L, f[n])
<1> DEFINE S == {k \in 0 .. n : AlikeBlocks(L, f[k]) /\ Aside(L, f[k])}
<1>1. 0 \in S
  <2>1. f[0] = L
    BY DEF IsArms
  <2>2. AlikeBlocks(L, f[0]) /\ Aside(L, f[0])
    BY <2>1, AsideSelf DEF AlikeBlocks, SameBlocks
  <2> QED
    BY <2>2
<1>2. ASSUME NEW k \in 0 .. n, k \in S, k < n
      PROVE  k + 1 \in S
  <2>1. PICK i \in Nat : i = k + 1
    OBVIOUS
  <2>2. i \in 1 .. n /\ i \in 0 .. n /\ f[i] = ArmAttached(f[k], L, depths, i)
    BY <1>2, <2>1 DEF IsArms
  <2>3. AlikeBlocks(L, f[k]) /\ Aside(L, f[k])
    BY <1>2
  <2>4. PICK j \in 1 .. Len(L.inner) : j = block_at(L, depths[i])
    BY <2>2
  <2>5. j \in 1 .. Len(f[k].inner) /\ Formed(f[k])
    BY <2>3 DEF AlikeBlocks, SameBlocks
  <2>6. PICK slot \in Int : slot = Len(L.br_targets) + i - 1
    <3>1. PICK z \in Nat : z = Len(L.br_targets)
      BY DEF Formed, IsSeq
    <3>2. z + i - 1 \in Int
      BY ONLY z \in Nat, i \in Nat
    <3> QED
      BY ONLY <3>1, <3>2
  <2>7. f[i] = attach(f[k], j, slot)
    BY <2>2, <2>4, <2>6 DEF ArmAttached
  <2>8. AlikeBlocks(f[k], f[i]) /\ Aside(f[k], f[i])
    BY <2>5, <2>7, AttachAlike, AttachAside
  <2>9. AlikeBlocks(L, f[i])
    BY <2>3, <2>8, AlikeChain
  <2>10. Aside(L, f[i])
    BY <2>3, <2>8, AsideChain
  <2> QED
    BY <2>1, <2>2, <2>9, <2>10
<1>3. 0 .. n \subseteq S
  <2> HIDE DEF S
  <2> QED
    BY <1>1, <1>2, CountingTo
<1> QED
  BY <1>3

TableEmitted(L, M, depths, n, s) ==
  /\ M.instructions = Append(L.instructions, BrTableInstr(s, n))
  /\ L.max_height <= M.max_height
  /\ \A i \in 1 .. s : M.br_targets[i] = L.br_targets[i]
  /\ \A a \in 1 .. n : M.br_targets[s + a] = arm_at(L, depths, a)

LEMMA TableEmits ==
  ASSUME NEW q, NEW L, NEW v, NEW o, Ready(q, L, v, o), o.op = "BrTable",
         NEW depths, depths = o.arms, NEW n \in Nat, n = Len(depths),
         NEW s \in Nat, s = Len(L.br_targets)
  PROVE  TableEmitted(L, LowerBrTable(L, depths), depths, n, s)
<1>1. Formed(L) /\ L.inner # <<>> /\ Len(v.labels) = Len(L.inner)
  BY ReadyFacts
<1>2. depths \in Seq(Nat)
  BY DEF Ready, IsOperator
<1>3. \A i \in 1 .. n : depths[i] \in Nat /\ depths[i] < Len(v.labels)
  <2>1. \A d \in Depths(o) : d < Len(v.labels)
    BY AllowedCases DEF Ready
  <2>2. \A i \in 1 .. n : depths[i] \in Depths(o) /\ depths[i] \in Nat
    BY <1>2 DEF Depths
  <2> QED
    BY <2>1, <2>2
<1>4. \A i \in 1 .. n : block_at(L, depths[i]) \in 1 .. Len(L.inner)
  BY <1>3, BranchLevel
<1>5. PICK x : x = BrTableInstr(s, n)
  OBVIOUS
<1>6. PICK f, g : /\ IsArms(f, L, depths, n)
                  /\ \A i \in 1 .. n : g[i] = arm_at(L, depths, i)
                  /\ LowerBrTable(L, depths) = TableFrom(L, f[n], n, g, x)
  <2>1. IsTable(LowerBrTable(L, depths), L, depths, n)
    BY TableDefined
  <2> QED
    BY <1>5, <2>1 DEF IsTable
<1>7. PICK A : A = f[n]
  OBVIOUS
<1>8. Aside(L, A) /\ AlikeBlocks(L, A)
  BY <1>1, <1>4, <1>6, <1>7, ArmsAside, ArmsAlike
<1>9. PICK bt : bt = L.br_targets
  OBVIOUS
<1>10. PICK ct : ct = bt \o [i \in 1 .. n |-> g[i]]
  OBVIOUS
<1>11. /\ IsSeq(ct)
       /\ \A i \in 1 .. s : ct[i] = bt[i]
       /\ \A i \in 1 .. n : ct[s + i] = g[i]
  <2>1. IsSeq(bt)
    BY <1>1, <1>9 DEF Formed
  <2>2. Joined(ct, bt, g, n)
    BY <1>10 DEF Joined
  <2>3. /\ IsSeq(ct) /\ Len(ct) = Len(bt) + n
        /\ \A i \in 1 .. Len(bt) : ct[i] = bt[i]
        /\ \A i \in 1 .. n : ct[Len(bt) + i] = g[i]
    BY ONLY <2>1, <2>2, n \in Nat, JoinedReads
  <2> QED
    BY <1>9, <2>3
<1>12. PICK T : T = [A EXCEPT !.br_targets = ct]
  OBVIOUS
<1>13. /\ DOMAIN T = DOMAIN A /\ T.inner = A.inner /\ T.curr_height = A.curr_height
       /\ T.max_height = A.max_height /\ T.br_targets = ct /\ T.instructions = L.instructions
  BY <1>8, <1>12 DEF Aside, Formed
<1>14. Formed(T)
  BY <1>8, <1>11, <1>13 DEF Aside, Formed
<1>15. PICK M : M = push(T, x)
  OBVIOUS
<1>16. /\ M.inner = A.inner /\ M.br_targets = ct /\ M.instructions = Append(L.instructions, x)
       /\ M.max_height = A.max_height /\ Formed(M)
  BY <1>13, <1>14, <1>15, PushKeeps DEF push, Formed, SameHeights
<1>17. M.inner # <<>>
  <2>1. Len(M.inner) = Len(L.inner)
    BY <1>8, <1>16 DEF AlikeBlocks, SameBlocks
  <2> QED
    BY <1>1, <2>1, ReadyFacts
<1>18. PICK N : N = set_unreachable_traversing(M)
  OBVIOUS
<1>19. Aside(M, N)
  BY <1>16, <1>17, <1>18, MarkAside
<1>20. N = LowerBrTable(L, depths)
  BY <1>6, <1>7, <1>9, <1>10, <1>12, <1>15, <1>18 DEF TableFrom
<1>21. N.instructions = Append(L.instructions, x) /\ N.br_targets = ct
  BY <1>16, <1>19 DEF Aside
<1>22. L.max_height <= N.max_height
  <2>1. Formed(N) /\ Formed(A)
    BY <1>8, <1>19 DEF Aside
  <2> QED
    BY SMTT(30), <1>1, <1>8, <1>16, <1>19, <2>1 DEF Aside, Formed
<1> QED
  BY <1>5, <1>6, <1>9, <1>11, <1>20, <1>21, <1>22 DEF TableEmitted

(* End patches what it closes; the End of the function notes its results.   *)
EndEmitted(L, M, b, n) ==
  /\ M.instructions[n + 1] = EndInstr(b)
  /\ \A i \in 1 .. n : Alike(L.instructions[i], M.instructions[i])
  /\ \A s \in 1 .. Len(L.br_targets) : SameCarry(L.br_targets[s], M.br_targets[s])
  /\ L.max_height <= M.max_height
  /\ Len(L.inner) = 1 => b.recorded_height + b.results <= M.max_height

LEMMA EndEmits ==
  ASSUME NEW q, NEW L, NEW v, NEW o, Ready(q, L, v, o), o.op = "End",
         NEW n \in Nat, n = Len(q), NEW b, b = curr_block(L)
  PROVE  EndEmitted(L, LowerEnd(L), b, n)
<1>1. /\ Formed(L) /\ L.inner # <<>> /\ len(L) = n
      /\ Lined(q, L.inner, L.instructions, L.br_targets)
  BY ReadyFacts
<1>2. PICK m \in Nat \ {0} : m = Len(L.inner)
  BY ReadyFacts
<1>3. b = L.inner[m] /\ b \in StackBlock
  BY <1>1, <1>2, Blocks
<1>4. PICK bs \in Seq(StackBlock) : bs = L.inner
  BY <1>1 DEF Formed
<1>5. PICK cs : cs = SubSeq(bs, 1, m - 1)
  OBVIOUS
<1>6. cs \in Seq(StackBlock) /\ Len(cs) = m - 1
  <2>1. PICK S : S = StackBlock
    OBVIOUS
  <2>2. bs \in Seq(S) /\ m = Len(bs)
    BY <1>2, <1>4, <2>1
  <2>3. cs \in Seq(S) /\ Len(cs) = m - 1
    BY ONLY <1>5, <2>2, m \in Nat \ {0}
  <2> QED
    BY <2>1, <2>3
<1>7. PICK is : is = L.instructions
  OBVIOUS
<1>8. PICK bt : bt = L.br_targets
  OBVIOUS
<1>9. DOMAIN is = 1 .. n /\ IsSeq(is) /\ Len(is) = n
      /\ DOMAIN bt = 1 .. Len(bt) /\ IsSeq(bt) /\ Len(bt) \in Nat
  <2>1. IsSeq(is) /\ Len(is) = n /\ IsSeq(bt)
    BY <1>1, <1>7, <1>8 DEF len, Formed
  <2> QED
    BY <2>1 DEF IsSeq
<1>10. PICK ks : ks = [i \in 1 .. n |-> patched(is[i], i - 1, b, n)]
  OBVIOUS
<1>11. PICK ct : ct = [i \in DOMAIN bt |-> patched_arm(bt[i], i - 1, b, n)]
  OBVIOUS
<1>12. PICK P : P = [L EXCEPT !.inner = cs, !.instructions = ks, !.br_targets = ct]
  OBVIOUS
<1>13. /\ DOMAIN P = DOMAIN L /\ P.inner = cs /\ P.instructions = ks /\ P.br_targets = ct
       /\ P.curr_height = L.curr_height /\ P.max_height = L.max_height
  BY <1>1, <1>12 DEF Formed
<1>14. IsSeq(ks) /\ Len(ks) = n /\ IsSeq(ct)
  <2>1. DOMAIN ks = DOMAIN is /\ ks = [i \in DOMAIN ks |-> ks[i]]
    BY <1>9, <1>10
  <2>2. DOMAIN ct = DOMAIN bt /\ ct = [i \in DOMAIN ct |-> ct[i]]
    BY <1>11
  <2> QED
    BY <1>9, <2>1, <2>2, MappedIsSeq
<1>15. Formed(P)
  BY <1>1, <1>6, <1>13, <1>14 DEF Formed
<1>16. PICK h \in Int : h = b.recorded_height + b.results
  BY <1>3, BlockFields
<1>17. PICK S : S = set_height(P, h)
  OBVIOUS
<1>18. Aside(P, S)
  <2>1. 1 \in Nat
    OBVIOUS
  <2> QED
    BY <1>15, <1>17, <2>1, HeightAside
<1>19. PICK x : x = EndInstr(b)
  OBVIOUS
<1>20. PICK N : N = LowerEnd(L)
  OBVIOUS
<1>21. N = push(S, x)
  <2>1. current(L) = m /\ curr_block(L) = b
    BY <1>2, <1>3 DEF current
  <2> QED
    BY <1>1, <1>4, <1>5, <1>7, <1>8, <1>9, <1>10, <1>11, <1>12, <1>16, <1>17, <1>19, <1>20, <2>1
       DEF LowerEnd
<1>22. Emitted(P, N, x)
  BY <1>18, <1>21, PushEmits
<1>23. PICK js : js = N.instructions
  OBVIOUS
<1>24. Longer(ks, x, js)
  <2>1. js = Append(ks, x)
    BY <1>13, <1>22, <1>23 DEF Emitted
  <2> QED
    BY <1>14, <2>1, AppendLonger
<1>25. js[n + 1] = x
  BY <1>14, <1>24 DEF Longer
<1>26. ASSUME NEW i \in 1 .. n
       PROVE  Alike(is[i], js[i])
  <2>1. js[i] = patched(is[i], i - 1, b, n)
    BY <1>10, <1>14, <1>24 DEF Longer
  <2>2. Patches(is[i], js[i], i, b, n)
    BY <2>1, PatchedCases
  <2> QED
    BY <2>2, PatchesAlike
<1>27. ASSUME NEW s \in 1 .. Len(bt)
       PROVE  SameCarry(bt[s], ct[s])
  <2>1. ct[s] = patched_arm(bt[s], s - 1, b, n)
    BY <1>9, <1>11
  <2> QED
    BY <2>1, ArmAlike
<1>28. L.max_height <= N.max_height /\ N.br_targets = ct
  BY <1>13, <1>22 DEF Emitted
<1>29. ASSUME m = 1
       PROVE  h <= N.max_height
  <2>1. Len(cs) = 0
    BY <1>6, <1>29
  <2>2. P.inner = <<>>
    BY <1>6, <1>13, <2>1
  <2>3. S = note_height(P, h)
    BY <1>17, <2>2 DEF set_height
  <2>4. S.curr_height = h /\ Formed(S)
    BY ZenonT(30), <1>15, <2>3, NoteShape
  <2>5. N.max_height = S.max_height
    BY <1>21, <2>4 DEF push, Formed
  <2> QED
    BY <2>4, <2>5 DEF Formed
<1> QED
  BY <1>2, <1>7, <1>8, <1>16, <1>19, <1>20, <1>23, <1>25, <1>26, <1>27, <1>28, <1>29 DEF EndEmitted

-----------------------------------------------------------------------------
(* One operator more.                                                       *)

(* What instruction x, emitted for operator o, has to say.                  *)
Says(o, v, w, x, ct) ==
  /\ o.op \notin Refilled => x = o
  /\ o.op = "End" /\ CanRun(w) => x.recorded_height + x.arity = w.height
  /\ o.op \in {"Br", "BrIf", "Return"} /\ CanRun(v) =>
       Carries(x, v.labels[IF o.op = "Return" THEN 1 ELSE Len(v.labels) - o.x])
  /\ o.op = "BrTable" =>
       /\ x.len = Len(o.arms)
       /\ CanRun(v) => \A a \in 1 .. Len(o.arms) :
                         Carries(ct[x.start_index + a], v.labels[Len(v.labels) - o.arms[a]])

LEMMA KnowsNew ==
  ASSUME NEW q, NEW v, Traced(q, v), NEW o, NEW r, r = Append(q, o), NEW w, w = Validated(v, o),
         NEW n \in Nat, n = Len(q), NEW js, NEW ct, Says(o, v, w, js[n + 1], ct)
  PROVE  Knows(r, js, ct, n + 1)
<1>1. IsSeq(q) /\ CheckedAt(q)[n] = v
  BY DEF Traced
<1>2. Longer(q, o, r)
  BY <1>1, AppendLonger
<1>3. Len(r) = n + 1 /\ r[n + 1] = o
  BY <1>2 DEF Longer
<1>4. CheckedAt(r)[n] = v /\ CheckedAt(r)[n + 1] = w
  <2>1. CheckedOn(CheckedAt(q), CheckedAt(r), Len(q), o)
    BY <1>1, CheckedExtends
  <2>2. n \in 0 .. Len(q)
    OBVIOUS
  <2> QED
    BY <1>1, <2>1, <2>2 DEF CheckedOn
<1>5. DepthAt(r)[n] = Len(v.labels)
  <2>1. Grown(DepthAt(q), DepthAt(r), Len(q), o)
    BY <1>1, DepthExtends
  <2>2. n \in 0 .. Len(q)
    OBVIOUS
  <2>3. DepthAt(r)[n] = DepthAt(q)[n]
    BY <2>1, <2>2 DEF Grown
  <2>4. \A i \in 0 .. Len(q) : Len(CheckedAt(q)[i].labels) = DepthAt(q)[i]
    BY ZenonT(30), TraceLevels
  <2>5. Len(CheckedAt(q)[n].labels) = DepthAt(q)[n]
    BY <2>2, <2>4
  <2> QED
    BY <1>1, <2>3, <2>5
<1>6. PICK i \in Nat : i = n + 1 /\ i - 1 = n
  <2>1. n + 1 \in Nat /\ (n + 1) - 1 = n
    OBVIOUS
  <2> QED
    BY <2>1
<1>7. ExitLevel(r, i) = IF o.op = "Return" THEN 1 ELSE Len(v.labels) - o.x
  BY <1>3, <1>5, <1>6 DEF ExitLevel
<1>8. \A a : ArmLevel(r, i, a) = Len(v.labels) - o.arms[a]
  BY <1>3, <1>5, <1>6 DEF ArmLevel
<1>9. PICK x : x = js[n + 1]
  OBVIOUS
<1>10. CheckedAt(r)[i - 1] = v /\ CheckedAt(r)[i] = w /\ r[i] = o /\ js[i] = x
  BY <1>3, <1>4, <1>6, <1>9
<1>11. Says(o, v, w, x, ct)
  BY <1>9
<1>12. Knows(r, js, ct, i)
  BY ONLY <1>7, <1>8, <1>10, <1>11 DEF Knows, Says
<1> QED
  BY <1>6, <1>12

LEMMA SizedNext ==
  ASSUME NEW q, NEW L, NEW v, NEW o, Ready(q, L, v, o), Sized(q, L, v),
         NEW r, r = Append(q, o), NEW w, w = Validated(v, o), NEW M, Tracks(M, w),
         Keeping(q, o, r, L.instructions, M.instructions, L.br_targets, M.br_targets),
         NEW n \in Nat, n = Len(q), Says(o, v, w, M.instructions[n + 1], M.br_targets),
         L.max_height <= M.max_height,
         w.labels = <<>> => w.height <= M.max_height
  PROVE  Sized(r, M, w)
<1>1. Traced(q, v) /\ IsSeq(q)
  BY DEF Sized, Traced
<1>2. Traced(r, w)
  <2>1. Reading(v, o)
    BY DEF Ready, Reading
  <2> QED
    BY <1>1, <2>1, TraceGrows
<1>3. Longer(q, o, r)
  BY <1>1, AppendLonger
<1>4. Len(r) = n + 1
  BY <1>3 DEF Longer
<1>5. CheckedOn(CheckedAt(q), CheckedAt(r), n, o)
  BY <1>1, CheckedExtends
<1>6. ASSUME NEW i \in 1 .. Len(r)
      PROVE  Knows(r, M.instructions, M.br_targets, i)
  <2>1. CASE i = n + 1
    BY <1>1, <2>1, KnowsNew
  <2>2. CASE i # n + 1
    <3>1. i \in 1 .. Len(q)
      BY <1>4, <2>2
    <3>2. /\ Lined(q, L.inner, L.instructions, L.br_targets)
          /\ Resolves(q, L.inner, L.instructions, L.br_targets, i)
      BY <3>1 DEF Ready, Held, Targets
    <3>3. IsOperator(q[i]) /\ Len(L.br_targets) \in Nat
      BY <3>1, <3>2 DEF Lined, IsSeq
    <3>4. TableOK(q, L.inner, L.instructions, L.br_targets, i)
      BY <3>2 DEF Resolves
    <3>5. Knows(q, L.instructions, L.br_targets, i)
      BY <3>1 DEF Sized
    <3> QED
      BY <3>1, <3>3, <3>4, <3>5, KnowsStill
  <2> QED
    BY <2>1, <2>2
<1>7. ReaderInv(v) /\ ReaderInv(w) /\ Formed(L) /\ Formed(M)
  BY <1>2 DEF Ready, Tracks, Traced
<1>8. ASSUME NEW i \in 0 .. Len(r), CanRun(CheckedAt(r)[i])
      PROVE  CheckedAt(r)[i].height <= M.max_height
  <2>1. CASE i = n + 1
    <3>1. CheckedAt(r)[i] = w
      <4>1. CheckedAt(r)[Len(r)] = w
        BY <1>2 DEF Traced
      <4> QED
        BY <1>4, <2>1, <4>1
    <3>2. CASE w.labels = <<>>
      BY <3>1, <3>2
    <3>3. CASE w.labels # <<>>
      <4>1. CanRun(w)
        BY <1>8, <3>1
      <4> QED
        BY <3>1, <3>3, <4>1, LiveHeight
    <3> QED
      BY <3>2, <3>3
  <2>2. CASE i # n + 1
    <3>1. i \in 0 .. n
      BY <1>4, <2>2
    <3>2. CheckedAt(r)[i] = CheckedAt(q)[i]
      BY <1>5, <3>1 DEF CheckedOn
    <3>3. CheckedAt(q)[i].height <= L.max_height
      BY <1>8, <3>1, <3>2 DEF Sized, Bounds
    <3>4. ReaderInv(CheckedAt(q)[i])
      BY <1>1, <3>1, TraceInv
    <3>5. PICK a \in Nat : a = CheckedAt(q)[i].height
      BY <3>4 DEF ReaderInv, Validator
    <3>6. PICK b \in Int, c \in Int : b = L.max_height /\ c = M.max_height
      BY <1>7 DEF Formed
    <3> QED
      BY <3>2, <3>3, <3>5, <3>6
  <2> QED
    BY <2>1, <2>2
<1> QED
  BY <1>2, <1>6, <1>8 DEF Sized, Bounds

LEMMA EmittedSized ==
  ASSUME NEW q, NEW L, NEW v, NEW o, Ready(q, L, v, o), Sized(q, L, v), o.op # "End",
         NEW r, r = Append(q, o), NEW w, w = Validated(v, o), NEW M, Tracks(M, w),
         NEW x, Emitted(L, M, x), Says(o, v, w, x, M.br_targets)
  PROVE  Sized(r, M, w)
<1>1. PICK is : is = L.instructions
  OBVIOUS
<1>2. PICK bt : bt = L.br_targets
  OBVIOUS
<1>3. PICK js : js = M.instructions
  OBVIOUS
<1>4. PICK n \in Nat : n = Len(q) /\ n = Len(is)
  BY <1>1, ReadyFacts DEF len
<1>5. /\ IsSeq(q) /\ IsSeq(is) /\ \A i \in 1 .. Len(q) : is[i].op = q[i].op
  BY <1>1, ReadyFacts DEF Lined
<1>6. Longer(is, x, js)
  <2>1. js = Append(is, x)
    BY <1>1, <1>3 DEF Emitted
  <2> QED
    BY <1>5, <2>1, AppendLonger
<1>7. js[n + 1] = x /\ \A i \in 1 .. n : js[i] = is[i]
  BY <1>4, <1>6 DEF Longer
<1>8. M.br_targets = bt /\ L.max_height <= M.max_height
  BY <1>2 DEF Emitted
<1>9. Keeping(q, o, r, is, js, bt, bt)
  <2>1. \A i \in 1 .. Len(q) : Alike(is[i], js[i])
    BY <1>4, <1>7 DEF Alike, SameCarry
  <2>2. \A s \in 1 .. Len(bt) : SameCarry(bt[s], bt[s])
    BY DEF SameCarry
  <2> QED
    BY <1>5, <2>1, <2>2 DEF Keeping
<1>10. w.labels # <<>>
  <2>1. Reading(v, o)
    BY DEF Ready, Reading
  <2>2. Len(w.labels) = Len(v.labels) + Delta(o) /\ Len(v.labels) \in Nat \ {0}
    BY <2>1, ReadLevels
  <2>3. PICK c \in {0, 1} : c = Delta(o)
    BY DEF Delta
  <2>4. Len(w.labels) # 0
    BY <2>2, <2>3
  <2> QED
    BY <2>4
<1> QED
  BY <1>1, <1>2, <1>3, <1>4, <1>7, <1>8, <1>9, <1>10, SizedNext

LEMMA PlainSized ==
  ASSUME NEW q, NEW L, NEW v, NEW o, Ready(q, L, v, o), Sized(q, L, v),
         NEW r, r = Append(q, o), NEW w, w = Validated(v, o)
  PROVE  /\ Plain(o) => Sized(r, LowerPlain(L, o), w)
         /\ o.op = "Call" => Sized(r, LowerCall(L, o), w)
         /\ o.op = "CallIndirect" => Sized(r, LowerCallIndirect(L, o), w)
<1>1. /\ Formed(L) /\ IsOperator(o) /\ Tracks(L, v) /\ ReaderInv(v) /\ v.labels # <<>>
      /\ Allowed(v, o)
  BY ReadyFacts DEF Ready
<1>2. o.ty[1] \in Nat /\ o.ty[2] \in Nat /\ 1 + o.ty[1] \in Nat
  BY <1>1, OperatorCases
<1>3. ASSUME Plain(o) \/ IsCall(o), NEW M, Tracks(M, w), Emitted(L, M, o)
      PROVE  Sized(r, M, w)
  <2>1. o.op \notin Refilled
    BY <1>1, <1>3, OperatorCases DEF IsCall, Refilled
  <2>2. Says(o, v, w, o, M.br_targets) /\ o.op # "End"
    BY <2>1 DEF Says, Refilled
  <2> QED
    BY <1>3, <2>2, EmittedSized
<1>4. ASSUME Plain(o)
      PROVE  Sized(r, LowerPlain(L, o), w)
  <2>1. Arity[o.op][1] \in Nat /\ Arity[o.op][2] \in Nat
    BY <1>4, ArityShape DEF Plain
  <2>2. Emitted(L, LowerPlain(L, o), o)
    BY <1>1, <2>1, PlainEmits DEF LowerPlain
  <2>3. Tracks(LowerPlain(L, o), w)
    BY <1>1, <1>4, PlainTracks
  <2> QED
    BY <1>3, <1>4, <2>2, <2>3
<1>5. ASSUME o.op = "Call"
      PROVE  Sized(r, LowerCall(L, o), w)
  <2>1. IsCall(o)
    BY <1>5 DEF IsCall
  <2>2. Emitted(L, LowerCall(L, o), o)
    BY <1>1, <1>2, PlainEmits DEF LowerCall
  <2>3. Tracks(LowerCall(L, o), w)
    BY <1>1, <1>5, <2>1, CallTracks
  <2> QED
    BY <1>3, <2>1, <2>2, <2>3
<1>6. ASSUME o.op = "CallIndirect"
      PROVE  Sized(r, LowerCallIndirect(L, o), w)
  <2>1. IsCall(o)
    BY <1>6 DEF IsCall
  <2>2. Emitted(L, LowerCallIndirect(L, o), o)
    BY <1>1, <1>2, PlainEmits DEF LowerCallIndirect
  <2>3. Tracks(LowerCallIndirect(L, o), w)
    BY <1>1, <1>6, <2>1, CallTracks
  <2> QED
    BY <1>3, <2>1, <2>2, <2>3
<1> QED
  BY <1>4, <1>5, <1>6

LEMMA BlocksSized ==
  ASSUME NEW q, NEW L, NEW v, NEW o, Ready(q, L, v, o), Sized(q, L, v),
         NEW r, r = Append(q, o), NEW w, w = Validated(v, o)
  PROVE  /\ o.op \in {"Block", "Loop"} => Sized(r, LowerBlock(L, o), w)
         /\ o.op = "If" => Sized(r, LowerIf(L, o), w)
         /\ o.op = "Else" => Sized(r, LowerElse(L), w)
         /\ o.op = "Unreachable" => Sized(r, LowerUnreachable(L), w)
<1>1. /\ Formed(L) /\ L.inner # <<>> /\ IsOperator(o) /\ Tracks(L, v) /\ ReaderInv(v)
      /\ v.labels # <<>> /\ Allowed(v, o)
  BY ReadyFacts DEF Ready
<1>2. ASSUME o.op \in {"Block", "Loop"}
      PROVE  Sized(r, LowerBlock(L, o), w)
  <2>1. Tracks(LowerBlock(L, o), w)
    BY <1>1, <1>2, BlockTracks
  <2>2. Emitted(L, LowerBlock(L, o), o)
    BY <1>1, <1>2, OpenersEmit DEF Openers
  <2>3. Says(o, v, w, o, LowerBlock(L, o).br_targets) /\ o.op # "End"
    BY <1>2 DEF Says, Refilled
  <2> QED
    BY <2>1, <2>2, <2>3, EmittedSized
<1>3. ASSUME o.op = "If"
      PROVE  Sized(r, LowerIf(L, o), w)
  <2>1. Tracks(LowerIf(L, o), w)
    BY <1>1, <1>3, IfTracks
  <2>2. Emitted(L, LowerIf(L, o), IfInstr)
    BY <1>1, <1>3, OpenersEmit DEF Openers
  <2>3. Says(o, v, w, IfInstr, LowerIf(L, o).br_targets) /\ o.op # "End"
    BY <1>3 DEF Says, Refilled
  <2> QED
    BY <2>1, <2>2, <2>3, EmittedSized
<1>4. ASSUME o.op = "Else"
      PROVE  Sized(r, LowerElse(L), w)
  <2>1. Tracks(LowerElse(L), w)
    BY <1>1, <1>4, ElseTracks
  <2>2. Emitted(L, LowerElse(L), ElseInstr)
    BY <1>1, ElseEmits
  <2>3. Says(o, v, w, ElseInstr, LowerElse(L).br_targets) /\ o.op # "End"
    BY <1>4 DEF Says, Refilled
  <2> QED
    BY <2>1, <2>2, <2>3, EmittedSized
<1>5. ASSUME o.op = "Unreachable"
      PROVE  Sized(r, LowerUnreachable(L), w)
  <2>1. Tracks(LowerUnreachable(L), w)
    BY <1>1, <1>5, TrapTracks
  <2>2. PICK x : x = [op |-> "Unreachable"]
    OBVIOUS
  <2>3. Emitted(L, LowerUnreachable(L), x)
    BY <1>1, <2>2, TrapEmits
  <2>4. Says(o, v, w, x, LowerUnreachable(L).br_targets) /\ o.op # "End"
    BY <1>5 DEF Says, Refilled
  <2> QED
    BY <2>1, <2>3, <2>4, EmittedSized
<1> QED
  BY <1>2, <1>3, <1>4, <1>5

(* A jump to a block of live code carries what its label says.              *)
LEMMA BlockCarries ==
  ASSUME NEW q, NEW L, NEW v, NEW o, Ready(q, L, v, o), CanRun(v),
         NEW k \in 1 .. Len(L.inner), NEW b, b = L.inner[k], NEW op, NEW t
  PROVE  Carries(Jump(op, t, branch_arity(b), b.recorded_height), v.labels[k])
<1>1. PICK l : l = v.labels[k]
  OBVIOUS
<1>2. b.recorded_height = l.height /\ b.params = l.params /\ b.results = l.results
  BY <1>1, LiveBlock DEF Ready
<1>3. b.kind = "Loop" <=> l.kind = "Loop"
  <2>1. Stands(q, v.labels, L.inner, k)
    BY DEF Ready, Held, Targets
  <2> QED
    BY <1>1, <2>1 DEF Stands
<1>4. branch_arity(b) = BranchArity(l)
  BY <1>2, <1>3 DEF branch_arity, BranchArity
<1>5. PICK x : x = Jump(op, t, branch_arity(b), b.recorded_height)
  OBVIOUS
<1>6. /\ {"arity", "recorded_height"} \subseteq DOMAIN x
      /\ x.arity = branch_arity(b) /\ x.recorded_height = b.recorded_height
  BY <1>5 DEF Jump
<1> QED
  BY <1>1, <1>2, <1>4, <1>5, <1>6 DEF Carries

LEMMA JumpSized ==
  ASSUME NEW q, NEW L, NEW v, NEW o, Ready(q, L, v, o), Sized(q, L, v),
         NEW r, r = Append(q, o), NEW w, w = Validated(v, o),
         o.op \in {"Br", "BrIf", "Return"}, NEW k \in 1 .. Len(L.inner),
         k = (IF o.op = "Return" THEN 1 ELSE Len(L.inner) - o.x), NEW b, b = L.inner[k],
         NEW M, Tracks(M, w), Emitted(L, M, JumpInstr(o.op, b))
  PROVE  Sized(r, M, w)
<1>1. PICK x : x = JumpInstr(o.op, b)
  OBVIOUS
<1>2. CanRun(v) => Carries(x, v.labels[k])
  BY <1>1, BlockCarries DEF JumpInstr
<1>3. k = IF o.op = "Return" THEN 1 ELSE Len(v.labels) - o.x
  BY ReadyFacts
<1>4. Says(o, v, w, x, M.br_targets) /\ o.op # "End"
  BY <1>2, <1>3 DEF Says, Refilled
<1> QED
  BY <1>1, <1>4, EmittedSized

LEMMA BranchesSized ==
  ASSUME NEW q, NEW L, NEW v, NEW o, Ready(q, L, v, o), Sized(q, L, v),
         NEW r, r = Append(q, o), NEW w, w = Validated(v, o)
  PROVE  /\ o.op = "Br" => Sized(r, LowerBr(L, o.x), w)
         /\ o.op = "BrIf" => Sized(r, LowerBrIf(L, o.x), w)
         /\ o.op = "Return" => Sized(r, LowerReturn(L), w)
<1>1. /\ Formed(L) /\ L.inner # <<>> /\ IsOperator(o) /\ Tracks(L, v) /\ ReaderInv(v)
      /\ v.labels # <<>> /\ Allowed(v, o) /\ Len(L.inner) \in Nat \ {0}
  BY ReadyFacts DEF Ready
<1>2. ASSUME o.op \in {"Br", "BrIf"}
      PROVE  block_at(L, o.x) \in 1 .. Len(L.inner) /\ block_at(L, o.x) = Len(L.inner) - o.x
  <2>1. o.x \in Nat
    BY <1>1, <1>2 DEF IsOperator
  <2>2. o.x \in Depths(o)
    BY <1>2 DEF Depths
  <2>3. o.x < Len(v.labels)
    BY <1>1, <1>2, <2>2, AllowedCases
  <2> QED
    BY <2>1, <2>3, BranchLevel
<1>3. ASSUME o.op = "Br"
      PROVE  Sized(r, LowerBr(L, o.x), w)
  <2>1. PICK k \in 1 .. Len(L.inner) : k = block_at(L, o.x) /\ k = Len(L.inner) - o.x
    BY <1>2, <1>3
  <2>2. Emitted(L, LowerBr(L, o.x), JumpInstr("Br", L.inner[k]))
    BY <1>1, <2>1, JumpEmits DEF LowerBr
  <2>3. Tracks(LowerBr(L, o.x), w)
    BY <1>1, <1>3, BrTracks
  <2> QED
    BY <1>3, <2>1, <2>2, <2>3, JumpSized
<1>4. ASSUME o.op = "BrIf"
      PROVE  Sized(r, LowerBrIf(L, o.x), w)
  <2>1. PICK k \in 1 .. Len(L.inner) : k = block_at(L, o.x) /\ k = Len(L.inner) - o.x
    BY <1>2, <1>4
  <2>2. Emitted(L, LowerBrIf(L, o.x), JumpInstr("BrIf", L.inner[k]))
    BY <1>1, <2>1, JumpEmits DEF LowerBrIf
  <2>3. Tracks(LowerBrIf(L, o.x), w)
    BY <1>1, <1>4, BrIfTracks
  <2> QED
    BY <1>4, <2>1, <2>2, <2>3, JumpSized
<1>5. ASSUME o.op = "Return"
      PROVE  Sized(r, LowerReturn(L), w)
  <2>1. PICK k \in 1 .. Len(L.inner) : k = 1
    BY <1>1
  <2>2. Emitted(L, LowerReturn(L), JumpInstr("Return", L.inner[k]))
    BY <1>1, <2>1, JumpEmits DEF LowerReturn
  <2>3. Tracks(LowerReturn(L), w)
    BY <1>1, <1>5, ReturnTracks
  <2> QED
    BY <1>5, <2>1, <2>2, <2>3, JumpSized
<1> QED
  BY <1>3, <1>4, <1>5

LEMMA TableSized ==
  ASSUME NEW q, NEW L, NEW v, NEW o, Ready(q, L, v, o), Sized(q, L, v), o.op = "BrTable",
         NEW r, r = Append(q, o), NEW w, w = Validated(v, o)
  PROVE  Sized(r, LowerBrTable(L, o.arms), w)
<1>1. /\ Formed(L) /\ L.inner # <<>> /\ IsOperator(o) /\ Tracks(L, v) /\ ReaderInv(v)
      /\ v.labels # <<>> /\ Allowed(v, o) /\ Len(v.labels) = Len(L.inner)
  BY ReadyFacts DEF Ready
<1>2. PICK depths \in Seq(Nat) : depths = o.arms
  BY <1>1 DEF IsOperator
<1>3. PICK m \in Nat : m = Len(depths)
  OBVIOUS
<1>4. PICK is : is = L.instructions
  OBVIOUS
<1>5. PICK bt : bt = L.br_targets
  OBVIOUS
<1>6. PICK s \in Nat : s = Len(bt)
  BY <1>1, <1>5 DEF Formed, IsSeq
<1>7. PICK M : M = LowerBrTable(L, depths)
  OBVIOUS
<1>8. TableEmitted(L, M, depths, m, s)
  BY <1>2, <1>3, <1>5, <1>6, <1>7, TableEmits
<1>9. PICK x : x = BrTableInstr(s, m)
  OBVIOUS
<1>10. PICK js : js = M.instructions
  OBVIOUS
<1>11. PICK ct : ct = M.br_targets
  OBVIOUS
<1>12. PICK n \in Nat : n = Len(q) /\ n = Len(is)
  BY <1>4, ReadyFacts DEF len
<1>13. /\ IsSeq(q) /\ IsSeq(is) /\ \A i \in 1 .. Len(q) : is[i].op = q[i].op
  BY <1>4, ReadyFacts DEF Lined
<1>14. Longer(is, x, js)
  <2>1. js = Append(is, x)
    BY <1>4, <1>8, <1>9, <1>10 DEF TableEmitted
  <2> QED
    BY <1>13, <2>1, AppendLonger
<1>15. js[n + 1] = x /\ \A i \in 1 .. n : js[i] = is[i]
  BY <1>12, <1>14 DEF Longer
<1>16. Keeping(q, o, r, is, js, bt, ct)
  <2>1. \A i \in 1 .. Len(q) : Alike(is[i], js[i])
    BY <1>12, <1>15 DEF Alike, SameCarry
  <2>2. \A a \in 1 .. Len(bt) : ct[a] = bt[a]
    BY <1>5, <1>6, <1>8, <1>11 DEF TableEmitted
  <2>3. \A a \in 1 .. Len(bt) : SameCarry(bt[a], ct[a])
    BY <2>2 DEF SameCarry
  <2> QED
    BY <1>13, <2>1, <2>3 DEF Keeping
<1>17. ASSUME CanRun(v), NEW a \in 1 .. m
       PROVE  Carries(ct[s + a], v.labels[Len(v.labels) - depths[a]])
  <2>1. depths[a] \in Nat /\ depths[a] \in Depths(o)
    BY <1>2, <1>3 DEF Depths
  <2>2. depths[a] < Len(v.labels)
    BY <1>1, <2>1, AllowedCases
  <2>3. PICK k \in 1 .. Len(L.inner) : k = block_at(L, depths[a]) /\ k = Len(L.inner) - depths[a]
    BY <2>1, <2>2, BranchLevel
  <2>4. PICK b : b = L.inner[k]
    OBVIOUS
  <2>5. ct[s + a] = Jump("Arm", branch_target(b), branch_arity(b), b.recorded_height)
    BY <1>8, <1>11, <2>3, <2>4 DEF TableEmitted, arm_at
  <2> QED
    BY ZenonT(30), <1>1, <1>17, <2>3, <2>4, <2>5, BlockCarries
<1>18. x.len = m /\ x.start_index = s
  BY <1>9 DEF BrTableInstr
<1>19. Says(o, v, w, x, ct)
  BY <1>2, <1>3, <1>17, <1>18 DEF Says, Refilled
<1>20. Tracks(M, w)
  BY <1>1, <1>2, <1>7, BrTableTracks
<1>21. w.labels # <<>>
  <2>1. Reading(v, o)
    BY DEF Ready, Reading
  <2>2. Len(w.labels) = Len(v.labels) + Delta(o) /\ Len(v.labels) \in Nat \ {0}
    BY <2>1, ReadLevels
  <2>3. Delta(o) = 0
    BY DEF Delta, Opens, Openers
  <2>4. Len(w.labels) # 0
    BY <2>2, <2>3
  <2> QED
    BY <2>4
<1>22. L.max_height <= M.max_height
  BY <1>8 DEF TableEmitted
<1>23. Says(o, v, w, js[n + 1], ct)
  BY <1>15, <1>19
<1> QED
  BY <1>2, <1>4, <1>5, <1>7, <1>10, <1>11, <1>12, <1>16, <1>20, <1>21, <1>22, <1>23, SizedNext

LEMMA EndSized ==
  ASSUME NEW q, NEW L, NEW v, NEW o, Ready(q, L, v, o), Sized(q, L, v), o.op = "End",
         NEW r, r = Append(q, o), NEW w, w = Validated(v, o)
  PROVE  Sized(r, LowerEnd(L), w)
<1>1. /\ Formed(L) /\ L.inner # <<>> /\ IsOperator(o) /\ Tracks(L, v) /\ ReaderInv(v)
      /\ v.labels # <<>> /\ Allowed(v, o) /\ Fits(L.inner, v.labels)
  BY ReadyFacts DEF Ready, Tracks
<1>2. PICK m \in Nat \ {0} : m = Len(L.inner) /\ m = Len(v.labels)
  BY ReadyFacts
<1>3. PICK b : b = curr_block(L) /\ b = L.inner[m] /\ b \in StackBlock
  BY <1>1, <1>2, Blocks
<1>4. PICK n \in Nat : n = Len(q)
  BY ReadyFacts
<1>5. PICK M : M = LowerEnd(L)
  OBVIOUS
<1>6. EndEmitted(L, M, b, n)
  BY <1>3, <1>4, <1>5, EndEmits
<1>7. PICK l : l = v.labels[m]
  OBVIOUS
<1>8. LabelClosed(v, w, m)
  <2>1. Reading(v, o)
    BY DEF Ready, Reading
  <2> QED
    BY <1>2, <2>1, EndReads
<1>9. FitsAt(L.inner, l, m)
  BY <1>1, <1>2, <1>7 DEF Fits
<1>10. CanRun(w) => b.recorded_height + b.results = w.height
  <2>1. HAVE CanRun(w)
  <2>2. PICK k \in Nat : k = m - 1 /\ k <= m
    <3>1. m - 1 \in Nat /\ m - 1 <= m
      OBVIOUS
    <3> QED
      BY <3>1
  <2>3. \A j \in 1 .. k : ~v.labels[j].unreachable
    BY <1>8, <2>1, <2>2 DEF LabelClosed, CanRun, Within
  <2>4. Len(L.inner) \in Nat /\ k <= Len(L.inner)
    BY <1>2, <2>2
  <2>5. \A j \in 1 .. k : ~L.inner[j].is_unreachable_traversing
    BY <1>1, <2>3, <2>4, NoneDeadTo
  <2>6. ~b.has_inherited
    BY <1>3, <1>9, <2>2, <2>5 DEF FitsAt
  <2>7. b.recorded_height = l.height /\ b.results = l.results
    BY <1>3, <1>9, <2>6 DEF FitsAt
  <2> QED
    BY <1>7, <1>8, <2>7 DEF LabelClosed
<1>11. Says(o, v, w, M.instructions[n + 1], M.br_targets)
  <2>1. PICK x : x = EndInstr(b)
    OBVIOUS
  <2>2. x.recorded_height = b.recorded_height /\ x.arity = b.results
    BY <2>1 DEF EndInstr
  <2>3. M.instructions[n + 1] = x
    BY <1>6, <2>1 DEF EndEmitted
  <2> QED
    BY <1>10, <2>2, <2>3 DEF Says, Refilled
<1>12. Keeping(q, o, r, L.instructions, M.instructions, L.br_targets, M.br_targets)
  <2>1. IsSeq(q) /\ \A i \in 1 .. Len(q) : L.instructions[i].op = q[i].op
    BY ReadyFacts DEF Lined
  <2> QED
    BY <1>4, <1>6, <2>1 DEF Keeping, EndEmitted
<1>13. Tracks(M, w)
  BY <1>1, <1>5, EndTracks
<1>14. w.labels = <<>> => w.height <= M.max_height
  <2>1. HAVE w.labels = <<>>
  <2>2. Len(w.labels) = 0
    BY <2>1
  <2>3. m = 1
    BY <1>8, <2>2 DEF LabelClosed
  <2>4. CanRun(w)
    BY <2>2 DEF CanRun
  <2> QED
    BY <1>2, <1>6, <1>10, <2>3, <2>4 DEF EndEmitted
<1>15. L.max_height <= M.max_height
  BY <1>6 DEF EndEmitted
<1> QED
  BY <1>4, <1>5, <1>11, <1>12, <1>13, <1>14, <1>15, SizedNext

-----------------------------------------------------------------------------
(* The pass.                                                                *)
SizeInv ==
  /\ BranchInv
  /\ Sized(ops, lowering, valid)
  /\ \A i \in 1 .. Len(ops) : ops[i] \in Alphabets[alphabet].ops

LEMMA LowerSizes ==
  ASSUME SizeInv, NEW o \in Alphabets[alphabet].ops, Lower(o)
  PROVE  SizeInv'
<1>1. BranchInv /\ HeightInv /\ Sized(ops, lowering, valid)
  BY DEF SizeInv, BranchInv
<1>2. BranchInv'
  BY <1>1, LowerHolds
<1>3. Reads(o)
  BY DEF Lower, Plainly, Call, CallIndirect, Block, If, Else, Br, BrIf, BrTable, Return, Trap, End
<1>4. /\ IsOperator(o) /\ Allowed(valid, o) /\ valid.labels # <<>>
      /\ ReaderInv(valid) /\ Tracks(lowering, valid)
      /\ valid' = Validated(valid, o)
  BY <1>1, <1>3, ReadGives
<1>5. Ready(ops, lowering, valid, o)
  BY <1>1, <1>4 DEF Ready, Held, BranchInv
<1>6. PICK r : r = ops' /\ r = Append(ops, o)
  BY <1>3 DEF Reads, ReadsOperator
<1>7. PICK w : w = valid' /\ w = Validated(valid, o)
  BY <1>4
<1>8. \A i \in 1 .. Len(r) : r[i] \in Alphabets[alphabet]'.ops
  <2>1. IsSeq(ops) /\ \A i \in 1 .. Len(ops) : ops[i] \in Alphabets[alphabet].ops
    BY <1>1 DEF SizeInv, Sized, Traced
  <2>2. Longer(ops, o, r)
    BY <1>6, <2>1, AppendLonger
  <2>3. \A i \in 1 .. Len(r) : i \in 1 .. Len(ops) \/ i = Len(r)
    BY <2>2 DEF Longer
  <2>4. Alphabets[alphabet]' = Alphabets[alphabet]
    BY <1>3 DEF Reads, ReadsOperator
  <2> QED
    BY <2>1, <2>2, <2>3, <2>4 DEF Longer
<1>9. Sized(r, lowering', w)
  <2>1. CASE Plainly(o)
    BY <1>1, <1>5, <1>6, <1>7, <2>1, PlainSized DEF Plainly
  <2>2. CASE Call(o)
    BY <1>1, <1>5, <1>6, <1>7, <2>2, PlainSized DEF Call
  <2>3. CASE CallIndirect(o)
    BY <1>1, <1>5, <1>6, <1>7, <2>3, PlainSized DEF CallIndirect
  <2>4. CASE Block(o)
    BY <1>1, <1>5, <1>6, <1>7, <2>4, BlocksSized DEF Block
  <2>5. CASE If(o)
    BY <1>1, <1>5, <1>6, <1>7, <2>5, BlocksSized DEF If
  <2>6. CASE Else(o)
    BY <1>1, <1>5, <1>6, <1>7, <2>6, BlocksSized DEF Else
  <2>7. CASE End(o)
    BY <1>1, <1>5, <1>6, <1>7, <2>7, EndSized DEF End
  <2>8. CASE Br(o)
    BY <1>1, <1>5, <1>6, <1>7, <2>8, BranchesSized DEF Br
  <2>9. CASE BrIf(o)
    BY <1>1, <1>5, <1>6, <1>7, <2>9, BranchesSized DEF BrIf
  <2>10. CASE BrTable(o)
    BY <1>1, <1>5, <1>6, <1>7, <2>10, TableSized DEF BrTable
  <2>11. CASE Return(o)
    BY <1>1, <1>5, <1>6, <1>7, <2>11, BranchesSized DEF Return
  <2>12. CASE Trap(o)
    BY <1>1, <1>5, <1>6, <1>7, <2>12, BlocksSized DEF Trap
  <2> QED
    BY <2>1, <2>2, <2>3, <2>4, <2>5, <2>6, <2>7, <2>8, <2>9, <2>10, <2>11, <2>12 DEF Lower
<1> QED
  BY <1>2, <1>6, <1>7, <1>8, <1>9 DEF SizeInv

LEMMA SizeStarts ==
  ASSUME Start
  PROVE  SizeInv
<1>1. BranchInv
  BY BranchStarts
<1>2. ops = <<>> /\ valid = NewValidator /\ lowering = NewLowering
  BY DEF Start, Init, ReaderInit
<1>3. Traced(ops, valid)
  BY <1>2, TraceStarts
<1>4. Len(ops) = 0
  BY <1>2
<1>5. Bounds(ops, lowering.max_height)
  <2>1. lowering.max_height = 0
    BY <1>2 DEF NewLowering
  <2>2. CheckedAt(ops)[0] = NewValidator
    BY <1>2, <1>3, <1>4 DEF Traced
  <2>3. NewValidator.height = 0
    BY DEF NewValidator
  <2>4. \A i \in 0 .. Len(ops) : i = 0
    BY <1>4
  <2> QED
    BY <2>1, <2>2, <2>3, <2>4 DEF Bounds
<1> QED
  BY <1>1, <1>3, <1>4, <1>5 DEF SizeInv, Sized

LEMMA SizeGoesOn ==
  ASSUME SizeInv, [Next]_vars
  PROVE  SizeInv'
<1>1. CASE Lowering
  BY <1>1, LowerSizes DEF Lowering
<1>2. CASE UNCHANGED <<alphabet, ops, valid, lowering>>
  <2>1. BranchInv'
    BY BranchGoesOn DEF SizeInv
  <2> QED
    BY <1>2, <2>1 DEF SizeInv
<1>3. Finishing => UNCHANGED <<alphabet, ops, valid, lowering>>
  BY DEF Finishing, Finish, readerVars
<1>4. Invoke => UNCHANGED <<alphabet, ops, valid, lowering>>
  BY DEF Invoke, loweringVars, readerVars
<1>5. Execute => UNCHANGED <<alphabet, ops, valid, lowering>>
  BY DEF Execute, Const, LocalGet, LocalSet, LocalTee, GlobalGet, GlobalSet, Numeric, Drop,
         Marker, ImportedCall, LocalCall, CallTrap, UnreachableStep, IfStep, ElseStep, BrStep,
         BrIfStep, BrTableStep, Returns, Next1, Goto, Trapped, loweringVars, readerVars
<1>6. UNCHANGED vars => UNCHANGED <<alphabet, ops, valid, lowering>>
  BY DEF vars, loweringVars, readerVars
<1> QED
  BY <1>1, <1>2, <1>3, <1>4, <1>5, <1>6 DEF Next

-----------------------------------------------------------------------------
(* Where the jumps of a lowered body take a run.                            *)
LEMMA OpenedKind ==
  ASSUME NEW q, NEW v, Traced(q, v), NEW vs, vs = CheckedAt(q),
         NEW p, NEW i, NEW k, OpenAt(q, p, i, k), NEW l, l = vs[i].labels[k]
  PROVE  l.kind = "Loop" <=> IsLoop(q, p)
<1>1. PICK n \in Nat : n = Len(q) /\ i \in 0 .. n /\ p \in 0 .. i
  BY DEF Traced, IsSeq, OpenAt
<1>2. /\ k \in Nat \ {0} /\ Len(vs[p].labels) = k /\ Stays(vs[p], vs[i], k)
  BY TraceStays
<1>3. vs[p].labels[k].kind = "Loop" <=> l.kind = "Loop"
  BY <1>2 DEF Stays
<1>4. CASE p = 0
  <2>1. vs[0] = NewValidator
    BY <1>1, CheckedSteps
  <2>2. k = 1 /\ vs[p].labels[k].kind = "Func"
    BY <1>2, <1>4, <2>1 DEF NewValidator, Label
  <2> QED
    BY <1>3, <1>4, <2>2 DEF IsLoop
<1>5. CASE p # 0
  <2>1. p \in 1 .. Len(q)
    BY <1>1, <1>5
  <2>2. Opens(q[p])
    BY <1>5 DEF OpenAt
  <2>3. Reading(vs[p - 1], q[p]) /\ vs[p] = Validated(vs[p - 1], q[p])
    BY <2>1, TraceReads
  <2>4. PICK m : m = Len(vs[p - 1].labels)
    OBVIOUS
  <2>5. LabelOpened(vs[p - 1], vs[p], q[p], m)
    BY <2>2, <2>3, <2>4, OpenerReads DEF Opens
  <2>6. vs[p].labels[k].kind = q[p].op
    BY <1>2, <2>5 DEF LabelOpened
  <2> QED
    BY <1>3, <1>5, <2>6 DEF IsLoop
<1> QED
  BY <1>4, <1>5

LEMMA JumpArrives ==
  ASSUME NEW q, NEW v, Traced(q, v), NEW vs, vs = CheckedAt(q), NEW bs, Len(bs) = 0,
         NEW t, NEW i \in 1 .. Len(q), NEW slot, NEW k, Lands(q, bs, t, i, slot, k),
         CanRun(vs[i - 1]), NEW l, l = vs[i - 1].labels[k]
  PROVE  Position(q, t, l.height + BranchArity(l))
<1>1. Awaited(bs, i, slot) = {}
  BY DEF Awaited
<1>2. PICK p \in 0 .. i - 1 :
        /\ OpenAt(q, p, i - 1, k)
        /\ \/ IsLoop(q, p) /\ t = p - 1
           \/ ~IsLoop(q, p) /\ \E e \in i .. Len(q) : ClosedAt(q, p, e, k) /\ t = e - 1
  BY <1>1 DEF Lands
<1>3. l.kind = "Loop" <=> IsLoop(q, p)
  BY <1>2, OpenedKind
<1>4. CASE IsLoop(q, p)
  <2>1. p # 0 /\ q[p].op = "Loop" /\ t = p - 1
    BY <1>2, <1>4 DEF IsLoop
  <2>2. PICK j : j = i - 1
    OBVIOUS
  <2>3. OpenAt(q, p, j, k) /\ CanRun(vs[j]) /\ l = vs[j].labels[k]
    BY <1>2, <2>2
  <2>4. Position(q, p - 1, l.height + l.params)
    BY <2>1, <2>3, OpensLive
  <2> QED
    BY <1>3, <1>4, <2>1, <2>4 DEF BranchArity
<1>5. CASE ~IsLoop(q, p)
  <2>1. PICK e \in i .. Len(q) : ClosedAt(q, p, e, k) /\ t = e - 1
    BY <1>2, <1>5
  <2>2. PICK j : j = i - 1
    OBVIOUS
  <2>3. OpenAt(q, p, j, k) /\ CanRun(vs[j]) /\ l = vs[j].labels[k]
    BY <1>2, <2>2
  <2>4. Position(q, e - 1, l.height + l.results)
    BY <2>1, <2>3, ClosesLive
  <2> QED
    BY <1>3, <1>5, <2>1, <2>4 DEF BranchArity
<1> QED
  BY <1>4, <1>5

(* A run of a lowered body, with n operators behind it and h operands.      *)
Meets(n, h) ==
  /\ SizeInv /\ status = "lowered"
  /\ Position(ops, n, h) /\ n < Len(code)

Facts(i, h, o, c) ==
  /\ i \in 1 .. Len(ops) /\ Traced(ops, valid) /\ Whole /\ h \in Nat
  /\ o = ops[i] /\ IsOperator(o) /\ o \in Alphabets[alphabet].ops /\ c.op = o.op /\ c = code[i]
  /\ Knows(ops, code, lowering.br_targets, i)
  /\ Resolves(ops, lowering.inner, code, lowering.br_targets, i)
  /\ Len(lowering.inner) = 0
  /\ LET u == CheckedAt(ops)[i - 1] IN
     o.op # "End" => CanRun(u) /\ h = u.height /\ Reading(u, o)

LEMMA MeetsFacts ==
  ASSUME NEW n, NEW h, Meets(n, h), NEW i, i = n + 1, NEW o, o = ops[i], NEW c, c = code[i]
  PROVE  Facts(i, h, o, c) /\ n = i - 1
<1>1. SizeInv /\ BranchInv /\ status = "lowered" /\ Position(ops, n, h) /\ n < Len(code)
  BY DEF Meets, SizeInv
<1>2. Whole /\ Len(lowering.inner) = 0
  BY <1>1, LoweredIsWhole
<1>3. /\ Lined(ops, lowering.inner, code, lowering.br_targets)
      /\ \A j \in 1 .. Len(ops) : Resolves(ops, lowering.inner, code, lowering.br_targets, j)
  BY <1>1 DEF BranchInv, Targets, code
<1>4. PICK m \in Nat : m = Len(ops) /\ m = Len(code)
  BY <1>3 DEF Lined, IsSeq
<1>5. n \in 0 .. m /\ n < m
  BY <1>1, <1>4 DEF Position
<1>6. i \in 1 .. m /\ n = i - 1
  BY <1>5
<1>7. IsOperator(o) /\ c.op = o.op
  BY <1>3, <1>4, <1>6 DEF Lined
<1>8. /\ Traced(ops, valid) /\ Knows(ops, code, lowering.br_targets, i)
      /\ o \in Alphabets[alphabet].ops
  BY <1>1, <1>4, <1>6 DEF SizeInv, Sized, code
<1>9. PICK vs : vs = CheckedAt(ops)
  OBVIOUS
<1>10. o.op # "End" => CanRun(vs[n]) /\ h = vs[n].height
  <2>1. n < Len(ops) /\ o = ops[n + 1]
    BY <1>4, <1>5
  <2> QED
    BY <1>1, <1>9, <2>1, StandsAt
<1>11. Reading(vs[n], o)
  BY <1>4, <1>6, <1>8, <1>9, TraceReads
<1>12. h \in Nat
  <2>1. PICK j \in 0 .. Len(ops) : h = vs[j].height
    <3>1. Comes(ops, n) \in 0 .. Len(ops)
      BY <1>4, <1>5, <1>6 DEF Comes
    <3> QED
      BY <1>1, <1>9, <3>1 DEF Position
  <2>2. ReaderInv(vs[j])
    BY <1>8, <1>9, TraceInv
  <2> QED
    BY <2>1, <2>2 DEF ReaderInv, Validator
<1>13. Resolves(ops, lowering.inner, code, lowering.br_targets, i)
  BY <1>3, <1>4, <1>6
<1> QED
  BY <1>2, <1>4, <1>6, <1>7, <1>8, <1>9, <1>10, <1>11, <1>12, <1>13 DEF Facts

(* Operands popped and pushed in passing.                                   *)
Passes(i, h, popped, pushed) ==
  h - popped \in Nat /\ Position(ops, i, h - popped + pushed)

LEMMA PassesOn ==
  ASSUME NEW i, NEW h, NEW o, NEW c, Facts(i, h, o, c), o.op # "End"
  PROVE  /\ Plain(o) => Passes(i, h, Arity[o.op][1], Arity[o.op][2])
         /\ IsCall(o) => Passes(i, h, CallPops(o), o.ty[2])
         /\ o.op = "BrIf" => Passes(i, h, 1, 0)
         /\ o.op \in {"Block", "Loop"} => Passes(i, h, 0, 0)
         /\ o.op = "If" => Passes(i, h, 1, 0)
<1>1. PICK vs : vs = CheckedAt(ops)
  OBVIOUS
<1>2. /\ i \in 1 .. Len(ops) /\ Traced(ops, valid) /\ o = ops[i]
      /\ CanRun(vs[i - 1]) /\ h = vs[i - 1].height
  BY <1>1 DEF Facts
<1>3. \A a, b : Runs(ops, i, a, b) => Passes(i, h, a, b)
  BY <1>1, <1>2 DEF Runs, Passes
<1>4. /\ Plain(o) => Runs(ops, i, Arity[o.op][1], Arity[o.op][2])
      /\ IsCall(o) => Runs(ops, i, CallPops(o), o.ty[2])
      /\ o.op = "BrIf" => Runs(ops, i, 1, 0)
  BY <1>1, <1>2, RunsOn
<1>5. o.op \in Openers => Runs(ops, i, IF o.op = "If" THEN 1 ELSE 0, 0)
  BY <1>1, <1>2, RunsIn
<1> QED
  BY <1>3, <1>4, <1>5 DEF Openers

LEMMA PassesEnd ==
  ASSUME NEW i, NEW h, NEW o, NEW c, Facts(i, h, o, c), o.op = "End", Position(ops, i - 1, h)
  PROVE  Position(ops, i, h) /\ h = c.recorded_height + c.arity
<1>1. PICK vs : vs = CheckedAt(ops)
  OBVIOUS
<1>2. /\ i \in 1 .. Len(ops) /\ Traced(ops, valid) /\ o = ops[i] /\ c = code[i]
      /\ Knows(ops, code, lowering.br_targets, i)
  BY DEF Facts
<1>3. PICK n \in Nat : n = i - 1 /\ i = n + 1 /\ n < Len(ops)
  <2>1. Len(ops) \in Nat
    BY <1>2 DEF Traced, IsSeq
  <2>2. i - 1 \in Nat /\ i = (i - 1) + 1 /\ i - 1 < Len(ops)
    BY <1>2, <2>1
  <2> QED
    BY <2>2
<1>4. CanRun(vs[n + 1]) /\ h = vs[n + 1].height
  BY <1>1, <1>2, <1>3, StandsAt
<1>5. i \in 0 .. Len(ops)
  BY <1>2
<1>6. Position(ops, i, vs[i].height)
  BY <1>1, <1>2, <1>3, <1>4, <1>5, Arrives
<1>7. c.recorded_height + c.arity = vs[i].height
  BY <1>1, <1>2, <1>3, <1>4 DEF Knows
<1> QED
  BY <1>3, <1>4, <1>6, <1>7

(* Branches: what they carry is there, and goes where it should.            *)
Goes(jump, h) ==
  /\ jump.arity \in Nat /\ jump.recorded_height \in Nat
  /\ jump.recorded_height + jump.arity <= h
  /\ Position(ops, jump.target_index, jump.recorded_height + jump.arity)

LEMMA CarriesGoes ==
  ASSUME NEW u, NEW h \in Nat, h = u.height, NEW c \in Nat, NEW l, Fitting(u, l, c),
         NEW jump, Carries(jump, l), Position(ops, jump.target_index, l.height + BranchArity(l))
  PROVE  Goes(jump, h - c)
<1>1. l \in ValidatorLabel /\ l.height + BranchArity(l) <= h - c
  BY DEF Fitting
<1>2. l.height \in Nat /\ BranchArity(l) \in Nat
  BY <1>1, LabelFields DEF BranchArity
<1>3. jump.arity = BranchArity(l) /\ jump.recorded_height = l.height
  BY DEF Carries
<1> QED
  BY <1>1, <1>2, <1>3 DEF Goes

LEMMA JumpsGo ==
  ASSUME NEW i, NEW h, NEW o, NEW c, Facts(i, h, o, c), o.op \in {"Br", "BrIf", "Return"}
  PROVE  Goes(c, h - (IF o.op = "BrIf" THEN 1 ELSE 0))
<1>1. PICK vs : vs = CheckedAt(ops)
  OBVIOUS
<1>2. PICK u : u = vs[i - 1]
  OBVIOUS
<1>3. /\ i \in 1 .. Len(ops) /\ Traced(ops, valid) /\ o = ops[i] /\ c = code[i] /\ h \in Nat
      /\ CanRun(u) /\ h = u.height /\ Reading(u, o)
      /\ Knows(ops, code, lowering.br_targets, i)
      /\ Resolves(ops, lowering.inner, code, lowering.br_targets, i)
  BY <1>1, <1>2 DEF Facts
<1>4. PICK k : k = ExitLevel(ops, i)
  OBVIOUS
<1>5. PICK l : l = u.labels[k]
  OBVIOUS
<1>6. Carries(c, l)
  BY <1>1, <1>2, <1>3, <1>4, <1>5 DEF Knows
<1>7. Lands(ops, lowering.inner, c.target_index, i, Unset, k)
  BY <1>3, <1>4 DEF Resolves, JumpOK
<1>8. Position(ops, c.target_index, l.height + BranchArity(l))
  <2>1. Len(lowering.inner) = 0
    BY DEF Facts
  <2> QED
    BY <1>1, <1>2, <1>3, <1>5, <1>7, <2>1, JumpArrives
<1>9. Fitting(u, l, IF o.op = "BrIf" THEN 1 ELSE 0)
  <2>1. CASE o.op = "Return"
    <3>1. l = u.labels[1]
      BY <1>3, <1>4, <1>5, <2>1 DEF ExitLevel
    <3>2. Fitting(u, l, 0)
      BY <1>1, <1>2, <1>3, <2>1, <3>1, ReturnFits
    <3> QED
      BY <2>1, <3>2
  <2>2. CASE o.op \in {"Br", "BrIf"}
    <3>1. PICK dep \in Nat : dep = o.x /\ dep \in Depths(o)
      BY <1>3, <2>2 DEF Reading, IsOperator, Depths
    <3>2. k = Len(u.labels) - dep
      <4>1. \A j \in 0 .. Len(ops) : Len(vs[j].labels) = DepthAt(ops)[j]
        BY ZenonT(30), <1>1, <1>3, TraceLevels
      <4>2. i - 1 \in 0 .. Len(ops)
        BY <1>3
      <4>3. Len(vs[i - 1].labels) = DepthAt(ops)[i - 1]
        BY <4>1, <4>2
      <4> QED
        BY <1>2, <1>3, <1>4, <2>2, <3>1, <4>3 DEF ExitLevel
    <3>3. Fitting(u, l, IF o.op = "Br" THEN 0 ELSE 1)
      BY <1>3, <1>5, <2>2, <3>1, <3>2, BranchFits
    <3> QED
      BY <2>2, <3>3
  <2> QED
    BY <2>1, <2>2
<1>10. PICK z \in Nat : z = IF o.op = "BrIf" THEN 1 ELSE 0
  OBVIOUS
<1> QED
  BY <1>3, <1>6, <1>8, <1>9, <1>10, CarriesGoes

LEMMA ArmsGo ==
  ASSUME NEW i, NEW h, NEW o, NEW c, Facts(i, h, o, c), o.op = "BrTable"
  PROVE  /\ c.len = Len(o.arms) /\ c.len \in Nat \ {0} /\ h - 1 \in Nat
         /\ \A a \in 1 .. c.len : Goes(lowering.br_targets[c.start_index + a], h - 1)
<1>1. PICK vs : vs = CheckedAt(ops)
  OBVIOUS
<1>2. PICK u : u = vs[i - 1]
  OBVIOUS
<1>3. /\ i \in 1 .. Len(ops) /\ Traced(ops, valid) /\ o = ops[i] /\ c = code[i] /\ h \in Nat
      /\ CanRun(u) /\ h = u.height /\ Reading(u, o) /\ IsOperator(o)
      /\ Knows(ops, code, lowering.br_targets, i)
      /\ Resolves(ops, lowering.inner, code, lowering.br_targets, i)
  BY <1>1, <1>2 DEF Facts
<1>4. PICK depths \in Seq(Nat) : depths = o.arms
  BY <1>3 DEF IsOperator
<1>5. c.len = Len(depths) /\ depths # <<>> /\ Len(depths) \in Nat \ {0}
  <2>1. depths # <<>>
    BY <1>3, <1>4 DEF IsOperator
  <2>2. c.len = Len(depths)
    BY <1>3, <1>4 DEF Knows
  <2>3. Len(depths) \in Nat /\ Len(depths) # 0
    BY <2>1
  <2> QED
    BY <2>1, <2>2, <2>3
<1>6. ASSUME NEW a \in 1 .. Len(depths), NEW l, l = u.labels[ArmLevel(ops, i, a)],
             NEW jump, jump = lowering.br_targets[c.start_index + a]
      PROVE  Fitting(u, l, 1) /\ Goes(jump, h - 1)
  <2>1. PICK k : k = ArmLevel(ops, i, a)
    OBVIOUS
  <2>2. Carries(jump, l)
    BY <1>1, <1>2, <1>3, <1>4, <1>6 DEF Knows
  <2>3. PICK slot : slot = c.start_index + a - 1
    OBVIOUS
  <2>4. Lands(ops, lowering.inner, jump.target_index, i, slot, k)
    BY <1>3, <1>4, <1>6, <2>1, <2>3 DEF Resolves, TableOK
  <2>5. Position(ops, jump.target_index, l.height + BranchArity(l))
    <3>1. Len(lowering.inner) = 0
      BY DEF Facts
    <3>2. l = vs[i - 1].labels[k] /\ CanRun(vs[i - 1])
      BY <1>2, <1>3, <1>6, <2>1
    <3> QED
      BY <1>1, <1>3, <2>4, <3>1, <3>2, JumpArrives
  <2>6. PICK dep \in Nat : dep = depths[a] /\ dep \in Depths(o)
    BY <1>4 DEF Depths
  <2>7. k = Len(u.labels) - dep
    <3>1. \A j \in 0 .. Len(ops) : Len(vs[j].labels) = DepthAt(ops)[j]
      BY ZenonT(30), <1>1, <1>3, TraceLevels
    <3>2. i - 1 \in 0 .. Len(ops)
      BY <1>3
    <3>3. Len(vs[i - 1].labels) = DepthAt(ops)[i - 1]
      BY <3>1, <3>2
    <3> QED
      BY <1>2, <1>3, <1>4, <2>1, <2>6, <3>3 DEF ArmLevel
  <2>8. Fitting(u, l, 1)
    <3>1. l = u.labels[k] /\ o.op \in {"Br", "BrIf", "BrTable"} /\ o.op # "Br"
      BY <1>6, <2>1
    <3>2. Fitting(u, l, IF o.op = "Br" THEN 0 ELSE 1)
      BY <1>3, <2>6, <2>7, <3>1, BranchFits
    <3> QED
      BY <3>1, <3>2
  <2>9. PICK z \in Nat : z = 1
    OBVIOUS
  <2>10. Goes(jump, h - z)
    BY <1>3, <2>2, <2>5, <2>8, <2>9, CarriesGoes
  <2> QED
    BY <2>8, <2>9, <2>10
<1>7. h - 1 \in Nat
  <2>1. PICK a, l : a \in 1 .. Len(depths) /\ a = 1 /\ l = u.labels[ArmLevel(ops, i, a)]
    BY <1>5
  <2>2. l \in ValidatorLabel /\ l.height + BranchArity(l) <= u.height - 1
    BY <1>6, <2>1 DEF Fitting
  <2>3. l.height \in Nat /\ BranchArity(l) \in Nat
    BY <2>2, LabelFields DEF BranchArity
  <2> QED
    BY <1>3, <2>2, <2>3
<1> QED
  BY <1>4, <1>5, <1>6, <1>7

LEMMA OnePosition ==
  ASSUME NEW q, NEW i, NEW g, NEW h, Position(q, i, g), Position(q, i, h)
  PROVE  g = h
BY DEF Position

(* A false if goes to its second arm, or to its end.                        *)
LEMMA IfGoes ==
  ASSUME NEW i, NEW h, NEW o, NEW c, Facts(i, h, o, c), o.op = "If"
  PROVE  /\ c.else_index # Unset => Position(ops, c.else_index + 1, h - 1)
         /\ c.else_index = Unset => Position(ops, c.end_index, h - 1)
<1>1. PICK vs : vs = CheckedAt(ops)
  OBVIOUS
<1>2. /\ i \in 1 .. Len(ops) /\ Traced(ops, valid) /\ Whole /\ o = ops[i] /\ c = code[i]
      /\ h \in Nat /\ CanRun(vs[i - 1]) /\ h = vs[i - 1].height /\ IfOK(ops, code, i)
  BY <1>1 DEF Facts, Resolves
<1>3. PICK n \in Nat : n = Len(ops) /\ n # 0
  BY <1>2 DEF Whole
<1>4. PICK d : d = DepthAt(ops)
  OBVIOUS
<1>5. d[i] = d[i - 1] + 1
  BY <1>2, <1>3, <1>4, DepthSteps DEF Delta, Opens, Openers
<1>6. d[i - 1] >= 1 /\ d[i - 1] \in Int
  <2>1. i - 1 \in 0 .. n - 1 /\ i - 1 \in 0 .. n
    BY <1>2, <1>3
  <2> QED
    BY <1>2, <1>3, <1>4, <2>1, DepthSteps DEF Whole
<1>7. PICK k : k = d[i]
  OBVIOUS
<1>8. i # n
  BY <1>2, <1>3, <1>4, <1>5, <1>6 DEF Whole
<1>9. i \in 0 .. n - 1 /\ i # 0
  BY <1>2, <1>3, <1>8
<1>10. ~OpenAt(ops, i, n, k)
  BY <1>2, <1>3, <1>9, NothingOpen
<1>11. PICK e : /\ ClosedAt(ops, i, e, k) /\ c.end_index = e - 1
                /\ ElseIs(ops, i, e, k, c.else_index)
  BY <1>2, <1>3, <1>4, <1>7, <1>10 DEF IfOK
<1>12. CanRun(vs[i]) /\ Runs(ops, i, 1, 0)
  <2>1. ops[i].op \in Openers /\ ops[i].op = "If"
    BY <1>2 DEF Openers
  <2>2. CanRun(vs[i]) /\ Runs(ops, i, IF ops[i].op = "If" THEN 1 ELSE 0, 0)
    BY <1>1, <1>2, <2>1, RunsIn
  <2> QED
    BY <2>1, <2>2
<1>13. vs[i].height = h - 1
  <2>1. Position(ops, i, h - 1 + 0)
    BY <1>1, <1>2, <1>12 DEF Runs
  <2>2. i \in 0 .. Len(ops)
    BY <1>2
  <2>3. Position(ops, i, vs[i].height)
    BY <1>1, <1>2, <1>12, <2>2, Arrives
  <2>4. vs[i].height = h - 1 + 0
    BY <2>1, <2>3, OnePosition
  <2> QED
    BY <1>2, <2>4
<1>14. ASSUME c.else_index # Unset
       PROVE  Position(ops, c.else_index + 1, h - 1)
  <2>1. PICK x : x = c.else_index /\ x # -1
    BY <1>14 DEF Unset
  <2>2. Opens(ops[i])
    BY <1>2 DEF Opens, Openers
  <2>3. Position(ops, x + 1, vs[i].height)
    BY <1>1, <1>2, <1>11, <1>12, <2>1, <2>2, RunsToElse
  <2> QED
    BY <1>13, <2>1, <2>3
<1>15. ASSUME c.else_index = Unset
       PROVE  Position(ops, c.end_index, h - 1)
  <2>1. ElseIs(ops, i, e, k, -1)
    BY <1>11, <1>15 DEF Unset
  <2>2. Position(ops, e - 1, vs[i].height)
    BY <1>1, <1>2, <1>11, <1>12, <2>1, RunsToEnd
  <2> QED
    BY <1>11, <1>13, <2>2
<1> QED
  BY <1>14, <1>15

(* The first arm goes to the end of its if.                                 *)
LEMMA ElseGoes ==
  ASSUME NEW i, NEW h, NEW o, NEW c, Facts(i, h, o, c), o.op = "Else"
  PROVE  Position(ops, c.if_end_index, h)
<1>1. PICK vs : vs = CheckedAt(ops)
  OBVIOUS
<1>2. /\ i \in 1 .. Len(ops) /\ Traced(ops, valid) /\ Whole /\ o = ops[i] /\ c = code[i]
      /\ CanRun(vs[i - 1]) /\ h = vs[i - 1].height /\ ElseOK(ops, lowering.inner, code, i)
  BY <1>1 DEF Facts, Resolves
<1>3. PICK n \in Nat : n = Len(ops)
  BY <1>2 DEF Whole
<1>4. PICK k : k = DepthAt(ops)[i]
  OBVIOUS
<1>5. PICK p \in 1 .. i - 1 :
        /\ OpenAt(ops, p, i - 1, k)
        /\ \/ OpenAt(ops, p, n, k)
           \/ \E e \in i .. n : ClosedAt(ops, p, e, k) /\ c.if_end_index = e - 1
  BY <1>2, <1>3, <1>4 DEF ElseOK
<1>6. p \in 0 .. n - 1
  BY <1>2, <1>3
<1>7. ~OpenAt(ops, p, n, k)
  BY <1>2, <1>3, <1>6, NothingOpen
<1>8. PICK e : ClosedAt(ops, p, e, k) /\ c.if_end_index = e - 1
  BY <1>5, <1>7
<1>9. Position(ops, e - 1, vs[i - 1].height)
  BY <1>1, <1>2, <1>4, <1>5, <1>8, RunsPastElse
<1> QED
  BY <1>2, <1>8, <1>9

-----------------------------------------------------------------------------
(* The operand stack.  Popped slots keep what they held, so only the live   *)
(* ones are known to be values.                                             *)
Slot == Nat \cup {Stale}

Slots(s) ==
  /\ s = [stack |-> s.stack, sp |-> s.sp]
  /\ s.stack \in Seq(Slot) /\ Len(s.stack) \in Nat /\ s.sp \in 0 .. Len(s.stack)

(* The n lowest slots are the same.                                         *)
Below(s, t, n) == \A i \in 1 .. n : t.stack[i] = s.stack[i]

LEMMA PopSlots ==
  ASSUME NEW s, Slots(s), NEW n \in Nat, n <= s.sp
  PROVE  /\ Slots(pops(s, n)) /\ pops(s, n).sp = s.sp - n /\ pops(s, n).stack = s.stack
         /\ n = 1 => pop(s) = pops(s, n)
<1>1. PICK a \in Nat, b \in Nat : a = s.sp /\ b = Len(s.stack) /\ a <= b
  BY DEF Slots
<1>2. PICK t : t = pops(s, n)
  OBVIOUS
<1>3. t = [stack |-> s.stack, sp |-> a - n]
  BY <1>1, <1>2 DEF pops, Slots
<1>4. a - n \in 0 .. b
  BY <1>1
<1>5. Slots(t) /\ t.sp = s.sp - n /\ t.stack = s.stack
  BY <1>1, <1>3, <1>4 DEF Slots
<1>6. n = 1 => pop(s) = pops(s, n)
  BY DEF pop, pops
<1> QED
  BY <1>2, <1>5, <1>6

LEMMA PushSlots ==
  ASSUME NEW s, Slots(s), NEW x \in Slot, NEW t, t = push_value(s, x)
  PROVE  Slots(t) /\ t.sp = s.sp + 1 /\ Below(s, t, s.sp) /\ t.stack[s.sp + 1] = x
<1>1. PICK S : S = Slot
  OBVIOUS
<1>2. PICK f \in Seq(S) : f = s.stack
  BY <1>1 DEF Slots
<1>3. PICK a \in Nat, b \in Nat : a = s.sp /\ b = Len(f) /\ a <= b
  BY <1>2 DEF Slots
<1>4. x \in S
  BY <1>1
<1>5. PICK g : g = IF a < b THEN [f EXCEPT ![a + 1] = x] ELSE Append(f, x)
  OBVIOUS
<1>6. g \in Seq(S) /\ a + 1 <= Len(g) /\ g[a + 1] = x /\ (\A i \in 1 .. a : g[i] = f[i])
  <2>1. CASE a < b
    <3>1. PICK m \in Nat \ {0} : m = a + 1 /\ m \in 1 .. b
      <4>1. a + 1 \in Nat \ {0} /\ a + 1 \in 1 .. b
        BY <1>3, <2>1
      <4> QED
        BY <4>1
    <3>2. g = [f EXCEPT ![m] = x]
      BY <1>5, <2>1, <3>1
    <3>3. g \in Seq(S) /\ Len(g) = b /\ g[m] = x /\ \A i \in 1 .. b : i # m => g[i] = f[i]
      BY ONLY <1>3, <1>4, <3>1, <3>2, f \in Seq(S)
    <3> QED
      BY <1>3, <3>1, <3>3
  <2>2. CASE ~ (a < b)
    <3>1. a = b /\ g = Append(f, x)
      BY <1>3, <1>5, <2>2
    <3>2. g \in Seq(S) /\ Len(g) = b + 1 /\ g[b + 1] = x /\ \A i \in 1 .. b : g[i] = f[i]
      BY ONLY <1>3, <1>4, <3>1, f \in Seq(S)
    <3> QED
      BY <1>3, <3>1, <3>2
  <2> QED
    BY <2>1, <2>2
<1>7. t = [stack |-> g, sp |-> a + 1]
  BY <1>2, <1>3, <1>5 DEF push_value
<1>8. PICK c \in Nat : c = Len(g) /\ a + 1 <= c
  BY <1>6
<1>9. a + 1 \in 0 .. c
  BY <1>3, <1>8
<1> QED
  BY <1>1, <1>2, <1>3, <1>6, <1>7, <1>8, <1>9 DEF Slots, Below

(* One slot overwritten.                                                    *)
LEMMA SetSlots ==
  ASSUME NEW s, Slots(s), NEW j \in Nat \ {0}, j <= Len(s.stack), NEW x \in Slot,
         NEW t, t = [s EXCEPT !.stack[j] = x]
  PROVE  /\ Slots(t) /\ t.sp = s.sp /\ t.stack[j] = x
         /\ \A i \in 1 .. s.sp : i # j => t.stack[i] = s.stack[i]
<1>1. PICK S : S = Slot
  OBVIOUS
<1>2. PICK f \in Seq(S) : f = s.stack
  BY <1>1 DEF Slots
<1>3. PICK a \in Nat, b \in Nat : a = s.sp /\ b = Len(f) /\ a <= b
  BY <1>2 DEF Slots
<1>4. PICK g : g = [f EXCEPT ![j] = x]
  OBVIOUS
<1>5. x \in S /\ j \in 1 .. b
  BY <1>1, <1>2, <1>3
<1>6. g \in Seq(S) /\ Len(g) = b /\ g[j] = x /\ \A i \in 1 .. b : i # j => g[i] = f[i]
  BY ONLY <1>3, <1>4, <1>5, f \in Seq(S), j \in Nat \ {0}
<1>7. t = [stack |-> g, sp |-> a]
  BY <1>2, <1>3, <1>4 DEF Slots
<1>8. t.stack = g /\ t.sp = a /\ t = [stack |-> t.stack, sp |-> t.sp]
  BY ONLY <1>7
<1>9. a \in 0 .. b
  BY <1>3
<1>10. Slots(t)
  BY ONLY <1>1, <1>3, <1>6, <1>8, <1>9 DEF Slots
<1>11. \A i \in 1 .. a : i # j => g[i] = f[i]
  BY <1>3, <1>6
<1> QED
  BY <1>2, <1>3, <1>6, <1>8, <1>10, <1>11

(* push_all pushes one value after another.                                 *)
IsPushed(f, s, vals, n) ==
  f = [k \in 0 .. n |-> IF k = 0 THEN s ELSE push_value(f[k - 1], vals[k])]

LEMMA PushedExists ==
  ASSUME NEW s, NEW vals, NEW n \in Nat
  PROVE  \E f : IsPushed(f, s, vals, n)
<1> DEFINE S == {k \in 0 .. n : \E f : IsPushed(f, s, vals, k)}
<1>1. 0 \in S
  <2>1. PICK f : f = [k \in 0 .. 0 |-> s]
    OBVIOUS
  <2>2. f = [k \in 0 .. 0 |-> IF k = 0 THEN s ELSE push_value(f[k - 1], vals[k])]
    BY <2>1
  <2> QED
    BY <2>2 DEF IsPushed
<1>2. ASSUME NEW k \in 0 .. n, k \in S, k < n
      PROVE  k + 1 \in S
  <2>1. PICK f : IsPushed(f, s, vals, k)
    BY <1>2
  <2>2. PICK m \in Nat : m = k + 1 /\ m \in 0 .. n
    BY <1>2
  <2>3. PICK g : g = [j \in 0 .. m |-> IF j = m THEN push_value(f[k], vals[m]) ELSE f[j]]
    OBVIOUS
  <2>4. DOMAIN g = 0 .. m /\ g[m] = push_value(f[k], vals[m]) /\ \A j \in 0 .. k : g[j] = f[j]
    BY <2>2, <2>3
  <2>5. \A j \in 0 .. k : f[j] = IF j = 0 THEN s ELSE push_value(f[j - 1], vals[j])
    BY <2>1 DEF IsPushed
  <2>6. ASSUME NEW j \in 0 .. m
        PROVE  g[j] = IF j = 0 THEN s ELSE push_value(g[j - 1], vals[j])
    <3>1. CASE j = m
      <4>1. j # 0 /\ j - 1 = k /\ k \in 0 .. k
        BY <2>2, <3>1
      <4> QED
        BY <2>4, <3>1, <4>1
    <3>2. CASE j # m
      <4>1. j \in 0 .. k /\ (j # 0 => j - 1 \in 0 .. k)
        BY <2>2, <3>2
      <4> QED
        BY <2>4, <2>5, <4>1
    <3> QED
      BY <3>1, <3>2
  <2>7. g = [j \in 0 .. m |-> g[j]]
    BY <2>3
  <2>8. IsPushed(g, s, vals, m)
    BY <2>6, <2>7 DEF IsPushed
  <2> QED
    BY <2>2, <2>8
<1>3. 0 .. n \subseteq S
  <2> HIDE DEF S
  <2> QED
    BY <1>1, <1>2, CountingTo
<1> QED
  BY <1>3

Pushes(s, t, vals, n) ==
  /\ Slots(t) /\ t.sp = s.sp + n /\ Below(s, t, s.sp)
  /\ \A i \in 1 .. n : t.stack[s.sp + i] = vals[i]

LEMMA PushAllSlots ==
  ASSUME NEW s, Slots(s), NEW vals, NEW n \in Nat, n = Len(vals),
         \A i \in 1 .. n : vals[i] \in Slot
  PROVE  Pushes(s, push_all(s, vals), vals, n)
<1>1. PICK f : IsPushed(f, s, vals, n) /\ push_all(s, vals) = f[n]
  <2>1. \E f : IsPushed(f, s, vals, n)
    BY PushedExists
  <2>2. PICK f : /\ f = CHOOSE g : g = [k \in 0 .. n |-> IF k = 0 THEN s ELSE push_value(g[k - 1], vals[k])]
                 /\ push_all(s, vals) = f[n]
    BY DEF push_all
  <2> QED
    BY <2>1, <2>2 DEF IsPushed
<1> DEFINE S == {k \in 0 .. n : Pushes(s, f[k], vals, k)}
<1>2. PICK a \in Nat : a = s.sp
  BY DEF Slots
<1>3. 0 \in S
  <2>1. f[0] = s
    BY <1>1 DEF IsPushed
  <2> QED
    BY <1>2, <2>1 DEF Pushes, Below
<1>4. ASSUME NEW k \in 0 .. n, k \in S, k < n
      PROVE  k + 1 \in S
  <2>1. PICK m \in Nat : m = k + 1 /\ m \in 1 .. n /\ m \in 0 .. n /\ m - 1 = k
    BY <1>4
  <2>2. f[m] = push_value(f[k], vals[m])
    BY <1>1, <2>1 DEF IsPushed
  <2>3. Pushes(s, f[k], vals, k)
    BY <1>4
  <2>4. PICK t : t = f[k]
    OBVIOUS
  <2>5. PICK u : u = f[m]
    OBVIOUS
  <2>6. /\ Slots(t) /\ t.sp = a + k /\ Below(s, t, a)
        /\ \A i \in 1 .. k : t.stack[a + i] = vals[i]
    BY <1>2, <2>3, <2>4 DEF Pushes
  <2>7. Slots(u) /\ u.sp = t.sp + 1 /\ Below(t, u, t.sp) /\ u.stack[t.sp + 1] = vals[m]
    <3>1. vals[m] \in Slot
      BY <2>1
    <3> QED
      BY <2>2, <2>4, <2>5, <2>6, <3>1, PushSlots
  <2>8. u.sp = a + m
    BY <1>2, <2>1, <2>6, <2>7
  <2>9. Below(s, u, a)
    <3>1. \A i \in 1 .. a : i \in 1 .. a + k
      BY <1>4
    <3> QED
      BY <2>6, <2>7, <3>1 DEF Below
  <2>10. ASSUME NEW i \in 1 .. m
         PROVE  u.stack[a + i] = vals[i]
    <3>1. CASE i = m
      <4>1. a + i = t.sp + 1
        BY <2>1, <2>6, <3>1
      <4> QED
        BY <2>7, <3>1, <4>1
    <3>2. CASE i # m
      <4>1. i \in 1 .. k /\ a + i \in 1 .. a + k
        BY <2>1, <3>2
      <4> QED
        BY <2>6, <2>7, <4>1 DEF Below
    <3> QED
      BY <3>1, <3>2
  <2> QED
    BY <1>2, <2>1, <2>5, <2>7, <2>8, <2>9, <2>10 DEF Pushes
<1>5. 0 .. n \subseteq S
  <2> HIDE DEF S
  <2> QED
    BY <1>3, <1>4, CountingTo
<1> QED
  BY <1>1, <1>5

(* Unwinding copies from above, lowest slot first.                          *)
IsMoved(f, q, to, from, n) ==
  f = [k \in 0 .. n |-> IF k = 0 THEN q ELSE [f[k - 1] EXCEPT ![to + k] = f[k - 1][from + k]]]

LEMMA MovedExists ==
  ASSUME NEW q, NEW to, NEW from, NEW n \in Nat
  PROVE  \E f : IsMoved(f, q, to, from, n)
<1> DEFINE S == {k \in 0 .. n : \E f : IsMoved(f, q, to, from, k)}
<1>1. 0 \in S
  <2>1. PICK f : f = [k \in 0 .. 0 |-> q]
    OBVIOUS
  <2>2. f = [k \in 0 .. 0 |-> IF k = 0 THEN q
                              ELSE [f[k - 1] EXCEPT ![to + k] = f[k - 1][from + k]]]
    BY <2>1
  <2> QED
    BY <2>2 DEF IsMoved
<1>2. ASSUME NEW k \in 0 .. n, k \in S, k < n
      PROVE  k + 1 \in S
  <2>1. PICK f : IsMoved(f, q, to, from, k)
    BY <1>2
  <2>2. PICK m \in Nat : m = k + 1 /\ m \in 0 .. n
    BY <1>2
  <2>3. PICK x : x = [f[k] EXCEPT ![to + m] = f[k][from + m]]
    OBVIOUS
  <2>4. PICK g : g = [j \in 0 .. m |-> IF j = m THEN x ELSE f[j]]
    OBVIOUS
  <2>5. DOMAIN g = 0 .. m /\ g[m] = x /\ \A j \in 0 .. k : g[j] = f[j]
    BY <2>2, <2>4
  <2>6. \A j \in 0 .. k : f[j] = IF j = 0 THEN q
                                 ELSE [f[j - 1] EXCEPT ![to + j] = f[j - 1][from + j]]
    BY <2>1 DEF IsMoved
  <2>7. ASSUME NEW j \in 0 .. m
        PROVE  g[j] = IF j = 0 THEN q ELSE [g[j - 1] EXCEPT ![to + j] = g[j - 1][from + j]]
    <3>1. CASE j = m
      <4>1. j # 0 /\ j - 1 = k /\ k \in 0 .. k
        BY <2>2, <3>1
      <4>2. g[j - 1] = f[k]
        BY <2>5, <4>1
      <4> QED
        BY <2>3, <2>5, <3>1, <4>1, <4>2
    <3>2. CASE j # m
      <4>1. j \in 0 .. k /\ (j # 0 => j - 1 \in 0 .. k)
        BY <2>2, <3>2
      <4>2. g[j] = f[j] /\ (j # 0 => g[j - 1] = f[j - 1])
        BY <2>5, <4>1
      <4> QED
        BY <2>6, <4>1, <4>2
    <3> QED
      BY <3>1, <3>2
  <2>8. g = [j \in 0 .. m |-> g[j]]
    BY <2>4
  <2>9. IsMoved(g, q, to, from, m)
    BY <2>7, <2>8 DEF IsMoved
  <2> QED
    BY <2>2, <2>9
<1>3. 0 .. n \subseteq S
  <2> HIDE DEF S
  <2> QED
    BY <1>1, <1>2, CountingTo
<1> QED
  BY <1>3

(* What k copies leave of q.                                                *)
Copied(q, g, to, from, k) ==
  /\ g \in Seq(Slot) /\ Len(g) = Len(q)
  /\ \A i \in 1 .. Len(q) : i <= to \/ i > to + k => g[i] = q[i]
  /\ \A i \in 1 .. k : g[to + i] = q[from + i]

CopiesOn(q, f, g, to, from, m) ==
  /\ m - 1 \in Nat /\ from + m <= Len(q) /\ to <= from
  /\ Copied(q, f, to, from, m - 1)
  /\ g = [f EXCEPT ![to + m] = f[from + m]]

LEMMA CopiesOne ==
  ASSUME NEW q \in Seq(Slot), NEW to \in Nat, NEW from \in Nat, NEW m \in Nat,
         NEW f, NEW g, CopiesOn(q, f, g, to, from, m)
  PROVE  Copied(q, g, to, from, m)
<1>1. PICK n \in Nat, k \in Nat : /\ n = Len(q) /\ m = k + 1 /\ from + m <= n /\ to <= from
                                 /\ Copied(q, f, to, from, k)
                                 /\ g = [f EXCEPT ![to + m] = f[from + m]]
  <2>1. Len(q) \in Nat /\ m = (m - 1) + 1
    OBVIOUS
  <2> QED
    BY <2>1 DEF CopiesOn
<1>2. PICK S : S = Slot
  OBVIOUS
<1>3. /\ f \in Seq(S) /\ Len(f) = n /\ q \in Seq(S)
      /\ \A i \in 1 .. n : i <= to \/ i > to + k => f[i] = q[i]
      /\ \A i \in 1 .. k : f[to + i] = q[from + i]
  BY <1>1, <1>2 DEF Copied
<1>4. PICK a \in 1 .. n : a = to + m
  <2>1. to + m \in 1 .. n
    BY <1>1
  <2> QED
    BY <2>1
<1>5. PICK b \in 1 .. n : b = from + m /\ b > to + k
  <2>1. from + m \in 1 .. n /\ from + m > to + k
    BY <1>1
  <2> QED
    BY <2>1
<1>6. PICK x \in S : x = f[b] /\ x = q[b]
  <2>1. f[b] = q[b]
    BY <1>3, <1>5
  <2>2. q[b] \in S
    BY ONLY <1>1, <1>3, b \in 1 .. n
  <2> QED
    BY <2>1, <2>2
<1>7. g = [f EXCEPT ![a] = x]
  BY <1>1, <1>4, <1>5, <1>6
<1>8. g \in Seq(S) /\ Len(g) = n /\ g[a] = x /\ \A i \in 1 .. n : i # a => g[i] = f[i]
  BY ONLY <1>3, <1>6, <1>7, a \in 1 .. n, n \in Nat
<1>9. ASSUME NEW i \in 1 .. n, i <= to \/ i > to + m
      PROVE  g[i] = q[i]
  <2>1. i # a /\ (i <= to \/ i > to + k)
    BY <1>1, <1>4, <1>9
  <2> QED
    BY <1>3, <1>8, <2>1
<1>10. ASSUME NEW i \in 1 .. m
      PROVE  g[to + i] = q[from + i]
  <2>1. CASE i = m
    BY <1>4, <1>5, <1>6, <1>8, <2>1
  <2>2. CASE i # m
    <3>1. i \in 1 .. k /\ to + i \in 1 .. n /\ to + i # a
      BY SMTT(30), <1>1, <1>4, <2>2
    <3> QED
      BY <1>3, <1>8, <3>1
  <2> QED
    BY <2>1, <2>2
<1> QED
  BY <1>1, <1>2, <1>8, <1>9, <1>10 DEF Copied

Unwinds(s, t, height, arity) ==
  /\ Slots(t) /\ t.sp = height + arity /\ Below(s, t, height)
  /\ \A i \in 1 .. arity : t.stack[height + i] = s.stack[s.sp - arity + i]

LEMMA UnwindSlots ==
  ASSUME NEW s, Slots(s), NEW height \in Nat, NEW arity \in Nat, height + arity <= s.sp
  PROVE  Unwinds(s, truncate_by_preserving_arity(s, height, arity), height, arity)
<1>1. PICK q \in Seq(Slot), n \in Nat, a \in Nat : q = s.stack /\ n = Len(q) /\ a = s.sp /\ a <= n
  BY DEF Slots
<1>2. PICK from \in Nat : from = a - arity /\ height <= from /\ from + arity = a
  <2>1. a - arity \in Nat /\ height <= a - arity /\ (a - arity) + arity = a
    BY <1>1
  <2> QED
    BY <2>1
<1>3. PICK f : /\ IsMoved(f, q, height, from, arity)
               /\ truncate_by_preserving_arity(s, height, arity)
                    = [stack |-> f[arity], sp |-> height + arity]
  <2>1. \E f : IsMoved(f, q, height, from, arity)
    BY MovedExists
  <2>2. PICK f : /\ f = CHOOSE g : g = [k \in 0 .. arity |->
                          IF k = 0 THEN q
                          ELSE [g[k - 1] EXCEPT ![height + k] = g[k - 1][from + k]]]
                 /\ truncate_by_preserving_arity(s, height, arity)
                      = [stack |-> f[arity], sp |-> height + arity]
    BY ZenonT(30), <1>1, <1>2 DEF truncate_by_preserving_arity
  <2> QED
    BY <2>1, <2>2 DEF IsMoved
<1> DEFINE S == {k \in 0 .. arity : Copied(q, f[k], height, from, k)}
<1>4. 0 \in S
  <2>1. f[0] = q
    BY <1>3 DEF IsMoved
  <2> QED
    BY <2>1 DEF Copied
<1>5. ASSUME NEW k \in 0 .. arity, k \in S, k < arity
      PROVE  k + 1 \in S
  <2>1. PICK m \in Nat : m = k + 1 /\ m \in 0 .. arity /\ m # 0 /\ m - 1 = k
    BY <1>5
  <2>2. f[m] = [f[k] EXCEPT ![height + m] = f[k][from + m]]
    BY <1>3, <2>1 DEF IsMoved
  <2>3. from + m <= n
    BY SMTT(30), <1>1, <1>2, <2>1
  <2>4. Copied(q, f[k], height, from, k)
    BY <1>5
  <2>5. Copied(q, f[m], height, from, m)
    <3>1. PICK x, y : x = f[k] /\ y = f[m]
      OBVIOUS
    <3>2. CopiesOn(q, x, y, height, from, m)
      BY <1>1, <1>2, <2>1, <2>2, <2>3, <2>4, <3>1 DEF CopiesOn
    <3>3. Copied(q, y, height, from, m)
      BY <3>2, CopiesOne
    <3> QED
      BY <3>1, <3>3
  <2> QED
    BY <2>1, <2>5
<1>6. 0 .. arity \subseteq S
  <2> HIDE DEF S
  <2> QED
    BY <1>4, <1>5, CountingTo
<1>7. PICK g : g = f[arity]
  OBVIOUS
<1>8. Copied(q, g, height, from, arity)
  BY <1>6, <1>7
<1>9. PICK t : t = [stack |-> g, sp |-> height + arity]
  OBVIOUS
<1>10. t.stack = g /\ t.sp = height + arity /\ t = [stack |-> t.stack, sp |-> t.sp]
  BY <1>9
<1>11. Slots(t)
  <2>1. height + arity \in 0 .. n
    BY <1>1
  <2>2. g \in Seq(Slot) /\ Len(g) = n
    BY <1>1, <1>8 DEF Copied
  <2> QED
    BY <1>1, <1>10, <2>1, <2>2 DEF Slots
<1>12. Below(s, t, height)
  <2>1. \A i \in 1 .. height : i \in 1 .. n /\ i <= height
    BY <1>1
  <2> QED
    BY <1>1, <1>8, <1>10, <2>1 DEF Below, Copied
<1>13. \A i \in 1 .. arity : t.stack[height + i] = s.stack[s.sp - arity + i]
  BY <1>1, <1>2, <1>8, <1>10 DEF Copied
<1> QED
  BY <1>3, <1>7, <1>9, <1>10, <1>11, <1>12, <1>13 DEF Unwinds

-----------------------------------------------------------------------------
(* One frame on the stack: the caller's operands below it, its locals, and  *)
(* h operands.                                                              *)
FrameOK(s, base, below, h) ==
  /\ Slots(s) /\ base \in Nat /\ h \in Nat /\ s.sp = base + LocalsCount + h
  /\ below \in Seq(Nat) /\ Len(below) = base
  /\ \A i \in 1 .. base : s.stack[i] = below[i]
  /\ \A i \in 1 .. s.sp : s.stack[i] \in Nat

(* What leaves the frame and the caller's operands alone keeps them.        *)
LEMMA FrameStays ==
  ASSUME NEW s, NEW b, NEW w, NEW h, FrameOK(s, b, w, h),
         NEW t, Slots(t), NEW g \in Nat, t.sp = b + LocalsCount + g, Below(s, t, b),
         \A i \in 1 .. t.sp : t.stack[i] \in Nat
  PROVE  FrameOK(t, b, w, g)
BY DEF FrameOK, Below

LEMMA FramePops ==
  ASSUME NEW s, NEW b, NEW w, NEW h, FrameOK(s, b, w, h), NEW n \in Nat, h - n \in Nat
  PROVE  /\ FrameOK(pops(s, n), b, w, h - n)
         /\ n = 1 => pop(s) = pops(s, n)
<1>1. PICK a \in Nat, g \in Nat : a = s.sp /\ h \in Nat /\ b \in Nat /\ g = h - n
                                 /\ a = b + LocalsCount + h
  BY DEF FrameOK, Slots
<1>2. n <= a /\ a - n = b + LocalsCount + g
  BY <1>1, FrameAssumption
<1>3. PICK t : t = pops(s, n)
  OBVIOUS
<1>4. Slots(s)
  BY DEF FrameOK
<1>5. Slots(t) /\ t.sp = a - n /\ t.stack = s.stack /\ (n = 1 => pop(s) = pops(s, n))
  BY <1>1, <1>2, <1>3, <1>4, PopSlots
<1>6. \A i \in 1 .. t.sp : t.stack[i] \in Nat
  <2>1. \A i \in 1 .. a : s.stack[i] \in Nat
    BY <1>1 DEF FrameOK
  <2>2. \A i \in 1 .. a - n : i \in 1 .. a
    BY <1>1
  <2> QED
    BY <1>5, <2>1, <2>2
<1>7. FrameOK(t, b, w, g)
  BY <1>1, <1>2, <1>5, <1>6, FrameStays DEF Below
<1> QED
  BY <1>1, <1>3, <1>5, <1>7

LEMMA FramePush ==
  ASSUME NEW s, NEW b, NEW w, NEW h, FrameOK(s, b, w, h), NEW x \in Nat
  PROVE  FrameOK(push_value(s, x), b, w, h + 1)
<1>1. PICK a \in Nat : a = s.sp /\ h \in Nat /\ b \in Nat /\ a = b + LocalsCount + h
  BY DEF FrameOK, Slots
<1>2. b <= a /\ a + 1 = b + LocalsCount + (h + 1) /\ h + 1 \in Nat
  BY <1>1, FrameAssumption
<1>3. PICK t : t = push_value(s, x)
  OBVIOUS
<1>4. Slots(t) /\ t.sp = a + 1 /\ Below(s, t, a) /\ t.stack[a + 1] = x
  <2>1. Slots(s) /\ x \in Slot
    BY DEF FrameOK, Slot
  <2>2. Slots(t) /\ t.sp = s.sp + 1 /\ Below(s, t, s.sp) /\ t.stack[s.sp + 1] = x
    BY ONLY <1>3, <2>1, PushSlots
  <2> QED
    BY <1>1, <2>2
<1>5. \A i \in 1 .. t.sp : t.stack[i] \in Nat
  <2>1. \A i \in 1 .. a : s.stack[i] \in Nat
    BY <1>1 DEF FrameOK
  <2>2. \A i \in 1 .. a + 1 : i \in 1 .. a \/ i = a + 1
    BY <1>1
  <2> QED
    BY <1>4, <2>1, <2>2 DEF Below
<1>6. Below(s, t, b)
  <2>1. \A i \in 1 .. b : i \in 1 .. a
    BY <1>1, <1>2
  <2> QED
    BY <1>4, <2>1 DEF Below
<1> QED
  BY <1>1, <1>2, <1>3, <1>4, <1>5, <1>6, FrameStays

LEMMA FramePushes ==
  ASSUME NEW s, NEW b, NEW w, NEW h, FrameOK(s, b, w, h),
         NEW vals, NEW n \in Nat, n = Len(vals), \A i \in 1 .. n : vals[i] \in Nat
  PROVE  FrameOK(push_all(s, vals), b, w, h + n)
<1>1. PICK a \in Nat : a = s.sp /\ h \in Nat /\ b \in Nat /\ a = b + LocalsCount + h
  BY DEF FrameOK, Slots
<1>2. b <= a /\ a + n = b + LocalsCount + (h + n) /\ h + n \in Nat
  BY <1>1, FrameAssumption
<1>3. PICK t : t = push_all(s, vals)
  OBVIOUS
<1>4. Pushes(s, t, vals, n)
  <2>1. Slots(s) /\ \A i \in 1 .. n : vals[i] \in Slot
    BY DEF FrameOK, Slot
  <2> QED
    BY <1>3, <2>1, PushAllSlots
<1>5. Slots(t) /\ t.sp = a + n /\ Below(s, t, a) /\ \A i \in 1 .. n : t.stack[a + i] = vals[i]
  BY <1>1, <1>4 DEF Pushes
<1>6. ASSUME NEW i \in 1 .. a + n
      PROVE  t.stack[i] \in Nat
  <2>1. CASE i <= a
    <3>1. i \in 1 .. a
      BY <1>1, <2>1
    <3>2. s.stack[i] \in Nat
      BY <1>1, <3>1 DEF FrameOK
    <3> QED
      BY <1>5, <3>1, <3>2 DEF Below
  <2>2. CASE i > a
    <3>1. PICK k \in 1 .. n : k = i - a /\ i = a + k
      <4>1. i - a \in 1 .. n /\ i = a + (i - a)
        BY <1>1, <2>2
      <4> QED
        BY <4>1
    <3>2. vals[k] \in Nat /\ t.stack[a + k] = vals[k]
      BY <1>5
    <3> QED
      BY <3>1, <3>2
  <2> QED
    BY <1>1, <2>1, <2>2
<1>7. Below(s, t, b)
  <2>1. \A i \in 1 .. b : i \in 1 .. a
    BY <1>1, <1>2
  <2> QED
    BY <1>5, <2>1 DEF Below
<1>8. \A i \in 1 .. t.sp : t.stack[i] \in Nat
  BY <1>5, <1>6
<1> QED
  BY <1>1, <1>2, <1>3, <1>5, <1>7, <1>8, FrameStays

(* A local written in its place.                                            *)
LEMMA FrameSets ==
  ASSUME NEW s, NEW b, NEW w, NEW h, FrameOK(s, b, w, h),
         NEW x \in 0 .. LocalsCount - 1, NEW v \in Nat
  PROVE  FrameOK([s EXCEPT !.stack[b + x + 1] = v], b, w, h)
<1>1. PICK a \in Nat, z \in Nat : /\ a = s.sp /\ h \in Nat /\ b \in Nat
                                 /\ a = b + LocalsCount + h /\ z = Len(s.stack) /\ a <= z
  BY DEF FrameOK, Slots
<1>2. PICK j \in Nat \ {0} : j = b + x + 1 /\ j > b /\ j <= a /\ j <= z
  <2>1. b + x + 1 \in Nat \ {0} /\ b + x + 1 > b /\ b + x + 1 <= a /\ b + x + 1 <= z
    BY <1>1, FrameAssumption
  <2> QED
    BY <2>1
<1>3. PICK t : t = [s EXCEPT !.stack[j] = v]
  OBVIOUS
<1>4. /\ Slots(t) /\ t.sp = a /\ t.stack[j] = v
      /\ \A i \in 1 .. a : i # j => t.stack[i] = s.stack[i]
  <2>1. Slots(s) /\ v \in Slot /\ j <= Len(s.stack)
    BY <1>1, <1>2 DEF FrameOK, Slot
  <2>2. /\ Slots(t) /\ t.sp = s.sp /\ t.stack[j] = v
        /\ \A i \in 1 .. s.sp : i # j => t.stack[i] = s.stack[i]
    BY ONLY <1>3, <2>1, j \in Nat \ {0}, SetSlots
  <2> QED
    BY <1>1, <2>2
<1>5. \A i \in 1 .. t.sp : t.stack[i] \in Nat
  BY <1>1, <1>4 DEF FrameOK
<1>6. Below(s, t, b)
  <2>1. \A i \in 1 .. b : i \in 1 .. a /\ i # j
    BY <1>1, <1>2, FrameAssumption
  <2> QED
    BY <1>4, <2>1 DEF Below
<1> QED
  BY <1>1, <1>2, <1>3, <1>4, <1>5, <1>6, FrameStays

(* Unwinding to a label's height above the frame's own.                     *)
LEMMA FrameUnwinds ==
  ASSUME NEW s, NEW b, NEW w, NEW h, FrameOK(s, b, w, h),
         NEW r \in Nat, NEW n \in Nat, r + n <= h
  PROVE  FrameOK(truncate_by_preserving_arity(s, r + callee_frame_base_height(b), n), b, w, r + n)
<1>1. PICK a \in Nat, m \in Nat :
        /\ a = s.sp /\ h \in Nat /\ b \in Nat /\ a = b + LocalsCount + h
        /\ m = r + callee_frame_base_height(b) /\ m = r + (b + LocalsCount)
  <2>1. s.sp \in Nat /\ h \in Nat /\ b \in Nat /\ s.sp = b + LocalsCount + h
    BY DEF FrameOK, Slots
  <2>2. r + (b + LocalsCount) \in Nat
    BY <2>1, FrameAssumption
  <2> QED
    BY <2>1, <2>2 DEF callee_frame_base_height
<1>2. b <= m /\ m + n <= a /\ m + n = b + LocalsCount + (r + n) /\ r + n \in Nat
  BY <1>1, FrameAssumption
<1>3. PICK t : t = truncate_by_preserving_arity(s, m, n)
  OBVIOUS
<1>4. Unwinds(s, t, m, n)
  <2>1. Slots(s) /\ m + n <= s.sp
    BY <1>1, <1>2 DEF FrameOK
  <2> QED
    BY <1>3, <2>1, UnwindSlots
<1>5. /\ Slots(t) /\ t.sp = m + n /\ Below(s, t, m)
      /\ \A i \in 1 .. n : t.stack[m + i] = s.stack[a - n + i]
  BY <1>1, <1>4 DEF Unwinds
<1>6. ASSUME NEW i \in 1 .. m + n
      PROVE  t.stack[i] \in Nat
  <2>1. \A j \in 1 .. a : s.stack[j] \in Nat
    BY <1>1 DEF FrameOK
  <2>2. CASE i <= m
    <3>1. i \in 1 .. m /\ i \in 1 .. a
      BY <1>1, <1>2, <2>2
    <3> QED
      BY <1>5, <2>1, <3>1 DEF Below
  <2>3. CASE i > m
    <3>1. PICK k \in 1 .. n : i = m + k /\ a - n + k \in 1 .. a
      <4>1. i - m \in 1 .. n /\ i = m + (i - m) /\ a - n + (i - m) \in 1 .. a
        BY <1>1, <1>2, <2>3
      <4> QED
        BY <4>1
    <3>2. t.stack[m + k] = s.stack[a - n + k]
      BY <1>5
    <3> QED
      BY <2>1, <3>1, <3>2
  <2> QED
    BY <1>1, <2>2, <2>3
<1>7. Below(s, t, b)
  <2>1. \A i \in 1 .. b : i \in 1 .. m
    BY <1>1, <1>2
  <2> QED
    BY <1>5, <2>1 DEF Below
<1>8. \A i \in 1 .. t.sp : t.stack[i] \in Nat
  BY <1>5, <1>6
<1>9. FrameOK(t, b, w, r + n)
  BY <1>2, <1>5, <1>7, <1>8, FrameStays
<1> QED
  BY <1>1, <1>3, <1>9

(* What a frame holds is a value: an operand, a local, the n topmost.       *)
LEMMA FrameReads ==
  ASSUME NEW s, NEW b, NEW w, NEW h, FrameOK(s, b, w, h)
  PROVE  /\ h - 1 \in Nat => top(s) \in Nat
         /\ \A x \in 0 .. LocalsCount - 1 : s.stack[b + x + 1] \in Nat
<1>1. PICK a \in Nat : a = s.sp /\ h \in Nat /\ b \in Nat /\ a = b + LocalsCount + h
  BY DEF FrameOK, Slots
<1>2. \A i \in 1 .. a : s.stack[i] \in Nat
  BY <1>1 DEF FrameOK
<1>3. h - 1 \in Nat => a \in 1 .. a
  BY <1>1, FrameAssumption
<1>4. \A x \in 0 .. LocalsCount - 1 : b + x + 1 \in 1 .. a
  BY <1>1, FrameAssumption
<1> QED
  BY <1>1, <1>2, <1>3, <1>4 DEF top

LEMMA FrameLast ==
  ASSUME NEW s, NEW b, NEW w, NEW h, FrameOK(s, b, w, h), NEW n \in Nat, h - n \in Nat
  PROVE  last(s, n) \in Seq(Nat) /\ Len(last(s, n)) = n
<1>1. PICK a \in Nat, g \in Nat : /\ a = s.sp /\ h \in Nat /\ b \in Nat /\ g = h - n
                                 /\ a = b + LocalsCount + h
  BY DEF FrameOK, Slots
<1>2. PICK m \in Nat : m = a - n
  <2>1. a - n \in Nat
    BY <1>1, FrameAssumption
  <2> QED
    BY <2>1
<1>3. PICK q \in Seq(Slot), z \in Nat : q = s.stack /\ z = Len(q) /\ a <= z
  BY <1>1 DEF FrameOK, Slots
<1>4. PICK S : S = Slot
  OBVIOUS
<1>5. PICK f : f = SubSeq(q, m + 1, a)
  OBVIOUS
<1>6. f = last(s, n)
  BY <1>1, <1>2, <1>3, <1>5 DEF last
<1>7. f = [i \in 1 .. n |-> q[m + i]]
  <2>1. \A i \in m + 1 .. a : i \in 1 .. z
    BY <1>2, <1>3
  <2>2. f = [i \in 1 .. a - m |-> q[i + m]]
    BY <1>2, <1>3, <1>4, <1>5, q \in Seq(S)
  <2>3. a - m = n /\ \A i \in 1 .. n : i + m = m + i
    BY <1>2
  <2> QED
    BY <2>2, <2>3
<1>8. \A i \in 1 .. n : q[m + i] \in Nat
  <2>1. \A i \in 1 .. n : m + i \in 1 .. a
    BY <1>2
  <2>2. \A i \in 1 .. a : q[i] \in Nat
    BY <1>1, <1>3 DEF FrameOK
  <2> QED
    BY <2>1, <2>2
<1>9. f \in Seq(Nat) /\ Len(f) = n
  BY ONLY <1>7, <1>8, n \in Nat
<1> QED
  BY <1>6, <1>9

(* What a callee answers are values.                                        *)
IsSum(f, a, n) == f = [k \in 0 .. n |-> IF k = 0 THEN 0 ELSE f[k - 1] + k * a[k]]

LEMMA SumExists ==
  ASSUME NEW a, NEW n \in Nat
  PROVE  \E f : IsSum(f, a, n)
<1> DEFINE S == {k \in 0 .. n : \E f : IsSum(f, a, k)}
<1>1. 0 \in S
  <2>1. PICK f : f = [k \in 0 .. 0 |-> 0]
    OBVIOUS
  <2>2. f = [k \in 0 .. 0 |-> IF k = 0 THEN 0 ELSE f[k - 1] + k * a[k]]
    BY <2>1
  <2> QED
    BY <2>2 DEF IsSum
<1>2. ASSUME NEW k \in 0 .. n, k \in S, k < n
      PROVE  k + 1 \in S
  <2>1. PICK f : IsSum(f, a, k)
    BY <1>2
  <2>2. PICK m \in Nat : m = k + 1 /\ m \in 0 .. n
    BY <1>2
  <2>3. PICK x : x = f[k] + m * a[m]
    OBVIOUS
  <2>4. PICK g : g = [j \in 0 .. m |-> IF j = m THEN x ELSE f[j]]
    OBVIOUS
  <2>5. DOMAIN g = 0 .. m /\ g[m] = x /\ \A j \in 0 .. k : g[j] = f[j]
    BY <2>2, <2>4
  <2>6. \A j \in 0 .. k : f[j] = IF j = 0 THEN 0 ELSE f[j - 1] + j * a[j]
    BY <2>1 DEF IsSum
  <2>7. ASSUME NEW j \in 0 .. m
        PROVE  g[j] = IF j = 0 THEN 0 ELSE g[j - 1] + j * a[j]
    <3>1. CASE j = m
      <4>1. j # 0 /\ j - 1 = k /\ k \in 0 .. k
        BY <2>2, <3>1
      <4>2. g[j - 1] = f[k]
        BY <2>5, <4>1
      <4> QED
        BY <2>3, <2>5, <3>1, <4>1, <4>2
    <3>2. CASE j # m
      <4>1. j \in 0 .. k /\ (j # 0 => j - 1 \in 0 .. k)
        BY <2>2, <3>2
      <4>2. g[j] = f[j] /\ (j # 0 => g[j - 1] = f[j - 1])
        BY <2>5, <4>1
      <4> QED
        BY <2>6, <4>1, <4>2
    <3> QED
      BY <3>1, <3>2
  <2>8. g = [j \in 0 .. m |-> g[j]]
    BY <2>4
  <2>9. IsSum(g, a, m)
    BY <2>7, <2>8 DEF IsSum
  <2> QED
    BY <2>2, <2>9
<1>3. 0 .. n \subseteq S
  <2> HIDE DEF S
  <2> QED
    BY <1>1, <1>2, CountingTo
<1> QED
  BY <1>3

LEMMA Answers ==
  ASSUME NEW a, a \in Seq(Nat), NEW n \in Nat, NEW vals, vals = Callee(a, n)
  PROVE  Len(vals) = n /\ \A i \in 1 .. n : vals[i] \in Nat
<1>1. PICK m \in Nat : m = Len(a)
  OBVIOUS
<1>2. PICK f, y : IsSum(f, a, m) /\ y = f[m] /\ vals = [j \in 1 .. n |-> (j + y) % 3]
  <2> DEFINE F == CHOOSE g : g = [k \in 0 .. Len(a) |-> IF k = 0 THEN 0 ELSE g[k - 1] + k * a[k]]
  <2>1. vals = [j \in 1 .. n |-> (j + F[Len(a)]) % 3]
    BY DEF Callee
  <2>2. F = CHOOSE g : IsSum(g, a, Len(a))
    BY DEF IsSum
  <2> HIDE DEF F
  <2>3. \E g : IsSum(g, a, Len(a))
    BY <1>1, SumExists
  <2>4. IsSum(F, a, Len(a))
    BY <2>2, <2>3
  <2>5. PICK y : y = F[Len(a)]
    OBVIOUS
  <2>6. vals = [j \in 1 .. n |-> (j + y) % 3]
    BY <2>1, <2>5
  <2> QED
    BY <1>1, <2>4, <2>5, <2>6
<1> DEFINE S == {k \in 0 .. m : f[k] \in Nat}
<1>3. 0 \in S
  BY <1>2 DEF IsSum
<1>4. ASSUME NEW k \in 0 .. m, k \in S, k < m
      PROVE  k + 1 \in S
  <2>1. PICK i \in 1 .. m : i = k + 1 /\ i \in 0 .. m /\ i # 0 /\ i - 1 = k
    BY <1>4
  <2>2. f[i] = f[k] + i * a[i]
    BY <1>2, <2>1 DEF IsSum
  <2>3. a[i] \in Nat
    BY <1>1
  <2>4. i * a[i] \in Nat
    <3>1. PICK x \in Nat, z \in Nat : x = i /\ z = a[i]
      BY <2>3
    <3> QED
      BY <3>1
  <2> QED
    BY <1>4, <2>1, <2>2, <2>4
<1>5. 0 .. m \subseteq S
  <2> HIDE DEF S
  <2> QED
    BY <1>3, <1>4, CountingTo
<1>6. PICK z \in Nat : z = y
  BY <1>2, <1>5
<1>7. \A j \in 1 .. n : (j + z) % 3 \in Nat
  OBVIOUS
<1> QED
  BY <1>2, <1>6, <1>7

LEMMA Computes ==
  ASSUME NEW o, o.op \in {"I32Eqz", "I32LtU", "Select"}, NEW a, a \in Seq(Nat),
         Len(a) = Arity[o.op][1]
  PROVE  Compute(o, a) \in Nat
<1>1. CASE o.op = "I32Eqz"
  BY <1>1 DEF Compute
<1>2. CASE o.op = "I32LtU"
  BY <1>2 DEF Compute
<1>3. CASE o.op = "Select"
  <2>1. Len(a) = 3
    BY <1>3 DEF Arity
  <2>2. \A i \in 1 .. Len(a) : a[i] \in Nat
    OBVIOUS
  <2>3. 1 \in 1 .. Len(a) /\ 2 \in 1 .. Len(a)
    BY <2>1
  <2> QED
    BY <1>3, <2>2, <2>3 DEF Compute
<1> QED
  BY <1>1, <1>2, <1>3

(* A callee's own frame lies above the arguments it takes; whatever it      *)
(* leaves in the storage, its results come down to where they were.         *)
LEMMA FrameCalls ==
  ASSUME NEW s, NEW b, NEW w, NEW h, FrameOK(s, b, w, h), NEW n \in Nat, h - n \in Nat,
         NEW vals, NEW r \in Nat, r = Len(vals), \A i \in 1 .. r : vals[i] \in Nat,
         NEW base, base = callee_base_height(s, n),
         NEW over, over = push_all([s EXCEPT !.sp = base], [i \in 1 .. CalleeDepth |-> Stale]),
         NEW done, done = push_all(over, vals)
  PROVE  FrameOK(exit_frame(done, base, r), b, w, h - n + r)
<1>1. PICK a \in Nat, g \in Nat : a = s.sp /\ h \in Nat /\ b \in Nat /\ g = h - n
                                 /\ a = b + LocalsCount + h
  BY DEF FrameOK, Slots
<1>2. PICK m \in Nat : m = base /\ m = a - n /\ m = b + LocalsCount + g /\ b <= m
  <2>1. base = a - n
    BY <1>1 DEF callee_base_height
  <2>2. a - n \in Nat /\ a - n = b + LocalsCount + g /\ b <= a - n
    BY SMTT(30), <1>1, FrameAssumption
  <2> QED
    BY <2>1, <2>2
<1>3. PICK u : u = pops(s, n) /\ u = [s EXCEPT !.sp = base]
  BY <1>1, <1>2 DEF pops
<1>4. FrameOK(u, b, w, g)
  BY <1>1, <1>3, FramePops
<1>5. u.sp = m /\ Slots(u)
  BY <1>2, <1>4 DEF FrameOK
<1>6. PICK d, q : /\ d \in Nat /\ d = CalleeDepth
                  /\ q = [i \in 1 .. d |-> Stale] /\ d = Len(q)
  <2>1. PICK d \in Nat : d = CalleeDepth
    BY FrameAssumption
  <2>2. PICK q : q = [i \in 1 .. d |-> Stale]
    OBVIOUS
  <2> QED
    BY <2>1, <2>2
<1>7. Pushes(u, over, q, d)
  <2>1. over = push_all(u, q)
    BY <1>3, <1>6
  <2>2. \A i \in 1 .. d : q[i] \in Slot
    BY <1>6 DEF Slot
  <2> QED
    BY <1>5, <1>6, <2>1, <2>2, PushAllSlots
<1>8. Slots(over) /\ over.sp = m + d /\ Below(u, over, m)
  BY <1>5, <1>7 DEF Pushes
<1>9. Pushes(over, done, vals, r)
  <2>1. \A i \in 1 .. r : vals[i] \in Slot
    BY DEF Slot
  <2> QED
    BY <1>8, <2>1, PushAllSlots
<1>10. PICK y \in Nat : /\ y = m + d /\ m <= y
                        /\ Slots(done) /\ done.sp = y + r /\ Below(over, done, y)
                        /\ \A i \in 1 .. r : done.stack[y + i] = vals[i]
  <2>1. PICK y \in Nat : y = m + d /\ m <= y
    <3>1. d \in Nat
      BY <1>6
    <3>2. m + d \in Nat /\ m <= m + d
      BY ONLY <3>1, m \in Nat
    <3> QED
      BY ONLY <3>2
  <2>2. over.sp = y
    BY <1>8, <2>1
  <2>3. /\ Slots(done) /\ done.sp = over.sp + r /\ Below(over, done, over.sp)
        /\ \A i \in 1 .. r : done.stack[over.sp + i] = vals[i]
    BY ONLY <1>9 DEF Pushes
  <2>4. /\ Slots(done) /\ done.sp = y + r /\ Below(over, done, y)
        /\ \A i \in 1 .. r : done.stack[y + i] = vals[i]
    BY ONLY <2>2, <2>3
  <2> QED
    BY ONLY <2>1, <2>4, y \in Nat
<1>11. PICK t : t = truncate_by_preserving_arity(done, m, r) /\ t = exit_frame(done, base, r)
  BY <1>2 DEF exit_frame
<1>12. Unwinds(done, t, m, r)
  <2>1. m + r <= done.sp
    BY ONLY <1>10, m \in Nat, r \in Nat, y \in Nat
  <2> QED
    BY ZenonT(30), <1>10, <1>11, <2>1, UnwindSlots
<1>13. /\ Slots(t) /\ t.sp = m + r /\ Below(done, t, m)
       /\ \A i \in 1 .. r : t.stack[m + i] = done.stack[y + i]
  <2>1. done.sp - r = y
    BY ONLY <1>10, r \in Nat, y \in Nat
  <2> QED
    BY ONLY <1>12, <2>1 DEF Unwinds
<1>14. Below(u, t, m)
  <2>1. \A i \in 1 .. m : i \in 1 .. y
    BY ONLY <1>10, m \in Nat, y \in Nat
  <2> QED
    BY ONLY <1>8, <1>10, <1>13, <2>1 DEF Below
<1>15. \A i \in 1 .. r : t.stack[m + i] = vals[i]
  BY ONLY <1>10, <1>13
<1>16. ASSUME NEW i \in 1 .. m + r
       PROVE  t.stack[i] \in Nat
  <2>1. CASE i <= m
    <3>1. i \in 1 .. m
      BY <2>1
    <3>2. u.stack[i] \in Nat
      BY <1>4, <1>5, <3>1 DEF FrameOK
    <3> QED
      BY <1>14, <3>1, <3>2 DEF Below
  <2>2. CASE i > m
    <3>1. PICK k \in 1 .. r : i = m + k
      <4>1. i - m \in 1 .. r /\ i = m + (i - m)
        BY ONLY <2>2, i \in 1 .. m + r, m \in Nat, r \in Nat
      <4> QED
        BY <4>1
    <3> QED
      BY <1>15, <3>1
  <2> QED
    BY <1>2, <2>1, <2>2
<1>17. Below(u, t, b)
  <2>1. \A i \in 1 .. b : i \in 1 .. m
    BY <1>1, <1>2
  <2> QED
    BY <1>14, <2>1 DEF Below
<1>18. m + r = b + LocalsCount + (g + r) /\ g + r \in Nat
  <2>1. PICK c \in Nat : c = LocalsCount
    BY FrameAssumption
  <2>2. m = b + c + g /\ b \in Nat
    BY ONLY <1>1, <1>2, <2>1
  <2>3. m + r = b + c + (g + r) /\ g + r \in Nat
    BY ONLY <2>2, b \in Nat, c \in Nat, g \in Nat, r \in Nat, m \in Nat
  <2> QED
    BY ONLY <2>1, <2>3
<1>19. \A i \in 1 .. t.sp : t.stack[i] \in Nat
  BY <1>13, <1>16
<1>20. t.sp = b + LocalsCount + (g + r)
  BY <1>13, <1>18
<1>21. FrameOK(t, b, w, g + r)
  BY <1>4, <1>13, <1>17, <1>18, <1>19, <1>20, FrameStays
<1> QED
  BY <1>1, <1>11, <1>21

LEMMA Concatenates ==
  ASSUME NEW S, NEW x \in Seq(S), NEW y \in Seq(S), NEW q, q = x \o y
  PROVE  /\ q \in Seq(S) /\ Len(q) = Len(x) + Len(y)
         /\ \A i \in 1 .. Len(x) : q[i] = x[i]
OBVIOUS

(* A frame is entered above what its caller keeps, on used storage.         *)
LEMMA FrameEnters ==
  ASSUME NEW w \in Callers, NEW args \in [1 .. ParamsCount -> Args],
         NEW s, s = [stack |-> [i \in 1 .. LocalsCount + 1 |-> Stale], sp |-> 0],
         NEW t, t = enter_frame(push_all(s, w \o args))
  PROVE  FrameOK(t, Len(w), w, 0)
<1>1. PICK b \in Nat, p \in Nat, k \in Nat : /\ b = Len(w) /\ p = ParamsCount
                                            /\ k = LocalsCount - p /\ w \in Seq(Nat)
                                            /\ LocalsCount \in Nat
  <2>1. w \in Seq(Nat) /\ LocalsCount \in Nat /\ ParamsCount \in Nat
    BY FrameAssumption
  <2>2. LocalsCount - ParamsCount \in Nat
    BY FrameAssumption
  <2> QED
    BY <2>1, <2>2
<1>2. Slots(s) /\ s.sp = 0
  <2>1. PICK c, q, S : /\ c \in Nat /\ c = LocalsCount + 1
                       /\ q = [i \in 1 .. c |-> Stale] /\ S = Slot
    BY SMTT(30), <1>1
  <2>2. Stale \in S
    BY <2>1 DEF Slot
  <2>3. q \in Seq(S) /\ Len(q) = c
    BY ONLY <2>1, <2>2
  <2>4. s = [stack |-> q, sp |-> 0]
    BY <2>1
  <2>5. s.stack = q /\ s.sp = 0 /\ s = [stack |-> s.stack, sp |-> s.sp] /\ 0 \in 0 .. c
    BY <2>1, <2>4
  <2> QED
    BY <2>1, <2>3, <2>5 DEF Slots
<1>3. args \in Seq(Nat) /\ Len(args) = p
  <2>1. args \in [1 .. p -> Nat]
    BY <1>1, FrameAssumption
  <2> QED
    BY ONLY <2>1, p \in Nat
<1>4. PICK q \in Seq(Nat) : /\ q = w \o args /\ Len(q) = b + p
                           /\ \A i \in 1 .. b : q[i] = w[i]
  <2>1. w \in Seq(Nat) /\ Len(w) = b
    BY <1>1
  <2>2. PICK q : q = w \o args
    OBVIOUS
  <2>3. PICK S : S = Nat
    OBVIOUS
  <2>4. w \in Seq(S) /\ args \in Seq(S)
    BY ONLY <1>3, <2>1, <2>3
  <2>5. q \in Seq(S) /\ Len(q) = Len(w) + Len(args) /\ \A i \in 1 .. Len(w) : q[i] = w[i]
    BY ONLY <2>2, <2>4, Concatenates
  <2> QED
    BY ONLY <1>3, <2>1, <2>2, <2>3, <2>5
<1>5. \A i \in 1 .. b + p : q[i] \in Nat
  <2>1. \A i \in 1 .. Len(q) : q[i] \in Nat
    OBVIOUS
  <2> QED
    BY ONLY <1>4, <2>1
<1>6. PICK u : u = push_all(s, q)
  OBVIOUS
<1>7. Pushes(s, u, q, b + p)
  <2>1. PICK n \in Nat : n = b + p /\ n = Len(q)
    BY <1>4
  <2>2. \A i \in 1 .. n : q[i] \in Slot
    BY <1>5, <2>1 DEF Slot
  <2>3. Pushes(s, u, q, n)
    BY <1>2, <1>6, <2>1, <2>2, PushAllSlots
  <2> QED
    BY <2>1, <2>3
<1>8. Slots(u) /\ u.sp = b + p /\ \A i \in 1 .. b + p : u.stack[i] = q[i]
  <2>1. /\ Slots(u) /\ u.sp = 0 + (b + p)
        /\ \A i \in 1 .. b + p : u.stack[0 + i] = q[i]
    BY <1>2, <1>7 DEF Pushes
  <2>2. \A i \in 1 .. b + p : 0 + i = i
    OBVIOUS
  <2>3. \A i \in 1 .. b + p : u.stack[i] = q[i]
    BY <2>1, <2>2
  <2> QED
    BY <2>1, <2>3
<1>9. PICK z : z = Zeros(k) /\ Len(z) = k /\ \A i \in 1 .. k : z[i] = 0
  <2>1. PICK z : z = [i \in 1 .. k |-> 0]
    OBVIOUS
  <2>2. z = Zeros(k)
    BY <2>1 DEF Zeros
  <2> QED
    BY <2>1, <2>2
<1>10. Pushes(u, t, z, k)
  <2>1. t = push_all(u, z)
    BY <1>1, <1>4, <1>6, <1>9 DEF enter_frame
  <2>2. \A i \in 1 .. k : z[i] \in Slot
    BY <1>9 DEF Slot
  <2> QED
    BY <1>8, <1>9, <2>1, <2>2, PushAllSlots
<1>11. /\ Slots(t) /\ t.sp = b + p + k /\ Below(u, t, b + p)
       /\ \A i \in 1 .. k : t.stack[b + p + i] = z[i]
  BY <1>8, <1>10 DEF Pushes
<1>12. \A i \in 1 .. b + p : t.stack[i] = q[i]
  BY <1>8, <1>11 DEF Below
<1>13. ASSUME NEW i \in 1 .. b + p + k
       PROVE  t.stack[i] \in Nat
  <2>1. CASE i <= b + p
    <3>1. i \in 1 .. b + p
      BY <2>1
    <3> QED
      BY <1>5, <1>12, <3>1
  <2>2. CASE i > b + p
    <3>1. PICK j \in 1 .. k : i = b + p + j
      <4>1. i - (b + p) \in 1 .. k /\ i = b + p + (i - (b + p))
        BY ONLY <2>2, i \in 1 .. b + p + k, b \in Nat, p \in Nat, k \in Nat
      <4> QED
        BY <4>1
    <3>2. z[j] \in Nat /\ t.stack[b + p + j] = z[j]
      BY ONLY <1>9, <1>11, j \in 1 .. k
    <3> QED
      BY ONLY <3>1, <3>2
  <2> QED
    BY <2>1, <2>2
<1>14. \A i \in 1 .. b : t.stack[i] = w[i]
  <2>1. \A i \in 1 .. b : i \in 1 .. b + p
    OBVIOUS
  <2> QED
    BY <1>4, <1>12, <2>1
<1>15. t.sp = b + LocalsCount + 0
  BY <1>1, <1>11
<1> QED
  BY <1>1, <1>11, <1>13, <1>14, <1>15 DEF FrameOK

LEMMA FrameLeaves ==
  ASSUME NEW s, NEW b, NEW w, NEW h, FrameOK(s, b, w, h), h = ResultsCount
  PROVE  Slots(exit_frame(s, b, ResultsCount))
<1>1. b \in Nat /\ h \in Nat /\ Slots(s) /\ s.sp = b + LocalsCount + h
  BY DEF FrameOK
<1>2. b + h <= s.sp
  BY <1>1, FrameAssumption
<1>3. Unwinds(s, truncate_by_preserving_arity(s, b, h), b, h)
  BY <1>1, <1>2, UnwindSlots
<1> QED
  BY <1>3 DEF Unwinds, exit_frame

LEMMA FramePopsOne ==
  ASSUME NEW s, NEW b, NEW w, NEW h, FrameOK(s, b, w, h), h - 1 \in Nat
  PROVE  FrameOK(pop(s), b, w, h - 1) /\ top(s) \in Nat
<1>1. PICK n \in Nat : n = 1
  OBVIOUS
<1>2. FrameOK(pops(s, n), b, w, h - n) /\ pop(s) = pops(s, n)
  BY <1>1, FramePops
<1> QED
  BY <1>1, <1>2, FrameReads

-----------------------------------------------------------------------------
(* The inductive invariant of a run.                                        *)
Stood(n, s, h) == FrameOK(s, base_height, entry.below, h) /\ Position(ops, n, h)

RunInv ==
  /\ SizeInv /\ status \in {"lowering", "lowered"}
  /\ run \in {"none", "running", "returned", "trapped"}
  /\ run # "none" => status = "lowered"
  /\ run = "none" => pc = 0
  /\ pc \in 0 .. Len(code)
  /\ Slots(Now)
  /\ run = "running" => global \in Nat /\ \E h : Stood(pc, Now, h)

(* A step of a run that stays in its frame.                                 *)
Lasting ==
  \E n, t, h : Goto(n) /\ Becomes(t) /\ global' \in Nat /\ Stood(n, t, h)

LEMMA Lines ==
  ASSUME SizeInv
  PROVE  Len(code) = Len(ops) /\ Len(ops) \in Nat
BY DEF SizeInv, BranchInv, Targets, Lined, IsSeq, code

LEMMA BecomesNow ==
  ASSUME NEW t, Slots(t), Becomes(t)
  PROVE  Now' = t
BY DEF Slots, Becomes, Now

LEMMA LastingHolds ==
  ASSUME RunInv, SizeInv', run = "running", Lasting
  PROVE  RunInv'
<1>1. PICK n, t, h : Goto(n) /\ Becomes(t) /\ global' \in Nat /\ Stood(n, t, h)
  BY DEF Lasting
<1>2. /\ pc' = n /\ ops' = ops /\ lowering' = lowering /\ status' = status
      /\ run' = run /\ base_height' = base_height /\ entry' = entry
  BY <1>1 DEF Goto, loweringVars, readerVars
<1>3. Slots(t)
  BY <1>1 DEF Stood, FrameOK
<1>4. Now' = t
  BY <1>1, <1>3, BecomesNow
<1>5. Stood(pc, Now, h)'
  BY <1>1, <1>2, <1>4 DEF Stood
<1>6. pc' \in 0 .. Len(code)'
  <2>1. n \in 0 .. Len(ops)
    BY <1>1 DEF Stood, Position
  <2>2. Len(code)' = Len(ops)
    BY <1>2, Lines DEF RunInv, code
  <2> QED
    BY <1>2, <2>1, <2>2
<1>7. Slots(Now)'
  BY <1>3, <1>4
<1> QED
  BY <1>1, <1>2, <1>5, <1>6, <1>7 DEF RunInv

(* Where a run stands at an instruction.                                    *)
AtWork(i, h, o) ==
  /\ Facts(i, h, o, instr) /\ pc = i - 1 /\ i = pc + 1
  /\ FrameOK(Now, base_height, entry.below, h) /\ Position(ops, pc, h) /\ global \in Nat
  /\ o.op \notin Refilled => instr = o
  /\ o.op \in {"LocalGet", "LocalSet", "LocalTee"} => o.x \in 0 .. LocalsCount - 1
  /\ o.op = "Const" => o.x \in Nat

LEMMA Working ==
  ASSUME RunInv, run = "running", pc < Len(code)
  PROVE  \E i, h, o : AtWork(i, h, o)
<1>1. PICK h : Stood(pc, Now, h)
  BY DEF RunInv
<1>2. Meets(pc, h)
  BY <1>1 DEF RunInv, Meets, Stood
<1>3. PICK i, o : i = pc + 1 /\ o = ops[i] /\ instr = code[i]
  BY DEF instr
<1>4. Facts(i, h, o, instr) /\ pc = i - 1
  BY <1>2, <1>3, MeetsFacts
<1>5. o.op \notin Refilled => instr = o
  BY <1>3, <1>4 DEF Facts, Knows
<1>6. o \in Alphabets[alphabet].ops /\ alphabet \in DOMAIN Alphabets
  BY <1>4 DEF Facts, RunInv, SizeInv, BranchInv, HeightInv
<1>7. AtWork(i, h, o)
  BY <1>1, <1>3, <1>4, <1>5, <1>6, ImmediatesAssumption DEF AtWork, Stood, RunInv
<1> QED
  BY <1>7

(* To the next instruction, with the stack the operator leaves.             *)
LEMMA NextStands ==
  ASSUME NEW i, NEW h, NEW o, AtWork(i, h, o), NEW popped \in Nat, NEW pushed \in Nat,
         Passes(i, h, popped, pushed),
         NEW t, Becomes(t), FrameOK(t, base_height, entry.below, h - popped + pushed),
         Next1, global' \in Nat
  PROVE  Lasting
<1>1. pc + 1 = i
  BY DEF AtWork
<1>2. Position(ops, i, h - popped + pushed)
  BY DEF Passes
<1>3. Goto(i)
  BY <1>1 DEF Next1
<1>4. PICK g : g = h - popped + pushed
  OBVIOUS
<1>5. Stood(i, t, g)
  BY <1>2, <1>4 DEF Stood
<1> QED
  BY <1>3, <1>5 DEF Lasting

(* A value pushed.                                                          *)
LEMMA PushStands ==
  ASSUME NEW i, NEW h, NEW o, AtWork(i, h, o), Plain(o), Arity[o.op] = <<0, 1>>, o.op # "End",
         NEW x \in Nat, Stacks(push_value(Now, x)), Next1
  PROVE  Lasting
<1>1. PICK a \in Nat, b \in Nat : a = 0 /\ b = 1
  OBVIOUS
<1>2. Facts(i, h, o, instr) /\ FrameOK(Now, base_height, entry.below, h)
      /\ global \in Nat
  BY DEF AtWork
<1>3. Passes(i, h, a, b)
  <2>1. Passes(i, h, Arity[o.op][1], Arity[o.op][2])
    BY <1>2, PassesOn
  <2>2. Arity[o.op][1] = a /\ Arity[o.op][2] = b
    BY <1>1
  <2> QED
    BY <2>1, <2>2
<1>4. PICK t : t = push_value(Now, x)
  OBVIOUS
<1>5. FrameOK(t, base_height, entry.below, h + 1)
  BY <1>2, <1>4, FramePush
<1>6. h + 1 = h - a + b
  BY <1>1, <1>2 DEF FrameOK
<1>7. Becomes(t) /\ global' \in Nat
  BY <1>2, <1>4 DEF Stacks
<1> QED
  BY <1>3, <1>5, <1>6, <1>7, NextStands

LEMMA PushersStand ==
  ASSUME NEW i, NEW h, NEW o, AtWork(i, h, o), Const \/ LocalGet \/ GlobalGet
  PROVE  Lasting
<1>1. instr.op = o.op /\ FrameOK(Now, base_height, entry.below, h) /\ global \in Nat
  BY DEF AtWork, Facts
<1>2. CASE Const
  <2>1. o.op = "Const" /\ instr = o
    BY <1>1, <1>2 DEF Const, At, AtWork, Refilled
  <2>2. PICK x \in Nat : x = instr.x
    BY <2>1 DEF AtWork
  <2>3. Stacks(push_value(Now, x)) /\ Next1
    BY <1>2, <2>2 DEF Const
  <2>4. Plain(o) /\ Arity[o.op] = <<0, 1>> /\ o.op # "End"
    BY <2>1 DEF Plain, Arity
  <2> QED
    BY <2>3, <2>4, PushStands
<1>3. CASE LocalGet
  <2>1. o.op = "LocalGet" /\ instr = o
    BY <1>1, <1>3 DEF LocalGet, At, AtWork, Refilled
  <2>2. instr.x \in 0 .. LocalsCount - 1
    BY <2>1 DEF AtWork
  <2>3. PICK x \in Nat : x = get_local(instr.x)
    <3>1. \A j \in 0 .. LocalsCount - 1 : Now.stack[base_height + j + 1] \in Nat
      BY <1>1, FrameReads
    <3>2. Now.stack = stack
      BY DEF Now
    <3> QED
      BY <2>2, <3>1, <3>2 DEF get_local
  <2>4. Stacks(push_value(Now, x)) /\ Next1
    BY <1>3, <2>3 DEF LocalGet
  <2>5. Plain(o) /\ Arity[o.op] = <<0, 1>> /\ o.op # "End"
    BY <2>1 DEF Plain, Arity
  <2> QED
    BY <2>4, <2>5, PushStands
<1>4. CASE GlobalGet
  <2>1. o.op = "GlobalGet"
    BY <1>1, <1>4 DEF GlobalGet, At
  <2>2. Stacks(push_value(Now, global)) /\ Next1
    BY <1>4 DEF GlobalGet
  <2>3. Plain(o) /\ Arity[o.op] = <<0, 1>> /\ o.op # "End"
    BY <2>1 DEF Plain, Arity
  <2> QED
    BY <1>1, <2>2, <2>3, PushStands
<1> QED
  BY <1>2, <1>3, <1>4

LEMMA PlainPasses ==
  ASSUME NEW i, NEW h, NEW o, AtWork(i, h, o), Plain(o), o.op # "End",
         NEW a \in Nat, NEW b \in Nat, Arity[o.op] = <<a, b>>
  PROVE  Passes(i, h, a, b) /\ h - a \in Nat /\ h \in Nat
<1>1. Facts(i, h, o, instr) /\ h \in Nat
  BY DEF AtWork, FrameOK
<1>2. Passes(i, h, Arity[o.op][1], Arity[o.op][2])
  BY <1>1, PassesOn
<1>3. Arity[o.op][1] = a /\ Arity[o.op][2] = b
  OBVIOUS
<1>4. Passes(i, h, a, b)
  BY <1>2, <1>3
<1> QED
  BY <1>1, <1>4 DEF Passes

(* A value popped, and perhaps a local or the global written.               *)
LEMMA PopStands ==
  ASSUME NEW i, NEW h, NEW o, AtWork(i, h, o), Drop \/ LocalSet \/ GlobalSet
  PROVE  Lasting
<1>1. PICK a \in Nat, b \in Nat : a = 1 /\ b = 0
  OBVIOUS
<1>2. instr.op = o.op /\ FrameOK(Now, base_height, entry.below, h) /\ global \in Nat
  BY DEF AtWork, Facts
<1>3. o.op \in {"Drop", "LocalSet", "GlobalSet"} /\ Next1
  BY <1>2 DEF Drop, LocalSet, GlobalSet, At
<1>4. Plain(o) /\ Arity[o.op] = <<a, b>> /\ o.op # "End"
  BY <1>1, <1>3 DEF Plain, Arity
<1>5. Passes(i, h, a, b) /\ h - a \in Nat /\ h \in Nat
  BY <1>4, PlainPasses
<1>6. PICK g \in Nat : g = h - 1 /\ g = h - a + b
  BY <1>1, <1>5
<1>7. FrameOK(pop(Now), base_height, entry.below, g) /\ top(Now) \in Nat
  BY <1>2, <1>6, FramePopsOne
<1>8. CASE Drop
  <2>1. PICK t : t = pop(Now)
    OBVIOUS
  <2>2. Becomes(t) /\ global' \in Nat
    BY <1>2, <1>8, <2>1 DEF Drop, Stacks
  <2> QED
    BY <1>3, <1>5, <1>6, <1>7, <2>1, <2>2, NextStands
<1>9. CASE GlobalSet
  <2>1. PICK t : t = pop(Now)
    OBVIOUS
  <2>2. Becomes(t) /\ global' \in Nat
    BY <1>7, <1>9, <2>1 DEF GlobalSet
  <2> QED
    BY <1>3, <1>5, <1>6, <1>7, <2>1, <2>2, NextStands
<1>10. CASE LocalSet
  <2>1. o.op = "LocalSet" /\ instr = o
    BY <1>2, <1>10 DEF LocalSet, At, AtWork, Refilled
  <2>2. PICK x \in 0 .. LocalsCount - 1 : x = instr.x
    BY <2>1 DEF AtWork
  <2>3. PICK v \in Nat : v = top(Now)
    BY <1>7
  <2>4. PICK s, t : s = pop(Now) /\ t = [s EXCEPT !.stack[base_height + x + 1] = v]
    OBVIOUS
  <2>5. Becomes(t) /\ global' \in Nat
    BY <1>2, <1>10, <2>2, <2>3, <2>4 DEF LocalSet, Stacks, set_local
  <2>6. FrameOK(t, base_height, entry.below, g)
    BY <1>7, <2>4, FrameSets
  <2> QED
    BY <1>3, <1>5, <1>6, <2>5, <2>6, NextStands
<1> QED
  BY <1>8, <1>9, <1>10

LEMMA TeeStands ==
  ASSUME NEW i, NEW h, NEW o, AtWork(i, h, o), LocalTee
  PROVE  Lasting
<1>1. PICK a \in Nat : a = 1
  OBVIOUS
<1>2. instr.op = o.op /\ FrameOK(Now, base_height, entry.below, h) /\ global \in Nat
  BY DEF AtWork, Facts
<1>3. o.op = "LocalTee" /\ instr = o /\ Next1
  BY <1>2 DEF LocalTee, At, AtWork, Refilled
<1>4. Plain(o) /\ Arity[o.op] = <<a, a>> /\ o.op # "End"
  BY <1>1, <1>3 DEF Plain, Arity
<1>5. Passes(i, h, a, a) /\ h - a \in Nat /\ h \in Nat
  BY <1>4, PlainPasses
<1>6. PICK x \in 0 .. LocalsCount - 1 : x = instr.x
  BY <1>3 DEF AtWork
<1>7. PICK v \in Nat : v = top(Now)
  BY <1>1, <1>2, <1>5, FrameReads
<1>8. PICK s, t : s = Now /\ t = [s EXCEPT !.stack[base_height + x + 1] = v]
  OBVIOUS
<1>9. Becomes(t) /\ global' \in Nat
  BY <1>2, <1>6, <1>7, <1>8 DEF LocalTee, Stacks, set_local
<1>10. FrameOK(t, base_height, entry.below, h)
  BY <1>2, <1>8, FrameSets
<1>11. h = h - a + a
  BY <1>5
<1> QED
  BY <1>3, <1>5, <1>9, <1>10, <1>11, NextStands

LEMMA NumericStands ==
  ASSUME NEW i, NEW h, NEW o, AtWork(i, h, o), Numeric
  PROVE  Lasting
<1>1. PICK b \in Nat : b = 1
  OBVIOUS
<1>2. instr.op = o.op /\ FrameOK(Now, base_height, entry.below, h) /\ global \in Nat
  BY DEF AtWork, Facts
<1>3. o.op \in {"I32Eqz", "I32LtU", "Select"} /\ Next1
  BY <1>2 DEF Numeric, At
<1>4. PICK n \in Nat : n = Arity[o.op][1] /\ Arity[o.op] = <<n, b>> /\ Plain(o) /\ o.op # "End"
  BY <1>1, <1>3 DEF Plain, Arity
<1>5. Passes(i, h, n, b) /\ h - n \in Nat /\ h \in Nat
  BY <1>4, PlainPasses
<1>6. last(Now, n) \in Seq(Nat) /\ Len(last(Now, n)) = n
  BY <1>2, <1>5, FrameLast
<1>7. PICK x \in Nat : x = Compute(instr, last(Now, n))
  <2>1. PICK a : a = last(Now, n) /\ a \in Seq(Nat) /\ Len(a) = Arity[instr.op][1]
    BY <1>2, <1>4, <1>6
  <2>2. Compute(instr, a) \in Nat
    BY <1>2, <1>3, <2>1, Computes
  <2> QED
    BY <2>1, <2>2
<1>8. PICK s, t : s = pops(Now, n) /\ t = push_value(s, x)
  OBVIOUS
<1>9. FrameOK(s, base_height, entry.below, h - n)
  BY <1>2, <1>5, <1>8, FramePops
<1>10. FrameOK(t, base_height, entry.below, h - n + 1)
  BY <1>8, <1>9, FramePush
<1>11. Becomes(t) /\ global' \in Nat
  BY <1>2, <1>4, <1>7, <1>8 DEF Numeric, Stacks
<1> QED
  BY <1>1, <1>3, <1>5, <1>10, <1>11, NextStands

LEMMA MarkerStands ==
  ASSUME NEW i, NEW h, NEW o, AtWork(i, h, o), Marker
  PROVE  Lasting
<1>1. /\ instr.op = o.op /\ FrameOK(Now, base_height, entry.below, h) /\ global \in Nat
      /\ Facts(i, h, o, instr) /\ pc + 1 = i /\ pc = i - 1 /\ Position(ops, pc, h)
  BY DEF AtWork, Facts
<1>2. /\ o.op \in {"Nop", "Block", "Loop", "End"} /\ Goto(i)
      /\ UNCHANGED <<stack, stack_pointer, global>>
  BY <1>1 DEF Marker, At, Next1
<1>3. PICK t : t = Now
  OBVIOUS
<1>4. Becomes(t) /\ global' \in Nat
  BY <1>1, <1>2, <1>3 DEF Becomes, Now
<1>5. h \in Nat
  BY <1>1 DEF FrameOK
<1>6. Position(ops, i, h)
  <2>1. CASE o.op = "End"
    BY <1>1, <2>1, PassesEnd
  <2>2. CASE o.op # "End"
    <3>1. PICK z \in Nat : z = 0
      OBVIOUS
    <3>2. Passes(i, h, z, z)
      <4>1. CASE o.op = "Nop"
        <5>1. Plain(o) /\ Arity[o.op] = <<z, z>>
          BY <3>1, <4>1 DEF Plain, Arity
        <5> QED
          BY <2>2, <5>1, PlainPasses
      <4>2. CASE o.op \in {"Block", "Loop"}
        BY <1>1, <2>2, <3>1, <4>2, PassesOn
      <4> QED
        BY <1>2, <2>2, <4>1, <4>2
    <3>3. h - z + z = h
      BY <1>5
    <3> QED
      BY <3>2, <3>3 DEF Passes
  <2> QED
    BY <2>1, <2>2
<1>7. Stood(i, t, h)
  BY <1>1, <1>3, <1>6 DEF Stood
<1> QED
  BY <1>2, <1>4, <1>7 DEF Lasting

(* The arguments of a call, once the slot of an indirect one is popped.     *)
LEMMA CalledStands ==
  ASSUME NEW i, NEW h, NEW o, AtWork(i, h, o), CallReady, NEW n, n = instr.ty[1],
         NEW r, r = instr.ty[2]
  PROVE  /\ n \in Nat /\ r \in Nat
         /\ \E g \in Nat : /\ FrameOK(Called, base_height, entry.below, g) /\ g - n \in Nat
                           /\ Position(ops, i, g - n + r)
<1>1. /\ instr.op = o.op /\ FrameOK(Now, base_height, entry.below, h) /\ IsOperator(o)
      /\ Facts(i, h, o, instr) /\ h \in Nat
  BY DEF AtWork, Facts, FrameOK
<1>2. o.op \in {"Call", "CallIndirect"}
  BY <1>1 DEF CallReady, At
<1>3. instr = o /\ o.op # "End"
  BY <1>2 DEF AtWork, Refilled
<1>4. n \in Nat /\ r \in Nat
  BY <1>1, <1>3 DEF IsOperator
<1>5. PICK p \in Nat : p = CallPops(o) /\ Passes(i, h, p, r)
  <2>1. CallPops(o) \in Nat
    BY <1>3, <1>4 DEF CallPops
  <2>2. Passes(i, h, CallPops(o), r)
    BY <1>1, <1>2, <1>3, PassesOn DEF IsCall
  <2> QED
    BY <2>1, <2>2
<1>6. h - p \in Nat /\ Position(ops, i, h - p + r)
  BY <1>5 DEF Passes
<1>7. CASE o.op = "Call"
  <2>1. Called = Now /\ p = n
    BY <1>1, <1>3, <1>4, <1>5, <1>7 DEF Called, CallPops
  <2> QED
    BY <1>1, <1>4, <1>6, <2>1
<1>8. CASE o.op = "CallIndirect"
  <2>1. Called = pop(Now) /\ p = n + 1
    BY <1>1, <1>3, <1>4, <1>5, <1>8 DEF Called, CallPops
  <2>2. PICK g \in Nat : g = h - 1 /\ g - n = h - p
    <3>1. h - 1 \in Nat /\ (h - 1) - n = h - p
      BY ONLY <1>1, <1>4, <1>6, <2>1, p \in Nat
    <3> QED
      BY <3>1
  <2>3. FrameOK(pop(Now), base_height, entry.below, g)
    BY <1>1, <2>2, FramePopsOne
  <2> QED
    BY <1>4, <1>6, <2>1, <2>2, <2>3
<1> QED
  BY <1>2, <1>7, <1>8

LEMMA CallsStand ==
  ASSUME NEW i, NEW h, NEW o, AtWork(i, h, o), ImportedCall \/ LocalCall
  PROVE  Lasting
<1>1. CallReady /\ Next1
  BY DEF ImportedCall, LocalCall
<1>2. PICK n, r : n = instr.ty[1] /\ r = instr.ty[2]
  OBVIOUS
<1>3. n \in Nat /\ r \in Nat
  BY <1>1, <1>2, CalledStands
<1>4. PICK g \in Nat : /\ FrameOK(Called, base_height, entry.below, g) /\ g - n \in Nat
                       /\ Position(ops, i, g - n + r)
  BY <1>1, <1>2, CalledStands
<1>5. pc + 1 = i /\ global \in Nat
  BY DEF AtWork
<1>6. PICK s : s = Called /\ FrameOK(s, base_height, entry.below, g)
  BY <1>4
<1>7. PICK vals : vals = Callee(last(s, n), r)
  OBVIOUS
<1>8. r = Len(vals) /\ \A k \in 1 .. r : vals[k] \in Nat
  <2>1. PICK a : a = last(s, n) /\ a \in Seq(Nat)
    BY <1>3, <1>4, <1>6, FrameLast
  <2>2. vals = Callee(a, r)
    BY <1>7, <2>1
  <2> QED
    BY <1>3, <2>1, <2>2, Answers
<1>9. CASE ImportedCall
  <2>1. PICK u, t : u = pops(s, n) /\ t = push_all(u, vals)
    OBVIOUS
  <2>2. FrameOK(u, base_height, entry.below, g - n)
    BY <1>3, <1>4, <1>6, <2>1, FramePops
  <2>3. FrameOK(t, base_height, entry.below, g - n + r)
    BY <1>3, <1>8, <2>1, <2>2, FramePushes
  <2>4. Becomes(t) /\ global' \in Nat
    BY <1>2, <1>5, <1>6, <1>7, <1>9, <2>1 DEF ImportedCall, Stacks
  <2>5. Stood(i, t, g - n + r) /\ Goto(i)
    BY <1>1, <1>4, <1>5, <2>3 DEF Stood, Next1
  <2> QED
    BY <2>4, <2>5 DEF Lasting
<1>10. CASE LocalCall
  <2>1. PICK base : base = callee_base_height(s, n)
    OBVIOUS
  <2>2. PICK over : over = push_all([s EXCEPT !.sp = base], [k \in 1 .. CalleeDepth |-> Stale])
    OBVIOUS
  <2>3. PICK done, t : done = push_all(over, vals) /\ t = exit_frame(done, base, r)
    OBVIOUS
  <2>4. FrameOK(t, base_height, entry.below, g - n + r)
    BY <1>3, <1>4, <1>6, <1>8, <2>1, <2>2, <2>3, FrameCalls
  <2>5. Becomes(t) /\ global' \in Nat
    BY <1>2, <1>5, <1>6, <1>7, <1>10, <2>1, <2>2, <2>3 DEF LocalCall, Stacks
  <2>6. Stood(i, t, g - n + r) /\ Goto(i)
    BY <1>1, <1>4, <1>5, <2>4 DEF Stood, Next1
  <2> QED
    BY <2>5, <2>6 DEF Lasting
<1> QED
  BY <1>9, <1>10

(* A jump unwinds to its label.                                             *)
LEMMA UnwoundStands ==
  ASSUME NEW s, NEW h, FrameOK(s, base_height, entry.below, h),
         NEW jump, Goes(jump, h), NEW t, t = unwound(s, jump)
  PROVE  \E g : Stood(jump.target_index, t, g)
<1>1. PICK r \in Nat, n \in Nat : /\ r = jump.recorded_height /\ n = jump.arity /\ r + n <= h
                                 /\ Position(ops, jump.target_index, r + n)
  BY DEF Goes
<1>2. t = truncate_by_preserving_arity(s, r + callee_frame_base_height(base_height), n)
  BY <1>1 DEF unwound
<1>3. FrameOK(t, base_height, entry.below, r + n)
  BY <1>1, <1>2, FrameUnwinds
<1> QED
  BY <1>1, <1>3 DEF Stood

LEMMA BrStands ==
  ASSUME NEW i, NEW h, NEW o, AtWork(i, h, o), BrStep
  PROVE  Lasting
<1>1. /\ instr.op = o.op /\ FrameOK(Now, base_height, entry.below, h) /\ global \in Nat
      /\ Facts(i, h, o, instr) /\ h \in Nat
  BY DEF AtWork, Facts, FrameOK
<1>2. o.op \in {"Br", "Return"} /\ Stacks(unwound(Now, instr)) /\ Goto(instr.target_index)
  BY <1>1 DEF BrStep, At
<1>3. PICK j : j = instr
  OBVIOUS
<1>4. Goes(j, h)
  <2>1. Goes(j, h - (IF o.op = "BrIf" THEN 1 ELSE 0))
    BY <1>1, <1>2, <1>3, JumpsGo
  <2>2. h - (IF o.op = "BrIf" THEN 1 ELSE 0) = h
    BY <1>1, <1>2
  <2> QED
    BY <2>1, <2>2
<1>5. PICK t : t = unwound(Now, j)
  OBVIOUS
<1>6. PICK g : Stood(j.target_index, t, g)
  BY <1>1, <1>4, <1>5, UnwoundStands
<1>7. Becomes(t) /\ global' \in Nat /\ Goto(j.target_index)
  BY <1>1, <1>2, <1>3, <1>5 DEF Stacks
<1> QED
  BY <1>6, <1>7 DEF Lasting

LEMMA BrIfStands ==
  ASSUME NEW i, NEW h, NEW o, AtWork(i, h, o), BrIfStep
  PROVE  Lasting
<1>1. /\ instr.op = o.op /\ FrameOK(Now, base_height, entry.below, h) /\ global \in Nat
      /\ Facts(i, h, o, instr) /\ h \in Nat /\ pc + 1 = i
  BY DEF AtWork, Facts, FrameOK
<1>2. o.op = "BrIf" /\ o.op # "End"
  BY <1>1 DEF BrIfStep, At
<1>3. PICK a \in Nat, b \in Nat : a = 1 /\ b = 0
  OBVIOUS
<1>4. Passes(i, h, a, b)
  BY <1>1, <1>2, <1>3, PassesOn
<1>5. PICK g \in Nat : g = h - 1 /\ g = h - a + b /\ Position(ops, i, g)
  <2>1. h - a \in Nat /\ Position(ops, i, h - a + b)
    BY <1>4 DEF Passes
  <2>2. h - 1 \in Nat /\ h - 1 = h - a + b
    BY <1>1, <1>3, <2>1
  <2> QED
    BY <2>1, <2>2
<1>6. PICK s : s = pop(Now) /\ FrameOK(s, base_height, entry.below, g)
  BY <1>1, <1>5, FramePopsOne
<1>7. CASE top(Now) # 0
  <2>1. PICK j : j = instr
    OBVIOUS
  <2>2. Goes(j, g)
    BY <1>1, <1>2, <1>5, <2>1, JumpsGo
  <2>3. PICK t : t = unwound(s, j)
    OBVIOUS
  <2>4. PICK f : Stood(j.target_index, t, f)
    BY <1>6, <2>2, <2>3, UnwoundStands
  <2>5. Becomes(t) /\ global' \in Nat /\ Goto(j.target_index)
    BY <1>1, <1>6, <1>7, <2>1, <2>3 DEF BrIfStep, Stacks
  <2> QED
    BY <2>4, <2>5 DEF Lasting
<1>8. CASE top(Now) = 0
  <2>1. Becomes(s) /\ global' \in Nat /\ Goto(i)
    BY <1>1, <1>6, <1>8 DEF BrIfStep, Stacks, Next1
  <2>2. Stood(i, s, g)
    BY <1>5, <1>6 DEF Stood
  <2> QED
    BY <2>1, <2>2 DEF Lasting
<1> QED
  BY <1>7, <1>8

LEMMA BrTableStands ==
  ASSUME NEW i, NEW h, NEW o, AtWork(i, h, o), BrTableStep
  PROVE  Lasting
<1>1. /\ instr.op = o.op /\ FrameOK(Now, base_height, entry.below, h) /\ global \in Nat
      /\ Facts(i, h, o, instr)
  BY DEF AtWork, Facts
<1>2. o.op = "BrTable"
  BY <1>1 DEF BrTableStep, At
<1>3. /\ instr.len \in Nat \ {0} /\ h - 1 \in Nat
      /\ \A a \in 1 .. instr.len : Goes(lowering.br_targets[instr.start_index + a], h - 1)
  BY <1>1, <1>2, ArmsGo
<1>4. PICK s : s = pop(Now) /\ FrameOK(s, base_height, entry.below, h - 1) /\ top(Now) \in Nat
  BY <1>1, <1>3, FramePopsOne
<1>5. PICK a \in 1 .. instr.len : a = arm_selected(instr.len, top(Now))
  <2>1. PICK k \in Nat, m \in Nat \ {0} : k = top(Now) /\ m = instr.len
    BY <1>3, <1>4
  <2>2. arm_selected(m, k) \in 1 .. m
    BY ONLY k \in Nat, m \in Nat \ {0} DEF arm_selected
  <2> QED
    BY <2>1, <2>2
<1>6. PICK j : j = lowering.br_targets[instr.start_index + a]
  OBVIOUS
<1>7. Goes(j, h - 1)
  BY <1>3, <1>6
<1>8. PICK t : t = unwound(s, j)
  OBVIOUS
<1>9. PICK g : Stood(j.target_index, t, g)
  BY <1>4, <1>7, <1>8, UnwoundStands
<1>10. Becomes(t) /\ global' \in Nat /\ Goto(j.target_index)
  BY <1>1, <1>4, <1>5, <1>6, <1>8 DEF BrTableStep, Stacks
<1> QED
  BY <1>9, <1>10 DEF Lasting

LEMMA IfStands ==
  ASSUME NEW i, NEW h, NEW o, AtWork(i, h, o), IfStep
  PROVE  Lasting
<1>1. /\ instr.op = o.op /\ FrameOK(Now, base_height, entry.below, h) /\ global \in Nat
      /\ Facts(i, h, o, instr) /\ h \in Nat /\ pc + 1 = i
  BY DEF AtWork, Facts, FrameOK
<1>2. o.op = "If" /\ o.op # "End"
  BY <1>1 DEF IfStep, At
<1>3. PICK a \in Nat, b \in Nat : a = 1 /\ b = 0
  OBVIOUS
<1>4. Passes(i, h, a, b)
  BY <1>1, <1>2, <1>3, PassesOn
<1>5. PICK g \in Nat : g = h - 1 /\ Position(ops, i, g)
  <2>1. h - a \in Nat /\ Position(ops, i, h - a + b)
    BY <1>4 DEF Passes
  <2>2. h - 1 \in Nat /\ h - 1 = h - a + b
    BY <1>1, <1>3, <2>1
  <2> QED
    BY <2>1, <2>2
<1>6. PICK s : s = pop(Now) /\ FrameOK(s, base_height, entry.below, g)
  BY <1>1, <1>5, FramePopsOne
<1>7. Becomes(s) /\ global' \in Nat
  BY <1>1, <1>6 DEF IfStep, Stacks
<1>8. /\ instr.else_index # Unset => Position(ops, instr.else_index + 1, g)
      /\ instr.else_index = Unset => Position(ops, instr.end_index, g)
  BY <1>1, <1>2, <1>5, IfGoes
<1>9. PICK n : Goto(n) /\ Position(ops, n, g)
  <2>1. CASE top(Now) # 0
    BY <1>1, <1>5, <2>1 DEF IfStep
  <2>2. CASE top(Now) = 0 /\ instr.else_index # Unset
    BY <1>8, <2>2 DEF IfStep
  <2>3. CASE top(Now) = 0 /\ instr.else_index = Unset
    BY <1>8, <2>3 DEF IfStep
  <2> QED
    BY <2>1, <2>2, <2>3
<1> QED
  BY <1>6, <1>7, <1>9 DEF Lasting, Stood

LEMMA ElseStands ==
  ASSUME NEW i, NEW h, NEW o, AtWork(i, h, o), ElseStep
  PROVE  Lasting
<1>1. /\ instr.op = o.op /\ FrameOK(Now, base_height, entry.below, h) /\ global \in Nat
      /\ Facts(i, h, o, instr)
  BY DEF AtWork, Facts
<1>2. o.op = "Else"
  BY <1>1 DEF ElseStep, At
<1>3. PICK n : n = instr.if_end_index /\ Position(ops, n, h)
  BY <1>1, <1>2, ElseGoes
<1>4. PICK t : t = Now
  OBVIOUS
<1>5. Becomes(t) /\ global' \in Nat /\ Goto(n)
  BY <1>1, <1>3, <1>4 DEF ElseStep, Becomes, Now
<1>6. Stood(n, t, h)
  BY <1>1, <1>3, <1>4 DEF Stood
<1> QED
  BY <1>5, <1>6 DEF Lasting

LEMMA LastingSteps ==
  ASSUME RunInv,
         \/ Const \/ LocalGet \/ LocalSet \/ LocalTee \/ GlobalGet \/ GlobalSet \/ Numeric \/ Drop
         \/ Marker \/ ImportedCall \/ LocalCall
         \/ IfStep \/ ElseStep \/ BrStep \/ BrIfStep \/ BrTableStep
  PROVE  run = "running" /\ Lasting
<1>1. run = "running" /\ pc < Len(code)
  BY DEF Const, LocalGet, LocalSet, LocalTee, GlobalGet, GlobalSet, Numeric, Drop, Marker,
         ImportedCall, LocalCall, CallReady, IfStep, ElseStep, BrStep, BrIfStep, BrTableStep, At
<1>2. PICK i, h, o : AtWork(i, h, o)
  BY <1>1, Working
<1> QED
  BY <1>1, <1>2, PushersStand, PopStands, TeeStands, NumericStands, MarkerStands, CallsStand,
     BrStands, BrIfStands, BrTableStands, IfStands, ElseStands

(* A step that ends a run leaves the pointer inside the storage.            *)
LEMMA EndedHolds ==
  ASSUME RunInv, SizeInv', run = "running", run' \in {"returned", "trapped"},
         UNCHANGED <<loweringVars, pc>>, NEW t, Slots(t), Becomes(t)
  PROVE  RunInv'
<1>1. Now' = t
  BY BecomesNow
<1>2. status' = status /\ lowering' = lowering /\ pc' = pc
  BY DEF loweringVars
<1>3. pc' \in 0 .. Len(code)'
  BY <1>2 DEF RunInv, code
<1> QED
  BY <1>1, <1>2, <1>3 DEF RunInv

LEMMA TrapHolds ==
  ASSUME RunInv, SizeInv', CallTrap \/ UnreachableStep
  PROVE  RunInv'
<1>1. /\ run = "running" /\ pc < Len(code) /\ run' = "trapped"
      /\ UNCHANGED <<loweringVars, pc>>
  BY DEF CallTrap, UnreachableStep, At, Trapped
<1>2. PICK i, h, o : AtWork(i, h, o)
  BY <1>1, Working
<1>3. /\ instr.op = o.op /\ FrameOK(Now, base_height, entry.below, h) /\ IsOperator(o)
      /\ Facts(i, h, o, instr) /\ h \in Nat
  BY <1>2 DEF AtWork, Facts, FrameOK
<1>4. CASE UnreachableStep
  <2>1. PICK t : t = Now
    OBVIOUS
  <2>2. Slots(t) /\ Becomes(t)
    BY <1>3, <1>4, <2>1 DEF FrameOK, UnreachableStep, Becomes, Now
  <2> QED
    BY <1>1, <2>2, EndedHolds
<1>5. CASE CallTrap
  <2>1. o.op = "CallIndirect" /\ Becomes(pop(Now))
    BY <1>3, <1>5 DEF CallTrap, At
  <2>2. Passes(i, h, CallPops(o), o.ty[2])
    BY <1>3, <2>1, PassesOn DEF IsCall
  <2>3. PICK n \in Nat : n = o.ty[1] /\ CallPops(o) = n + 1
    BY <1>3, <2>1 DEF IsOperator, CallPops
  <2>4. h - 1 \in Nat
    <3>1. h - (n + 1) \in Nat
      BY <2>2, <2>3 DEF Passes
    <3> QED
      BY <1>3, <3>1
  <2>5. PICK t : t = pop(Now) /\ FrameOK(t, base_height, entry.below, h - 1)
    BY <1>3, <2>4, FramePopsOne
  <2>6. Slots(t)
    BY <2>5 DEF FrameOK
  <2> QED
    BY <1>1, <2>1, <2>5, <2>6, EndedHolds
<1> QED
  BY <1>4, <1>5

LEMMA ReturnHolds ==
  ASSUME RunInv, SizeInv', Returns
  PROVE  RunInv'
<1>1. /\ run = "running" /\ pc >= Len(code) /\ run' = "returned"
      /\ Becomes(exit_frame(Now, base_height, ResultsCount))
      /\ UNCHANGED <<loweringVars, pc>>
  BY DEF Returns
<1>2. PICK h : FrameOK(Now, base_height, entry.below, h) /\ Position(ops, pc, h)
  BY <1>1 DEF RunInv, Stood
<1>3. SizeInv /\ valid.labels = <<>> /\ Traced(ops, valid)
  BY <1>1 DEF RunInv, SizeInv, BranchInv, Sized
<1>4. pc = Len(ops)
  <2>1. PICK m \in Nat : m = Len(ops) /\ m = Len(code)
    BY <1>3, Lines
  <2>2. pc \in 0 .. m /\ pc >= m
    BY <1>1, <2>1 DEF RunInv
  <2> QED
    BY <2>1, <2>2
<1>5. h = ResultsCount
  BY <1>2, <1>3, <1>4, EndsWithResults
<1>6. PICK t : t = exit_frame(Now, base_height, ResultsCount)
  OBVIOUS
<1>7. Slots(t)
  BY <1>2, <1>5, <1>6, FrameLeaves
<1> QED
  BY <1>1, <1>6, <1>7, EndedHolds

LEMMA InvokeHolds ==
  ASSUME RunInv, SizeInv', Invoke
  PROVE  RunInv'
<1>1. /\ status = "lowered" /\ run' = "running" /\ pc' = 0
      /\ ops' = ops /\ status' = status /\ lowering' = lowering
  BY DEF Invoke, loweringVars, readerVars
<1>2. PICK below, args, g, z, s :
        /\ below \in Callers /\ args \in [1 .. ParamsCount -> Args] /\ g \in Globals
        /\ entry' = [below |-> below, locals |-> z, global |-> g]
        /\ s = [stack |-> [i \in 1 .. LocalsCount + 1 |-> Stale], sp |-> 0]
        /\ Becomes(enter_frame(push_all(s, below \o args)))
        /\ base_height' = Len(below) /\ global' = g
  BY DEF Invoke
<1>3. PICK t : t = enter_frame(push_all(s, below \o args))
  OBVIOUS
<1>4. FrameOK(t, Len(below), below, 0)
  BY <1>2, <1>3, FrameEnters
<1>5. entry'.below = below
  BY <1>2
<1>6. Slots(t)
  BY <1>4 DEF FrameOK
<1>7. Now' = t
  BY <1>2, <1>3, <1>6, BecomesNow
<1>8. Position(ops, 0, 0)
  <2>1. PICK vs : vs = CheckedAt(ops)
    OBVIOUS
  <2>2. Traced(ops, valid) /\ Len(ops) \in Nat
    BY Lines DEF RunInv, SizeInv, Sized
  <2>3. vs[0] = NewValidator
    BY <2>1, <2>2, CheckedSteps
  <2>4. CanRun(NewValidator) /\ NewValidator.height = 0
    BY DEF CanRun, NewValidator, Label
  <2>5. PICK n \in 0 .. Len(ops) : n = 0
    BY <2>2
  <2>6. Position(ops, n, vs[n].height)
    BY <2>1, <2>2, <2>3, <2>4, <2>5, Arrives
  <2> QED
    BY <2>3, <2>4, <2>5, <2>6
<1>9. Stood(pc, Now, 0)'
  BY <1>1, <1>2, <1>4, <1>5, <1>7, <1>8 DEF Stood
<1>10. global' \in Nat
  BY <1>2, FrameAssumption
<1>11. pc' \in 0 .. Len(code)'
  <2>1. Len(code)' = Len(code) /\ Len(code) \in Nat
    BY <1>1, Lines DEF RunInv, code
  <2> QED
    BY <1>1, <2>1
<1> QED
  BY <1>1, <1>6, <1>7, <1>9, <1>10, <1>11 DEF RunInv

(* Before the body is lowered nothing runs.                                 *)
LEMMA ReadingHolds ==
  ASSUME RunInv, SizeInv', Lowering \/ Finishing
  PROVE  RunInv'
<1>1. /\ status = "lowering" /\ status' \in {"lowering", "lowered"} /\ UNCHANGED runVars
  BY DEF Lowering, Finishing, Finish, Lower, Reads, Plainly, Call, CallIndirect, Block, If, Else,
         End, Br, BrIf, BrTable, Return, Trap
<1>2. run = "none" /\ pc = 0
  BY <1>1 DEF RunInv
<1>3. run' = "none" /\ pc' = 0 /\ Now' = Now
  BY <1>1, <1>2 DEF runVars, Now
<1>4. Len(code)' \in Nat
  BY DEF SizeInv, BranchInv, Targets, Lined, IsSeq, code
<1>5. Slots(Now)'
  BY <1>3 DEF RunInv
<1> QED
  BY <1>1, <1>3, <1>4, <1>5 DEF RunInv

LEMMA RunStarts ==
  ASSUME Start
  PROVE  RunInv
<1>1. SizeInv /\ status = "lowering"
  BY SizeStarts DEF Start, Init
<1>2. /\ run = "none" /\ pc = 0 /\ Now = [stack |-> <<>>, sp |-> 0]
  BY DEF Start, Now
<1>3. Slots(Now)
  <2>1. PICK s : s = Now /\ s = [stack |-> <<>>, sp |-> 0]
    BY <1>2
  <2>2. s.stack = <<>> /\ s.sp = 0 /\ s = [stack |-> s.stack, sp |-> s.sp]
    BY ONLY <2>1
  <2>3. PICK S : S = Slot
    OBVIOUS
  <2>4. <<>> \in Seq(S) /\ Len(<<>>) = 0 /\ 0 \in Nat /\ 0 \in 0 .. 0
    OBVIOUS
  <2> QED
    BY <2>1, <2>2, <2>3, <2>4 DEF Slots
<1>4. pc \in 0 .. Len(code)
  BY <1>1, <1>2, Lines
<1> QED
  BY <1>1, <1>2, <1>3, <1>4 DEF RunInv

LEMMA RunGoesOn ==
  ASSUME RunInv, [Next]_vars
  PROVE  RunInv'
<1>1. SizeInv'
  BY SizeGoesOn DEF RunInv
<1>2. CASE Lowering \/ Finishing
  BY <1>1, <1>2, ReadingHolds
<1>3. CASE Invoke
  BY <1>1, <1>3, InvokeHolds
<1>4. CASE CallTrap \/ UnreachableStep
  BY <1>1, <1>4, TrapHolds
<1>5. CASE Returns
  BY <1>1, <1>5, ReturnHolds
<1>6. CASE \/ Const \/ LocalGet \/ LocalSet \/ LocalTee \/ GlobalGet \/ GlobalSet \/ Numeric
           \/ Drop \/ Marker \/ ImportedCall \/ LocalCall
           \/ IfStep \/ ElseStep \/ BrStep \/ BrIfStep \/ BrTableStep
  <2>1. run = "running" /\ Lasting
    BY <1>6, LastingSteps
  <2> QED
    BY <1>1, <2>1, LastingHolds
<1>7. CASE UNCHANGED vars
  <2>1. UNCHANGED <<loweringVars, runVars>>
    BY <1>7 DEF vars
  <2>2. /\ ops' = ops /\ lowering' = lowering /\ status' = status /\ run' = run /\ pc' = pc
        /\ stack' = stack /\ stack_pointer' = stack_pointer /\ base_height' = base_height
        /\ global' = global /\ entry' = entry
    BY <2>1 DEF loweringVars, readerVars, runVars
  <2>3. Now' = Now /\ code' = code
    BY <2>2 DEF Now, code
  <2>4. \A h : Stood(pc, Now, h) => Stood(pc, Now, h)'
    BY <2>2, <2>3 DEF Stood
  <2> QED
    BY <1>1, <2>2, <2>3, <2>4 DEF RunInv
<1> QED
  BY <1>2, <1>3, <1>4, <1>5, <1>6, <1>7 DEF Next, Execute

-----------------------------------------------------------------------------
LEMMA FrameHeld ==
  ASSUME RunInv
  PROVE  FrameKept
<1> SUFFICES ASSUME run = "running"
             PROVE  /\ base_height + LocalsCount <= stack_pointer
                    /\ stack_pointer <= Len(stack)
                    /\ SubSeq(stack, 1, base_height) = entry.below
  BY DEF FrameKept
<1>1. PICK h : FrameOK(Now, base_height, entry.below, h)
  BY DEF RunInv, Stood
<1>2. PICK s, w, b : s = Now /\ w = entry.below /\ b = base_height /\ b \in Nat
  BY <1>1 DEF FrameOK
<1>3. /\ Slots(s) /\ h \in Nat /\ s.sp = b + LocalsCount + h
      /\ w \in Seq(Nat) /\ Len(w) = b /\ \A i \in 1 .. b : s.stack[i] = w[i]
  BY <1>1, <1>2 DEF FrameOK
<1>4. s.stack = stack /\ s.sp = stack_pointer
  BY <1>2 DEF Now
<1>5. PICK q \in Seq(Slot), n \in Nat : q = stack /\ n = Len(q) /\ stack_pointer \in 0 .. n
  BY <1>3, <1>4 DEF Slots
<1>6. b + LocalsCount <= stack_pointer /\ stack_pointer <= n /\ b <= n
  BY <1>3, <1>4, <1>5, FrameAssumption
<1>7. SubSeq(q, 1, b) = w
  <2>1. PICK S, f : S = Slot /\ f = SubSeq(q, 1, b) /\ q \in Seq(S)
    OBVIOUS
  <2>2. f = [i \in 1 .. b |-> q[i]]
    <3>1. f = [i \in 1 .. b - 1 + 1 |-> q[i + 1 - 1]]
      BY ONLY <1>2, <1>5, <1>6, <2>1, n \in Nat
    <3>2. b - 1 + 1 = b /\ \A i \in 1 .. b : i + 1 - 1 = i
      BY ONLY <1>2
    <3> QED
      BY ONLY <3>1, <3>2
  <2>3. w = [i \in 1 .. b |-> w[i]]
    <3>1. PICK T : T = Nat
      OBVIOUS
    <3>2. w \in Seq(T)
      BY <1>3, <3>1
    <3> QED
      BY ONLY <3>2, <1>3
  <2> QED
    BY <1>3, <1>4, <1>5, <2>1, <2>2, <2>3
<1> QED
  BY <1>2, <1>5, <1>6, <1>7

LEMMA HeightsHeld ==
  ASSUME RunInv
  PROVE  HeightModelHolds
<1>1. CASE run # "running"
  BY <1>1 DEF HeightModelHolds
<1>2. CASE run = "running"
  <2>1. PICK h : FrameOK(Now, base_height, entry.below, h) /\ Position(ops, pc, h)
    BY <1>2 DEF RunInv, Stood
  <2>2. stack_pointer - callee_frame_base_height(base_height) = h
    <3>1. Now.sp = stack_pointer
      BY DEF Now
    <3>2. /\ base_height \in Nat /\ h \in Nat
          /\ stack_pointer = base_height + LocalsCount + h
      BY <2>1, <3>1 DEF FrameOK
    <3> QED
      BY <3>2, FrameAssumption DEF callee_frame_base_height
  <2>3. h <= lowering.max_height
    <3>1. Len(ops) \in Nat /\ Bounds(ops, lowering.max_height)
      BY Lines DEF RunInv, SizeInv, Sized
    <3>2. pc \in 0 .. Len(ops)
      BY <2>1 DEF Position
    <3>3. PICK j \in 0 .. Len(ops) : j = Comes(ops, pc)
      <4>1. Comes(ops, pc) \in 0 .. Len(ops)
        BY <3>1, <3>2 DEF Comes
      <4> QED
        BY <4>1
    <3>4. CanRun(CheckedAt(ops)[j]) /\ h = CheckedAt(ops)[j].height
      BY <2>1, <3>3 DEF Position
    <3> QED
      BY <3>1, <3>4 DEF Bounds
  <2>4. ASSUME At({"End"})
        PROVE  h = instr.recorded_height + instr.arity
    <3>1. instr.op = "End" /\ pc < Len(code)
      BY <2>4 DEF At
    <3>2. PICK i, g, o : AtWork(i, g, o)
      BY <1>2, <3>1, Working
    <3>3. /\ Facts(i, g, o, instr) /\ o.op = "End" /\ pc = i - 1
          /\ Position(ops, i - 1, g) /\ Position(ops, pc, g)
      BY <3>1, <3>2 DEF AtWork, Facts
    <3>4. g = instr.recorded_height + instr.arity
      BY <3>3, PassesEnd
    <3>5. g = h
      BY <2>1, <3>3, OnePosition
    <3> QED
      BY <3>4, <3>5
  <2> QED
    BY <2>2, <2>3, <2>4 DEF HeightModelHolds
<1> QED
  BY <1>1, <1>2

LEMMA TypeHeld ==
  ASSUME RunInv
  PROVE  StackTypeOK
<1>1. stack_pointer \in 0 .. Len(stack)
  <2>1. Now.stack = stack /\ Now.sp = stack_pointer
    BY DEF Now
  <2> QED
    BY <2>1 DEF RunInv, Slots
<1> QED
  BY <1>1 DEF RunInv, StackTypeOK

(* execute, the frames and the calls keep one run on one stack: the storage *)
(* is where the pointer says, the operands are as many as the validator     *)
(* counts where pc stands, and what lies below the frame is the caller's.   *)
THEOREM RunsStayInFrame == Spec => []RunInv
<1>1. Start => RunInv
  BY RunStarts
<1>2. RunInv /\ [Next]_vars => RunInv'
  BY RunGoesOn
<1> QED
  BY <1>1, <1>2, PTL DEF Spec

(* What get_local, set_local and pop read unchecked is there: a frame of    *)
(* the stack code never pops below its locals, never reads above what was   *)
(* pushed, and gives its caller's operands back as it found them, whatever  *)
(* the callees it calls leave in the storage.                               *)
THEOREM FramesAreKept == Spec => []FrameKept
<1>1. RunInv => FrameKept
  BY FrameHeld
<1> QED
  BY <1>1, RunsStayInFrame, PTL

(* note_height's maximum bounds the operands of every run, and the          *)
(* debug_assert of End holds: however a block's end is reached, by falling  *)
(* in, by a branch, past an else or by a false if without one, its results  *)
(* and nothing else lie above the height recorded when it was opened.       *)
THEOREM HeightModelIsTrue == Spec => []HeightModelHolds
<1>1. RunInv => HeightModelHolds
  BY HeightsHeld
<1> QED
  BY <1>1, RunsStayInFrame, PTL

(* pc stays in the code, the pointer in the storage, and nothing runs that  *)
(* is not lowered.                                                          *)
THEOREM StackTypeCorrect == Spec => []StackTypeOK
<1>1. RunInv => StackTypeOK
  BY TypeHeld
<1> QED
  BY <1>1, RunsStayInFrame, PTL
=============================================================================
