---------------------------- MODULE DriversProofs ----------------------------
(* For every set of bodies and layouts and every depth limit: both driver   *)
(* loops stay inside the register file, resume where they should, admit no  *)
(* chain deeper than the limit, and implement CallChain.                    *)
EXTENDS Drivers, TLAPS

(* The function of the activation that frame i waits for.                   *)
CalleeOf(i) == IF i = Len(frames) THEN current.func_index ELSE frames[i + 1].caller.func_index

(* Each frame waits for the next activation, and expects its results; the   *)
(* outermost activation is the entry function's.  Without it a return might *)
(* copy more results than the callee's frame holds.                         *)
Linked ==
  /\ \A i \in DOMAIN frames :
       /\ frames[i].callee_func_index = CalleeOf(i)
       /\ frames[i].callee_results_count = Layout[frames[i].callee_func_index].results
  /\ IF frames = <<>> THEN current.func_index = entry
     ELSE frames[1].caller.func_index = entry

Covered(a, len) == a.base + frame_width(a.func_index) <= len

(* Every live frame lies inside the file.                                   *)
AllCovered ==
  /\ Covered(current, Len(registers))
  /\ \A i \in DOMAIN frames : Covered(frames[i].caller, Len(registers))

(* The chain's length as each loop counts it.                               *)
Counted ==
  /\ driver = "Native" => call_stack_depth = Len(frames) + 1
  /\ frames # <<>> => Len(frames) + 1 <= MAX_DEPTH

(* The inductive invariant.                                                 *)
DInv == TypeOK /\ (phase = "Running" => Linked /\ AllCovered /\ Counted)

-----------------------------------------------------------------------------
(* Lemmas about layouts and the register file.                              *)

(* The counts of a layout.                                                  *)
LEMMA LayoutFacts ==
  ASSUME NEW f \in Func
  PROVE  /\ Layout[f].params \in Nat /\ Layout[f].results \in Nat
         /\ Layout[f].locals \in Nat /\ Layout[f].spills \in Nat
         /\ Layout[f].registers \in Nat /\ Layout[f].instrs \in Nat
         /\ Layout[f].consts \in Seq(Val) /\ Len(Layout[f].consts) \in Nat
         /\ Layout[f].params <= Layout[f].locals
         /\ Layout[f].locals + Layout[f].results <= Layout[f].registers
         /\ Layout[f].instrs > 0
BY LayoutAssumption DEF Plan

(* The operands and the width of a frame; the results lie inside it.        *)
LEMMA WidthFacts ==
  ASSUME NEW f \in Func
  PROVE  /\ operand_base(f) \in Nat /\ frame_width(f) \in Nat
         /\ operand_base(f) + Layout[f].results <= frame_width(f)
<1> DEFINE l == Layout[f].locals
           c == Len(Layout[f].consts)
           p == Layout[f].spills
           g == Layout[f].registers
           r == Layout[f].results
<1>1. l \in Nat /\ c \in Nat /\ p \in Nat /\ g \in Nat /\ r \in Nat /\ l + r <= g
  BY LayoutFacts
<1>2. operand_base(f) = l + c + p /\ frame_width(f) = g + c + p
  BY DEF operand_base, frame_width
<1> HIDE DEF l, c, p, g, r
<1>3. l + c + p \in Nat /\ g + c + p \in Nat /\ l + c + p + r <= g + c + p
  BY <1>1
<1> QED BY <1>2, <1>3 DEF r

(* A function on an initial segment is a sequence.                          *)
LEMMA FunctionIsSeq ==
  ASSUME NEW n \in Nat, NEW g \in [1 .. n -> Val]
  PROVE  g \in Seq(Val) /\ Len(g) = n
OBVIOUS

(* grown never shrinks the file and reaches the length asked for.           *)
LEMMA GrownShape ==
  ASSUME NEW regs \in Seq(Val), NEW n \in Nat
  PROVE  /\ grown(regs, n) \in Seq(Val)
         /\ Len(grown(regs, n)) >= n
         /\ Len(grown(regs, n)) >= Len(regs)
<1> DEFINE k == n - Len(regs)
           z == [i \in 1 .. k |-> Zero]
<1>0. Len(regs) \in Nat /\ Zero \in Val
  BY CallAssumption
<1>1. CASE k > 0
  <2>1. k \in Nat /\ z \in [1 .. k -> Val]
    BY <1>0, <1>1
  <2>2. z \in Seq(Val) /\ Len(z) = k
    BY <2>1, FunctionIsSeq
  <2> HIDE DEF z
  <2>3. regs \o z \in Seq(Val) /\ Len(regs \o z) = Len(regs) + k
    BY <2>2
  <2> QED BY <2>3, <1>0, <1>1 DEF grown, z
<1>2. CASE ~(k > 0)
  <2>1. 1 .. k = {} /\ 1 .. 0 = {}
    BY <1>0, <1>2
  <2>2. z \in [1 .. 0 -> Val]
    BY <2>1
  <2>3. z \in Seq(Val) /\ Len(z) = 0
    BY <2>2, FunctionIsSeq
  <2> HIDE DEF z
  <2>4. regs \o z \in Seq(Val) /\ Len(regs \o z) = Len(regs)
    BY <2>3
  <2>5. Len(regs) >= n /\ Len(regs) >= Len(regs)
    BY <1>0, <1>2
  <2>6. grown(regs, n) = regs \o z
    BY DEF grown, z
  <2> QED BY <2>4, <2>5, <2>6
<1> QED BY <1>1, <1>2

(* enter_frame leaves a file of values that holds the frame it enters and   *)
(* all that was there.                                                      *)
LEMMA EnterFrameShape ==
  ASSUME NEW regs \in Seq(Val), NEW base \in Nat, NEW f \in Func
  PROVE  /\ enter_frame(regs, base, f) \in Seq(Val)
         /\ Len(enter_frame(regs, base, f)) >= base + frame_width(f)
         /\ Len(enter_frame(regs, base, f)) >= Len(regs)
<1> DEFINE n == base + frame_width(f)
           r == grown(regs, total_register_capacity(base, f))
           consts == base + Layout[f].locals
           e == [i \in DOMAIN r |->
                   IF i \in base + Layout[f].params + 1 .. consts THEN Zero
                   ELSE IF i - consts \in DOMAIN Layout[f].consts THEN Layout[f].consts[i - consts]
                   ELSE r[i]]
<1>1. n \in Nat /\ total_register_capacity(base, f) = n
  BY WidthFacts DEF total_register_capacity
<1> HIDE DEF n
<1>2. r \in Seq(Val) /\ Len(r) >= n /\ Len(r) >= Len(regs)
  BY <1>1, GrownShape
<1> HIDE DEF r
<1>3. Len(r) \in Nat /\ DOMAIN r = 1 .. Len(r)
  BY <1>2
<1>4. e \in [1 .. Len(r) -> Val]
  <2>1. Zero \in Val /\ Layout[f].consts \in Seq(Val)
    BY CallAssumption, LayoutFacts
  <2>2. ASSUME NEW i \in 1 .. Len(r) PROVE e[i] \in Val
    <3>1. r[i] \in Val
      BY <1>2, <1>3
    <3>2. ASSUME i - consts \in DOMAIN Layout[f].consts
          PROVE  Layout[f].consts[i - consts] \in Val
      BY <2>1, <3>2
    <3> QED BY <1>3, <2>1, <3>1, <3>2
  <2> QED BY <1>3, <2>2
<1>5. e \in Seq(Val) /\ Len(e) = Len(r)
  BY <1>3, <1>4, FunctionIsSeq
<1>6. enter_frame(regs, base, f) = e
  BY DEF enter_frame, r
<1> HIDE DEF e
<1> QED BY <1>2, <1>5, <1>6 DEF n

(* exit_frame only copies, from inside the frame it leaves.                 *)
LEMMA ExitFrameShape ==
  ASSUME NEW regs \in Seq(Val), NEW base \in Nat, NEW f \in Func,
         base + frame_width(f) <= Len(regs)
  PROVE  /\ exit_frame(regs, base, f, Layout[f].results) \in Seq(Val)
         /\ Len(exit_frame(regs, base, f, Layout[f].results)) = Len(regs)
<1> DEFINE e == exit_frame(regs, base, f, Layout[f].results)
           o == operand_base(f)
           c == Layout[f].results
<1>1. o \in Nat /\ c \in Nat /\ o + c <= frame_width(f) /\ frame_width(f) \in Nat
  BY WidthFacts, LayoutFacts
<1>2. Len(regs) \in Nat /\ DOMAIN regs = 1 .. Len(regs)
  OBVIOUS
<1>3. e = [i \in 1 .. Len(regs) |-> IF i \in base + 1 .. base + c THEN regs[i + o] ELSE regs[i]]
  BY <1>2 DEF exit_frame
<1> HIDE DEF e, o, c
<1>4. ASSUME NEW i \in 1 .. Len(regs)
      PROVE  (IF i \in base + 1 .. base + c THEN regs[i + o] ELSE regs[i]) \in Val
  <2>1. CASE i \in base + 1 .. base + c
    <3>1. i + o \in 1 .. Len(regs)
      BY <1>1, <1>2, <2>1
    <3> QED BY <2>1, <3>1
  <2>2. CASE i \notin base + 1 .. base + c
    BY <2>2
  <2> QED BY <2>1, <2>2
<1>5. e \in [1 .. Len(regs) -> Val]
  BY <1>3, <1>4
<1> QED BY <1>2, <1>5, FunctionIsSeq DEF e, c

(* A host call writes its results and nothing else.                         *)
LEMMA ImportShape ==
  ASSUME NEW regs \in Seq(Val), NEW base \in Nat, base + HostParams <= Len(regs),
         NEW r, r = set_results_from_import_call(
                      regs, base, Host(get_params_for_import_call(regs, base)))
  PROVE  r \in Seq(Val) /\ Len(r) = Len(regs)
<1> DEFINE args == SubSeq(regs, base + 1, base + HostParams)
           h == Host(args)
<1>1. HostParams \in Nat /\ HostResults \in Nat /\ Len(regs) \in Nat /\ DOMAIN regs = 1 .. Len(regs)
  BY CallAssumption
<1>2. args \in [1 .. HostParams -> Val]
  <2>1. base + HostParams \in Nat /\ base + 1 \in Nat
    BY <1>1
  <2>2. args = [i \in 1 .. (base + HostParams) - (base + 1) + 1 |-> regs[(base + 1) + i - 1]]
    BY <2>1, <1>1
  <2>3. (base + HostParams) - (base + 1) + 1 = HostParams
    BY <1>1
  <2>4. args = [i \in 1 .. HostParams |-> regs[(base + 1) + i - 1]]
    BY <2>2, <2>3
  <2>5. \A i \in 1 .. HostParams : (base + 1) + i - 1 \in 1 .. Len(regs)
    BY <1>1
  <2> HIDE DEF args
  <2> QED BY <2>4, <2>5
<1>3. h \in [1 .. HostResults -> Val]
  BY <1>2, CallAssumption
<1>4. r = [i \in 1 .. Len(regs) |-> IF i - base \in DOMAIN h THEN h[i - base] ELSE regs[i]]
  BY <1>1 DEF set_results_from_import_call, get_params_for_import_call
<1> HIDE DEF h
<1>5. r \in [1 .. Len(regs) -> Val]
  BY <1>1, <1>3, <1>4
<1> QED BY <1>1, <1>5, FunctionIsSeq

-----------------------------------------------------------------------------
(* Lemmas about activations and frames.                                     *)

(* Positions before the last.                                               *)
LEMMA IndexFacts ==
  ASSUME NEW n \in Nat, NEW i \in 1 .. n - 1
  PROVE  /\ i \in 1 .. n /\ i # n /\ i # n + 1
         /\ i + 1 \in 1 .. n
         /\ (i # n - 1 => i + 1 \in 1 .. n - 1)
         /\ (i = n - 1 => i + 1 = n)
OBVIOUS

(* A new activation is at the first instruction of its own body.            *)
LEMMA ExecutingShape ==
  ASSUME NEW f \in Func, NEW base \in Nat
  PROVE  /\ Executing(f, base) \in ActivationRecord
         /\ OwnBody(Executing(f, base))
         /\ Executing(f, base).func_index = f
         /\ Executing(f, base).base = base
BY LayoutFacts DEF Executing, ActivationRecord, OwnBody

(* Moving an activation to another instruction of its body.                 *)
LEMMA MovedShape ==
  ASSUME NEW a \in ActivationRecord, OwnBody(a), NEW pc \in Nat,
         pc < Layout[a.func_index].instrs,
         NEW b, b = [a EXCEPT !.pc = pc]
  PROVE  /\ b \in ActivationRecord /\ OwnBody(b)
         /\ b.func_index = a.func_index /\ b.base = a.base /\ b.pc = pc
BY DEF ActivationRecord, OwnBody

(* Removing the last frame.                                                 *)
LEMMA FrontShape ==
  ASSUME NEW fs \in Seq(FrameRecord), fs # <<>>
  PROVE  /\ Front(fs) \in Seq(FrameRecord)
         /\ Len(fs) \in Nat /\ Len(fs) > 0
         /\ Len(Front(fs)) = Len(fs) - 1
         /\ \A i \in 1 .. Len(fs) - 1 : Front(fs)[i] = fs[i]
         /\ Last(fs) = fs[Len(fs)] /\ Last(fs) \in FrameRecord
<1>1. Len(fs) \in Nat /\ Len(fs) > 0
  OBVIOUS
<1>2. Last(fs) = fs[Len(fs)] /\ Last(fs) \in FrameRecord
  BY <1>1 DEF Last
<1> DEFINE n == Len(fs) - 1
           g == [i \in 1 .. n |-> fs[i]]
<1>3. n \in Nat /\ n <= Len(fs)
  BY <1>1
<1>4. Front(fs) = g
  BY <1>1, <1>3 DEF Front
<1> HIDE DEF n
<1>5. g \in [1 .. n -> FrameRecord]
  BY <1>1, <1>3
<1>6. g \in Seq(FrameRecord) /\ Len(g) = n
  BY <1>3, <1>5
<1> QED BY <1>1, <1>2, <1>4, <1>6 DEF n

(* Adding a frame.                                                          *)
LEMMA AppendShape ==
  ASSUME NEW fs \in Seq(FrameRecord), NEW fr \in FrameRecord
  PROVE  /\ Append(fs, fr) \in Seq(FrameRecord)
         /\ Len(fs) \in Nat
         /\ Len(Append(fs, fr)) = Len(fs) + 1
         /\ \A i \in 1 .. Len(fs) : Append(fs, fr)[i] = fs[i]
         /\ Append(fs, fr)[Len(fs) + 1] = fr
         /\ Append(fs, fr) # <<>>
OBVIOUS

-----------------------------------------------------------------------------
(* Every step preserves the invariant.                                      *)

(* The first state.                                                         *)
LEMMA InitInv == Init => DInv
<1> SUFFICES ASSUME Init PROVE DInv
  OBVIOUS
<1>1. current \in ActivationRecord /\ OwnBody(current)
  BY ExecutingShape DEF Init
<1>2. registers \in Seq(Val) /\ frames \in Seq(FrameRecord) /\ frames = <<>>
  BY DEF Init, reset
<1>3. phase = "Idle" /\ driver \in {"Native", "FrameStack"} /\ entry \in Func /\ call_stack_depth \in Nat
  BY DEF Init
<1>4. TypeOK
  BY <1>1, <1>2, <1>3 DEF TypeOK
<1> QED BY <1>3, <1>4 DEF DInv

(* A call from outside.                                                     *)
LEMMA RunInv ==
  ASSUME DInv, NEW f \in Func, NEW params \in [1 .. Layout[f].params -> Val], Run(f, params)
  PROVE  DInv'
<1>1. set_initial_params(reset, params) \in Seq(Val)
  <2>1. params \in Seq(Val)
    BY LayoutFacts, FunctionIsSeq
  <2> QED BY <2>1 DEF set_initial_params, reset
<1>2. registers' \in Seq(Val) /\ Len(registers') >= 0 + frame_width(f)
  BY <1>1, EnterFrameShape DEF Run
<1>3. /\ current' \in ActivationRecord /\ OwnBody(current)'
      /\ current'.func_index = f /\ current'.base = 0
  BY ExecutingShape DEF Run, OwnBody
<1>4. frames' = <<>> /\ frames' \in Seq(FrameRecord) /\ Len(frames') = 0 /\ DOMAIN frames' = {}
  BY DEF Run
<1>5. /\ driver' = driver /\ phase' = "Running" /\ entry' = f
      /\ call_stack_depth' = counted(1)
  BY DEF Run
<1>6. call_stack_depth' \in Nat /\ (driver' = "Native" => call_stack_depth' = 1)
  BY <1>5 DEF counted
<1>7. TypeOK'
  BY <1>2, <1>3, <1>4, <1>5, <1>6 DEF TypeOK, DInv
<1>8. Linked' /\ Counted'
  BY <1>3, <1>4, <1>5, <1>6 DEF Linked, Counted
<1>9. AllCovered'
  BY <1>2, <1>3, <1>4 DEF AllCovered, Covered
<1> QED BY <1>7, <1>8, <1>9 DEF DInv

(* A step of the running body: the chain stays, the file keeps its length.  *)
LEMMA WithinFrameInv ==
  ASSUME DInv, InBody,
         NEW pc \in Nat, pc < Layout[current.func_index].instrs,
         current' = [current EXCEPT !.pc = pc],
         registers' \in Seq(Val), Len(registers') = Len(registers),
         UNCHANGED <<driver, phase, entry, frames, call_stack_depth>>
  PROVE  DInv'
<1>1. /\ current' \in ActivationRecord /\ OwnBody(current)'
      /\ current'.func_index = current.func_index /\ current'.base = current.base
  <2>1. current \in ActivationRecord /\ OwnBody(current)
    BY DEF DInv, TypeOK
  <2> QED BY <2>1, MovedShape DEF OwnBody
<1>2. phase = "Running" /\ Linked /\ AllCovered /\ Counted /\ TypeOK
  BY DEF DInv, InBody
<1>3. TypeOK'
  BY <1>1, <1>2 DEF TypeOK, OwnBody
<1>4. Linked'
  BY <1>1, <1>2 DEF Linked, CalleeOf
<1>5. AllCovered'
  BY <1>1, <1>2 DEF AllCovered, Covered
<1>6. Counted'
  BY <1>2 DEF Counted
<1> QED BY <1>3, <1>4, <1>5, <1>6 DEF DInv

(* Where the running body is.                                               *)
LEMMA InBodyFacts ==
  ASSUME DInv, InBody
  PROVE  /\ phase = "Running" /\ TypeOK /\ Linked /\ AllCovered /\ Counted
         /\ current.func_index \in Func /\ current.base \in Nat /\ current.pc \in Nat
         /\ current.pc + 1 \in Nat /\ current.pc + 1 < Layout[current.func_index].instrs
         /\ registers \in Seq(Val) /\ Len(registers) \in Nat
         /\ current.base + frame_width(current.func_index) <= Len(registers)
<1>1. phase = "Running" /\ TypeOK /\ Linked /\ AllCovered /\ Counted
  BY DEF DInv, InBody
<1>2. current \in ActivationRecord /\ OwnBody(current) /\ registers \in Seq(Val)
  BY <1>1 DEF TypeOK
<1>3. current.func_index \in Func /\ current.base \in Nat /\ current.pc \in Nat
  BY <1>2 DEF ActivationRecord
<1>4. Layout[current.func_index].instrs \in Nat
  BY <1>3, LayoutFacts
<1>5. current.pc < Layout[current.func_index].instrs - 1
  BY <1>2 DEF InBody, OwnBody
<1>6. current.base + frame_width(current.func_index) <= Len(registers)
  BY <1>1 DEF AllCovered, Covered
<1> QED BY <1>1, <1>2, <1>3, <1>4, <1>5, <1>6

(* An instruction that writes a slot.                                       *)
LEMMA StepNextInv ==
  ASSUME DInv, NEW i, NEW v \in Val, StepNext(i, v)
  PROVE  DInv'
<1>1. InBody
  BY DEF StepNext
<1>2. registers' \in Seq(Val) /\ Len(registers') = Len(registers)
  <2>1. registers \in Seq(Val)
    BY <1>1, InBodyFacts
  <2>2. registers' = [registers EXCEPT ![current.base + i + 1] = v]
    BY DEF StepNext
  <2>3. Len(registers) \in Nat /\ registers \in [1 .. Len(registers) -> Val]
    BY <2>1
  <2>4. registers' \in [1 .. Len(registers) -> Val]
    BY <2>2, <2>3
  <2> QED BY <2>3, <2>4, FunctionIsSeq
<1>3. /\ current' = [current EXCEPT !.pc = current.pc + 1]
      /\ UNCHANGED <<driver, phase, entry, frames, call_stack_depth>>
  BY DEF StepNext
<1> QED BY <1>1, <1>2, <1>3, InBodyFacts, WithinFrameInv

(* A jump.                                                                  *)
LEMMA StepJumpToInv ==
  ASSUME DInv, NEW target \in 0 .. Layout[current.func_index].instrs - 1, StepJumpTo(target)
  PROVE  DInv'
<1>1. InBody
  BY DEF StepJumpTo
<1>2. target \in Nat /\ target < Layout[current.func_index].instrs
  BY <1>1, InBodyFacts, LayoutFacts
<1>3. /\ current' = [current EXCEPT !.pc = target]
      /\ registers' = registers
      /\ UNCHANGED <<driver, phase, entry, frames, call_stack_depth>>
  BY DEF StepJumpTo
<1> QED BY <1>1, <1>2, <1>3, InBodyFacts, WithinFrameInv

(* A host call.                                                             *)
LEMMA CallImportedInv ==
  ASSUME DInv, NEW b \in CallerBases(current.func_index, HostParams, HostResults), CallImported(b)
  PROVE  DInv'
<1> DEFINE base == current.base + b
<1>1. InBody
  BY DEF CallImported
<1>2. base \in Nat /\ base + HostParams <= Len(registers)
  <2>1. current.func_index \in Func /\ current.base \in Nat /\ Len(registers) \in Nat
        /\ current.base + frame_width(current.func_index) <= Len(registers)
    BY <1>1, InBodyFacts
  <2>2. operand_base(current.func_index) \in Nat /\ frame_width(current.func_index) \in Nat
    BY <2>1, WidthFacts
  <2>3. b \in Nat /\ b + HostParams <= frame_width(current.func_index)
    BY <2>2 DEF CallerBases
  <2> QED BY <2>1, <2>2, <2>3, CallAssumption
<1>3. registers' \in Seq(Val) /\ Len(registers') = Len(registers)
  <2>1. registers \in Seq(Val)
    BY <1>1, InBodyFacts
  <2>2. registers' = set_results_from_import_call(
                       registers, base, Host(get_params_for_import_call(registers, base)))
    BY DEF CallImported
  <2> HIDE DEF base
  <2> QED BY <1>2, <2>1, <2>2, ImportShape
<1>4. /\ current' = [current EXCEPT !.pc = current.pc + 1]
      /\ UNCHANGED <<driver, phase, entry, frames, call_stack_depth>>
  BY DEF CallImported
<1> QED BY <1>1, <1>3, <1>4, InBodyFacts, WithinFrameInv

(* A call of a local function.                                              *)
LEMMA StepCallInv ==
  ASSUME DInv, NEW f \in Func,
         NEW b \in CallerBases(current.func_index, Layout[f].params, Layout[f].results),
         StepCall(f, b)
  PROVE  DInv'
<1> DEFINE base == current.base + b
           fr == Frame(f)
           n == Len(frames)
<1>1. InBody
  BY DEF StepCall
<1>2. base \in Nat
  <2>1. operand_base(current.func_index) \in Nat /\ current.base \in Nat
    BY <1>1, InBodyFacts, WidthFacts
  <2> QED BY <2>1 DEF CallerBases
<1>3. /\ frames' = Append(frames, fr) /\ current' = Executing(f, base)
      /\ registers' = enter_frame(registers, base, f)
      /\ call_stack_depth' = counted(call_stack_depth + 1)
      /\ driver' = driver /\ phase' = phase /\ entry' = entry
      /\ depth < MAX_DEPTH
  BY DEF StepCall
<1> HIDE DEF base
<1>4. /\ fr \in FrameRecord /\ fr.caller = current /\ fr.callee_func_index = f
      /\ fr.callee_results_count = Layout[f].results
  <2>1. current \in ActivationRecord /\ Layout[f].results \in Nat
    BY <1>1, InBodyFacts, LayoutFacts DEF TypeOK
  <2> QED BY <2>1 DEF Frame, FrameRecord
<1> HIDE DEF fr
<1>5. frames \in Seq(FrameRecord) /\ TypeOK /\ Linked /\ AllCovered /\ Counted /\ phase = "Running"
  BY <1>1, InBodyFacts DEF TypeOK
<1>6. /\ frames' \in Seq(FrameRecord) /\ n \in Nat /\ Len(frames') = n + 1
      /\ DOMAIN frames' = 1 .. n + 1 /\ DOMAIN frames = 1 .. n
      /\ \A i \in 1 .. n : frames'[i] = frames[i]
      /\ frames'[n + 1] = fr /\ frames' # <<>>
  BY <1>3, <1>4, <1>5, AppendShape
<1>7. /\ registers' \in Seq(Val) /\ Len(registers') >= base + frame_width(f)
      /\ Len(registers') >= Len(registers)
  BY <1>1, <1>2, <1>3, InBodyFacts, EnterFrameShape
<1>8. /\ current' \in ActivationRecord /\ OwnBody(current)'
      /\ current'.func_index = f /\ current'.base = base
  BY <1>2, <1>3, ExecutingShape DEF OwnBody
<1>9. call_stack_depth' \in Nat /\ (driver = "Native" => call_stack_depth' = call_stack_depth + 1)
  BY <1>3, <1>5 DEF counted, TypeOK
<1>10. TypeOK'
  <2>1. ASSUME NEW i \in DOMAIN frames'
        PROVE  /\ OwnBody(frames'[i].caller)
               /\ frames'[i].caller.pc + 1 < Layout[frames'[i].caller.func_index].instrs
    <3>1. CASE i \in 1 .. n
      BY <3>1, <1>5, <1>6 DEF TypeOK
    <3>2. CASE i = n + 1
      BY <3>2, <1>1, <1>4, <1>5, <1>6, InBodyFacts DEF TypeOK
    <3> QED BY <3>1, <3>2, <1>6
  <2> QED BY <2>1, <1>3, <1>5, <1>6, <1>7, <1>8, <1>9 DEF TypeOK, OwnBody
<1>11. Linked'
  <2>1. ASSUME NEW i \in 1 .. n + 1
        PROVE  /\ frames'[i].callee_func_index = CalleeOf(i)'
               /\ frames'[i].callee_results_count = Layout[frames'[i].callee_func_index].results
    <3>1. CASE i = n + 1
      BY <3>1, <1>4, <1>6, <1>8 DEF CalleeOf
    <3>2. CASE i = n
      <4>1. frames[n].callee_func_index = current.func_index
            /\ frames[n].callee_results_count = Layout[frames[n].callee_func_index].results
        BY <3>2, <1>5, <1>6 DEF Linked, CalleeOf
      <4>2. CalleeOf(i)' = current.func_index
        <5>1. i # Len(frames') /\ frames'[i + 1] = fr
          BY <3>2, <1>6
        <5> QED BY <5>1, <1>4 DEF CalleeOf
      <4>3. frames'[i] = frames[n]
        BY <3>2, <1>6
      <4> QED BY <4>1, <4>2, <4>3
    <3>3. CASE i \in 1 .. n - 1
      <4>1. frames[i].callee_func_index = frames[i + 1].caller.func_index
            /\ frames[i].callee_results_count = Layout[frames[i].callee_func_index].results
        BY <3>3, <1>5, <1>6 DEF Linked, CalleeOf
      <4>2. i # n + 1 /\ i \in 1 .. n /\ i + 1 \in 1 .. n
        <5> HIDE DEF n
        <5> QED BY <3>3, <1>6, IndexFacts
      <4>3. frames'[i] = frames[i] /\ frames'[i + 1] = frames[i + 1] /\ i # Len(frames')
        <5> HIDE DEF n
        <5> QED BY <4>2, <1>6
      <4>4. CalleeOf(i)' = frames[i + 1].caller.func_index
        BY <4>3 DEF CalleeOf
      <4> QED BY <4>1, <4>3, <4>4
    <3>4. i = n + 1 \/ i = n \/ i \in 1 .. n - 1
      <4> HIDE DEF n
      <4> QED BY <1>6
    <3> QED BY <3>1, <3>2, <3>3, <3>4
  <2>2. frames'[1].caller.func_index = entry'
    <3>1. CASE n = 0
      BY <3>1, <1>3, <1>4, <1>5, <1>6 DEF Linked
    <3>2. CASE n > 0
      <4>1. frames # <<>> /\ 1 \in 1 .. n
        BY <3>2, <1>5, <1>6
      <4> QED BY <4>1, <1>3, <1>5, <1>6 DEF Linked
    <3> QED BY <3>1, <3>2, <1>6
  <2> QED BY <2>1, <2>2, <1>6 DEF Linked
<1>12. AllCovered'
  <2>1. Covered(current, Len(registers))'
    BY <1>7, <1>8 DEF Covered
  <2>2. ASSUME NEW i \in 1 .. n + 1
        PROVE  Covered(frames'[i].caller, Len(registers'))
    <3> DEFINE a == IF i = n + 1 THEN current ELSE frames[i].caller
    <3>1. frames'[i].caller = a
      BY <1>4, <1>6
    <3>2. a \in ActivationRecord /\ Covered(a, Len(registers))
      <4>1. CASE i = n + 1
        BY <4>1, <1>5 DEF AllCovered, TypeOK
      <4>2. CASE i # n + 1
        <5>1. i \in 1 .. n /\ frames[i] \in FrameRecord
          BY <4>2, <1>5, <1>6
        <5> QED BY <5>1, <4>2, <1>5, <1>6 DEF AllCovered, FrameRecord
      <4> QED BY <4>1, <4>2
    <3> HIDE DEF a
    <3>3. a.base \in Nat /\ frame_width(a.func_index) \in Nat
          /\ Len(registers) \in Nat /\ Len(registers') \in Nat
      <4>1. a.base \in Nat /\ a.func_index \in Func
        BY <3>2 DEF ActivationRecord
      <4>2. Len(registers) \in Nat /\ Len(registers') \in Nat
        BY <1>5, <1>7 DEF TypeOK
      <4> QED BY <4>1, <4>2, WidthFacts
    <3> QED BY <3>1, <3>2, <3>3, <1>7 DEF Covered
  <2> QED BY <2>1, <2>2, <1>6 DEF AllCovered
<1>13. Counted'
  <2>1. n + 1 < MAX_DEPTH
    BY <1>3, <1>5, <1>6 DEF depth, Counted, TypeOK
  <2> QED BY <2>1, <1>3, <1>5, <1>6, <1>9, CallAssumption DEF Counted
<1> QED BY <1>10, <1>11, <1>12, <1>13 DEF DInv

(* The End of a body that was called.                                       *)
LEMMA ReturnToCallerInv ==
  ASSUME DInv, ReturnToCaller
  PROVE  DInv'
<1> DEFINE n == Len(frames)
           fr == Last(frames)
           f == current.func_index
<1>1. phase = "Running" /\ frames # <<>>
  BY DEF ReturnToCaller, AtEnd
<1>2. TypeOK /\ Linked /\ AllCovered /\ Counted /\ frames \in Seq(FrameRecord)
  BY <1>1 DEF DInv, TypeOK
<1>3. /\ n \in Nat /\ n > 0 /\ DOMAIN frames = 1 .. n /\ n \in 1 .. n
      /\ fr = frames[n] /\ fr \in FrameRecord
      /\ Front(frames) \in Seq(FrameRecord) /\ Len(Front(frames)) = n - 1
      /\ \A i \in 1 .. n - 1 : Front(frames)[i] = frames[i]
  BY <1>1, <1>2, FrontShape
<1>4. /\ registers' = exit_frame(registers, current.base, current.frame_layout, callee_results_count)
      /\ current' = resumed(fr) /\ frames' = Front(frames)
      /\ call_stack_depth' = counted(call_stack_depth - 1)
      /\ driver' = driver /\ phase' = phase /\ entry' = entry
  BY DEF ReturnToCaller
<1>5. /\ f \in Func /\ current.base \in Nat /\ current.frame_layout = f
      /\ registers \in Seq(Val) /\ current.base + frame_width(f) <= Len(registers)
  BY <1>2 DEF TypeOK, ActivationRecord, OwnBody, AllCovered, Covered
<1>6. callee_results_count = Layout[f].results
  <2>1. frames[n].callee_results_count = Layout[frames[n].callee_func_index].results
        /\ frames[n].callee_func_index = f
    BY <1>2, <1>3 DEF Linked, CalleeOf
  <2> QED BY <2>1, <1>3 DEF callee_results_count
<1>7. registers' \in Seq(Val) /\ Len(registers') = Len(registers)
  BY <1>4, <1>5, <1>6, ExitFrameShape
<1> HIDE DEF fr
<1>8. /\ fr.caller \in ActivationRecord /\ OwnBody(fr.caller)
      /\ fr.caller.pc \in Nat /\ fr.caller.pc + 1 \in Nat
      /\ fr.caller.pc + 1 < Layout[fr.caller.func_index].instrs
  <2>1. /\ OwnBody(frames[n].caller)
        /\ frames[n].caller.pc + 1 < Layout[frames[n].caller.func_index].instrs
    BY <1>2, <1>3 DEF TypeOK
  <2>2. fr.caller \in ActivationRecord
    BY <1>3 DEF FrameRecord
  <2>3. fr.caller.pc \in Nat
    BY <2>2 DEF ActivationRecord
  <2> QED BY <2>1, <2>2, <2>3, <1>3
<1>9. /\ current' \in ActivationRecord /\ OwnBody(current)'
      /\ current'.func_index = fr.caller.func_index /\ current'.base = fr.caller.base
  BY <1>4, <1>8, MovedShape DEF resumed, OwnBody
<1>10. /\ frames' \in Seq(FrameRecord) /\ Len(frames') = n - 1 /\ DOMAIN frames' = 1 .. n - 1
       /\ \A i \in 1 .. n - 1 : frames'[i] = frames[i] /\ i \in 1 .. n
  <2> HIDE DEF n
  <2>1. frames' \in Seq(FrameRecord) /\ Len(frames') = n - 1
    BY <1>3, <1>4
  <2>2. DOMAIN frames' = 1 .. n - 1
    BY <2>1
  <2>3. \A i \in 1 .. n - 1 : i \in 1 .. n
    BY <1>3, IndexFacts
  <2>4. \A i \in 1 .. n - 1 : frames'[i] = frames[i]
    BY <1>3, <1>4
  <2> QED BY <2>1, <2>2, <2>3, <2>4
<1>11. /\ call_stack_depth' \in Nat
       /\ driver = "Native" => call_stack_depth' = call_stack_depth - 1
  <2>1. call_stack_depth \in Nat /\ (driver = "Native" => call_stack_depth = n + 1)
    BY <1>2 DEF TypeOK, Counted
  <2> QED BY <2>1, <1>3, <1>4 DEF counted
<1>12. TypeOK'
  <2>1. \A i \in DOMAIN frames' :
          /\ OwnBody(frames'[i].caller)
          /\ frames'[i].caller.pc + 1 < Layout[frames'[i].caller.func_index].instrs
    BY <1>2, <1>3, <1>10 DEF TypeOK
  <2> QED BY <2>1, <1>2, <1>4, <1>7, <1>9, <1>10, <1>11 DEF TypeOK, OwnBody
<1>13. Linked'
  <2>1. ASSUME NEW i \in 1 .. n - 1
        PROVE  /\ frames'[i].callee_func_index = CalleeOf(i)'
               /\ frames'[i].callee_results_count = Layout[frames'[i].callee_func_index].results
    <3>1. /\ i # n /\ i \in 1 .. n /\ i + 1 \in 1 .. n
          /\ frames'[i] = frames[i]
      <4> HIDE DEF n
      <4> QED BY SMTT(30), <1>3, <1>10, IndexFacts
    <3>2. frames[i].callee_func_index = frames[i + 1].caller.func_index
          /\ frames[i].callee_results_count = Layout[frames[i].callee_func_index].results
      BY ZenonT(30), <3>1, <1>2, <1>3 DEF Linked, CalleeOf
    <3>3. CalleeOf(i)' = frames[i + 1].caller.func_index
      <4>1. CASE i = n - 1
        <5>1. i = Len(frames') /\ i + 1 = n
          BY <4>1, <1>3, <1>10
        <5> QED BY <5>1, <1>3, <1>9 DEF CalleeOf
      <4>2. CASE i # n - 1
        <5>1. i # Len(frames') /\ i + 1 \in 1 .. n - 1
          <6> HIDE DEF n
          <6> QED BY <4>2, <1>3, <1>10, IndexFacts
        <5> QED BY <5>1, <1>10 DEF CalleeOf
      <4> QED BY <4>1, <4>2
    <3> QED BY <3>1, <3>2, <3>3
  <2>2. IF frames' = <<>> THEN current'.func_index = entry'
        ELSE frames'[1].caller.func_index = entry'
    <3>1. frames[1].caller.func_index = entry
      BY <1>1, <1>2 DEF Linked
    <3>2. CASE n = 1
      <4>1. frames' = <<>>
        BY <3>2, <1>10
      <4> QED BY <4>1, <3>1, <3>2, <1>3, <1>4, <1>9
    <3>3. CASE n # 1
      <4>1. frames' # <<>> /\ 1 \in 1 .. n - 1
        BY <3>3, <1>3, <1>10
      <4> QED BY <4>1, <3>1, <1>4, <1>10
    <3> QED BY <3>2, <3>3
  <2> QED BY <2>1, <2>2, <1>10 DEF Linked
<1>14. AllCovered'
  <2>1. Covered(fr.caller, Len(registers)) /\ \A i \in 1 .. n : Covered(frames[i].caller, Len(registers))
    BY <1>2, <1>3 DEF AllCovered
  <2>2. Covered(current, Len(registers))'
    BY <2>1, <1>7, <1>9 DEF Covered
  <2> QED BY <2>1, <2>2, <1>7, <1>10 DEF AllCovered
<1>15. Counted'
  BY <1>1, <1>2, <1>3, <1>4, <1>10, <1>11, CallAssumption DEF Counted
<1> QED BY <1>12, <1>13, <1>14, <1>15 DEF DInv

(* Leaving the loop.                                                        *)
LEMMA LeaveInv ==
  ASSUME DInv, Leave, entry' = entry, driver' = driver, registers' \in Seq(Val)
  PROVE  DInv'
<1>1. entry \in Func /\ driver \in {"Native", "FrameStack"}
  BY DEF DInv, TypeOK
<1>2. current' \in ActivationRecord /\ OwnBody(current)'
  BY <1>1, ExecutingShape DEF Leave, OwnBody
<1>3. frames' \in Seq(FrameRecord) /\ DOMAIN frames' = {}
  BY DEF Leave
<1>4. phase' = "Idle" /\ call_stack_depth' = 0
  BY DEF Leave
<1>5. TypeOK'
  BY <1>1, <1>2, <1>3, <1>4 DEF TypeOK
<1> QED BY <1>4, <1>5 DEF DInv

(* The End of the entry function.                                           *)
LEMMA FinishInv ==
  ASSUME DInv, Finish
  PROVE  DInv'
<1>1. phase = "Running" /\ frames = <<>>
  BY DEF Finish, AtEnd
<1>2. TypeOK /\ Linked /\ AllCovered
  BY <1>1 DEF DInv
<1>3. current.func_index = entry /\ current.frame_layout = entry
  BY <1>1, <1>2 DEF Linked, TypeOK, OwnBody
<1>4. /\ entry \in Func /\ current.base \in Nat /\ registers \in Seq(Val)
      /\ current.base + frame_width(entry) <= Len(registers)
  BY <1>2, <1>3 DEF TypeOK, ActivationRecord, AllCovered, Covered
<1>5. registers' = exit_frame(registers, current.base, entry, Layout[entry].results)
  BY <1>3 DEF Finish
<1>6. registers' \in Seq(Val)
  BY <1>4, <1>5, ExitFrameShape
<1>7. Leave /\ entry' = entry /\ driver' = driver
  BY DEF Finish
<1> QED BY <1>6, <1>7, LeaveInv

(* A trap of the native loop, and its way out of the chain.                 *)
LEMMA UnwindingInv ==
  ASSUME DInv, (\E err \in Errors : TrapHere(err)) \/ UnwindFrame
  PROVE  DInv'
<1>1. /\ phase' = "Unwinding" /\ UNCHANGED <<driver, entry, registers, current, call_stack_depth>>
      /\ frames' = frames \/ (frames # <<>> /\ frames' = Front(frames))
  BY DEF TrapHere, UnwindFrame
<1>2. TypeOK
  BY DEF DInv
<1>3. /\ frames' \in Seq(FrameRecord)
      /\ \A i \in DOMAIN frames' : i \in DOMAIN frames /\ frames'[i] = frames[i]
  <2>1. CASE frames' = frames
    BY <2>1, <1>2 DEF TypeOK
  <2>2. CASE frames # <<>> /\ frames' = Front(frames)
    <3> DEFINE n == Len(frames)
    <3>1. /\ n \in Nat /\ frames' \in Seq(FrameRecord) /\ Len(frames') = n - 1
          /\ DOMAIN frames = 1 .. n
          /\ \A i \in 1 .. n - 1 : frames'[i] = frames[i]
      BY <2>2, <1>2, FrontShape DEF TypeOK
    <3> HIDE DEF n
    <3>2. DOMAIN frames' = 1 .. n - 1
      BY <3>1
    <3>3. \A i \in 1 .. n - 1 : i \in 1 .. n
      BY <3>1, IndexFacts
    <3> QED BY <3>1, <3>2, <3>3
  <2> QED BY <1>1, <2>1, <2>2
<1>4. TypeOK'
  BY <1>1, <1>2, <1>3 DEF TypeOK, OwnBody
<1> QED BY <1>1, <1>4 DEF DInv

(* The trap reaches the embedder.                                           *)
LEMMA TrapReportedInv ==
  ASSUME DInv, CloseUnwind \/ (\E err \in Errors : FuncCallErr(err))
  PROVE  DInv'
<1>1. Leave /\ entry' = entry /\ driver' = driver /\ registers' = registers
  BY DEF CloseUnwind, FuncCallErr
<1>2. registers \in Seq(Val)
  BY DEF DInv, TypeOK
<1> QED BY <1>1, <1>2, LeaveInv

(* The invariant is inductive.                                              *)
LEMMA NextInv ==
  ASSUME DInv, [Next]_vars
  PROVE  DInv'
<1>1. CASE \E f \in Func : \E params \in [1 .. Layout[f].params -> Val] : Run(f, params)
  BY <1>1, RunInv
<1>2. CASE \E i \in Writable(current.func_index), v \in Val : StepNext(i, v)
  BY <1>2, StepNextInv
<1>3. CASE \E target \in 0 .. Layout[current.func_index].instrs - 1 : StepJumpTo(target)
  BY <1>3, StepJumpToInv
<1>4. CASE \E b \in CallerBases(current.func_index, HostParams, HostResults) : CallImported(b)
  BY <1>4, CallImportedInv
<1>5. CASE \E f \in Func :
             \E b \in CallerBases(current.func_index, Layout[f].params, Layout[f].results) :
               StepCall(f, b)
  BY <1>5, StepCallInv
<1>6. CASE ReturnToCaller
  BY <1>6, ReturnToCallerInv
<1>7. CASE Finish
  BY <1>7, FinishInv
<1>8. CASE (\E err \in Errors : TrapHere(err)) \/ UnwindFrame
  BY <1>8, UnwindingInv
<1>9. CASE CloseUnwind \/ (\E err \in Errors : FuncCallErr(err))
  BY <1>9, TrapReportedInv
<1>10. CASE UNCHANGED vars
  <2>1. TypeOK'
    BY <1>10 DEF DInv, TypeOK, OwnBody, vars
  <2>2. phase = "Running" => Linked' /\ AllCovered' /\ Counted'
    BY <1>10 DEF DInv, Linked, CalleeOf, AllCovered, Covered, Counted, vars
  <2> QED BY <1>10, <2>1, <2>2 DEF DInv, vars
<1> QED
  BY <1>1, <1>2, <1>3, <1>4, <1>5, <1>6, <1>7, <1>8, <1>9, <1>10 DEF Next

-----------------------------------------------------------------------------
(* The theorems.                                                            *)

(* The inductive invariant holds throughout, whatever the bodies and their  *)
(* layouts are: every frame waits for the activation above it and expects   *)
(* its results, and the file covers them all.                               *)
THEOREM DriversInvariance == Spec => []DInv
<1>1. Init => DInv
  BY InitInv
<1>2. DInv /\ [Next]_vars => DInv'
  BY NextInv
<1> QED BY <1>1, <1>2, PTL DEF Spec

(* The loop's variables keep their types; body, layout and offsets stay     *)
(* those of the function executed, and a resumed caller is still in its     *)
(* body.                                                                    *)
THEOREM DriversTypeCorrect == Spec => []TypeOK
<1>1. DInv => TypeOK
  BY DEF DInv
<1> QED BY <1>1, DriversInvariance, PTL

(* The live activations are the callers and then the current one.           *)
LEMMA ActivationsShape ==
  ASSUME TypeOK
  PROVE  /\ Len(frames) \in Nat
         /\ Len(activations) = Len(frames) + 1
         /\ DOMAIN activations = 1 .. Len(frames) + 1
         /\ \A i \in 1 .. Len(frames) : activations[i] = frames[i].caller
         /\ activations[Len(frames) + 1] = current
<1> DEFINE n == Len(frames)
           callers == [i \in 1 .. n |-> frames[i].caller]
<1>1. n \in Nat /\ DOMAIN frames = 1 .. n /\ frames \in Seq(FrameRecord) /\ current \in ActivationRecord
  BY DEF TypeOK
<1>2. \A i \in 1 .. n : frames[i].caller \in ActivationRecord
  <2>1. ASSUME NEW i \in 1 .. n PROVE frames[i] \in FrameRecord
    BY <1>1
  <2> QED BY <2>1 DEF FrameRecord
<1>3. callers \in [1 .. n -> ActivationRecord]
  BY <1>2
<1>4. activations = Append(callers, current)
  BY <1>1 DEF activations
<1>5. \A i \in 1 .. n : callers[i] = frames[i].caller
  OBVIOUS
<1> HIDE DEF n, callers
<1>6. callers \in Seq(ActivationRecord) /\ Len(callers) = n
  BY <1>1, <1>3
<1>7. /\ Len(activations) = n + 1
      /\ activations \in Seq(ActivationRecord)
      /\ \A i \in 1 .. n : activations[i] = callers[i]
      /\ activations[n + 1] = current
  BY <1>1, <1>4, <1>6
<1>8. DOMAIN activations = 1 .. n + 1
  BY <1>7
<1> QED BY <1>1, <1>5, <1>7, <1>8 DEF n

(* No instruction of any live frame indexes past the register file.         *)
THEOREM FilesCoverFrames == Spec => []FileCovers
<1>1. ASSUME DInv PROVE FileCovers
  <2> SUFFICES ASSUME phase = "Running", NEW i \in DOMAIN activations
               PROVE  activations[i].base + frame_width(activations[i].func_index) <= Len(registers)
    BY DEF FileCovers
  <2>1. TypeOK /\ AllCovered
    BY <1>1 DEF DInv
  <2> DEFINE n == Len(frames)
  <2>2. /\ n \in Nat /\ DOMAIN activations = 1 .. n + 1 /\ DOMAIN frames = 1 .. n
        /\ \A j \in 1 .. n : activations[j] = frames[j].caller
        /\ activations[n + 1] = current
    BY <2>1, ActivationsShape DEF TypeOK
  <2>3. i \in 1 .. n \/ i = n + 1
    <3> HIDE DEF n
    <3> QED BY <2>2
  <2> QED BY <2>1, <2>2, <2>3 DEF AllCovered, Covered
<1> QED BY <1>1, DriversInvariance, PTL

(* Neither loop admits a chain deeper than max_call_stack_depth, and the    *)
(* native counter is exact.                                                 *)
THEOREM DepthIsCounted == Spec => []DepthCounted
<1>1. ASSUME DInv PROVE DepthCounted
  <2> SUFFICES ASSUME phase = "Running"
               PROVE  /\ driver = "Native" => call_stack_depth = Len(activations)
                      /\ Len(activations) > 1 => Len(activations) <= MAX_DEPTH
    BY DEF DepthCounted
  <2>1. TypeOK /\ Counted
    BY <1>1 DEF DInv
  <2>2. Len(frames) \in Nat /\ Len(activations) = Len(frames) + 1
    BY <2>1, ActivationsShape
  <2>3. Len(activations) > 1 => frames # <<>>
    BY <2>2
  <2> QED BY <2>1, <2>2, <2>3 DEF Counted
<1> QED BY <1>1, DriversInvariance, PTL

-----------------------------------------------------------------------------
(* The refinement.  Both loops implement CallChain, for every set of        *)
(* bodies, layouts and host functions and every depth limit: on the one     *)
(* register file every activation has slots of its own, its callees leave   *)
(* what it keeps, and both loops report the same trace.                     *)

(* The live activation i, the outermost first.                              *)
A(i) == IF i = Len(frames) + 1 THEN current ELSE frames[i].caller

Depths == 1 .. Len(frames) + 1

(* Where the slots of activation i end: its callee's frame, or its own end. *)
EndOf(i) == IF i = Len(frames) + 1 THEN current.base + frame_width(current.func_index) ELSE A(i + 1).base

(* Each callee is based inside its caller's frame, among the operands and   *)
(* with room for arguments and results, so bases ascend from the entry's 0. *)
Based ==
  /\ A(1).base = 0
  /\ \A i \in 1 .. Len(frames) :
       \E b \in CallerBases(A(i).func_index, Layout[A(i + 1).func_index].params,
                            Layout[A(i + 1).func_index].results) :
         A(i + 1).base = A(i).base + b
  /\ \A i, j \in Depths : i <= j => A(i).base <= A(j).base

(* A frame remembers which kind of call it waits for.                       *)
SitesKept ==
  \A i \in 1 .. Len(frames) :
    frames[i].callee_is_indirect = (frames[i].caller.pc \in IndirectSites)

TraceRecord ==
  [func_index : Func, instr_index : Nat, instr_offset : Func \X Nat,
   kind : ({"NonCall"} \X Errors) \cup ({"Call"} \X Func \X BOOLEAN)]

(* What the refinement needs beside DInv: where the frames of a running     *)
(* chain are, and that an unwinding loop holds a trace so far; only the     *)
(* native loop unwinds, and outcome is Pending while a loop runs.           *)
RInv ==
  /\ DInv
  /\ phase = "Running" => Based /\ SitesKept /\ outcome = Pending
  /\ unwind \in Seq(TraceRecord)

-----------------------------------------------------------------------------
(* Sequences.                                                               *)

(* Equal lengths and elements make equal sequences.                         *)
LEMMA SeqEqual ==
  ASSUME NEW S, NEW T, NEW s \in Seq(S), NEW t \in Seq(T), Len(s) = Len(t),
         \A i \in 1 .. Len(s) : s[i] = t[i]
  PROVE  s = t
<1>1. /\ s = [i \in 1 .. Len(s) |-> s[i]]
      /\ t = [i \in 1 .. Len(t) |-> t[i]]
  OBVIOUS
<1> QED BY <1>1

(* t is the elements of s after a up to b; t is s with v after a + j - 1; u *)
(* is s followed by t.                                                      *)
IsSlice(t, s, a, b, S) ==
  /\ t \in Seq(S)
  /\ Len(t) = b - a
  /\ \A i \in 1 .. b - a : t[i] = s[a + i]

IsWritten(t, s, a, j, v) ==
  /\ t \in Seq(Val) /\ Len(t) = Len(s) /\ t[a + j] = v
  /\ \A k \in 1 .. Len(s) : k # a + j => t[k] = s[k]

IsConcat(u, s, t, S) ==
  /\ u \in Seq(S)
  /\ Len(s) \in Nat /\ Len(t) \in Nat
  /\ Len(u) = Len(s) + Len(t)
  /\ \A i \in 1 .. Len(s) : u[i] = s[i]
  /\ \A i \in 1 .. Len(t) : u[Len(s) + i] = t[i]

(* A slice.                                                                 *)
LEMMA SliceShape ==
  ASSUME NEW S, NEW s \in Seq(S), NEW a \in Nat, NEW b \in Nat, a <= b, b <= Len(s)
  PROVE  IsSlice(SubSeq(s, a + 1, b), s, a, b, S)
<1>1. Len(s) \in Nat /\ DOMAIN s = 1 .. Len(s) /\ b - a \in Nat
  OBVIOUS
<1>2. SubSeq(s, a + 1, b) = [i \in 1 .. b - (a + 1) + 1 |-> s[(a + 1) + i - 1]]
  BY <1>1
<1>3. b - (a + 1) + 1 = b - a
  OBVIOUS
<1> DEFINE g == [i \in 1 .. b - a |-> s[(a + 1) + i - 1]]
<1>4. SubSeq(s, a + 1, b) = g
  BY <1>2, <1>3
<1>5. \A i \in 1 .. b - a : (a + 1) + i - 1 = a + i /\ a + i \in 1 .. Len(s)
  BY <1>1
<1>6. g \in [1 .. b - a -> S]
  BY <1>1, <1>5
<1>7. g \in Seq(S) /\ Len(g) = b - a
  BY <1>1, <1>6
<1>8. \A i \in 1 .. b - a : g[i] = s[a + i]
  BY <1>5
<1> HIDE DEF g
<1> QED BY <1>4, <1>7, <1>8 DEF IsSlice

(* Sequences that agree up to b have the same slices below it.              *)
LEMMA SliceAgrees ==
  ASSUME NEW S, NEW s \in Seq(S), NEW t \in Seq(S), NEW a \in Nat, NEW b \in Nat,
         a <= b, b <= Len(s), b <= Len(t), \A i \in 1 .. b : s[i] = t[i]
  PROVE  SubSeq(s, a + 1, b) = SubSeq(t, a + 1, b)
<1> DEFINE x == SubSeq(s, a + 1, b)
           y == SubSeq(t, a + 1, b)
<1>1. IsSlice(x, s, a, b, S) /\ IsSlice(y, t, a, b, S)
  BY SliceShape
<1> HIDE DEF x, y
<1>2. /\ x \in Seq(S) /\ y \in Seq(S) /\ Len(x) = b - a /\ Len(y) = b - a
      /\ \A i \in 1 .. b - a : x[i] = s[a + i] /\ y[i] = t[a + i]
  BY <1>1 DEF IsSlice
<1>3. \A i \in 1 .. b - a : a + i \in 1 .. b
  OBVIOUS
<1>4. \A i \in 1 .. Len(x) : x[i] = y[i]
  BY <1>2, <1>3
<1> QED BY <1>2, <1>4, SeqEqual DEF x, y

(* Sequences whose first n elements agree have the same prefix.             *)
LEMMA PrefixAgrees ==
  ASSUME NEW S, NEW s \in Seq(S), NEW t \in Seq(S), NEW n \in Nat,
         n <= Len(s), n <= Len(t), \A i \in 1 .. n : s[i] = t[i]
  PROVE  SubSeq(s, 1, n) = SubSeq(t, 1, n)
<1>1. 0 \in Nat /\ 0 <= n /\ 0 + 1 = 1
  OBVIOUS
<1>2. SubSeq(s, 0 + 1, n) = SubSeq(t, 0 + 1, n)
  BY <1>1, SliceAgrees
<1> QED BY <1>1, <1>2

(* A slice of a sequence with one element replaced.                         *)
LEMMA SliceWritten ==
  ASSUME NEW s \in Seq(Val), NEW a \in Nat, NEW b \in Nat, a <= b, b <= Len(s),
         NEW j \in 1 .. b - a, NEW v \in Val,
         NEW t, IsWritten(t, s, a, j, v)
  PROVE  SubSeq(t, a + 1, b) = [SubSeq(s, a + 1, b) EXCEPT ![j] = v]
<1> DEFINE x == SubSeq(s, a + 1, b)
           y == SubSeq(t, a + 1, b)
           z == [x EXCEPT ![j] = v]
<1>1. a + j \in 1 .. Len(s) /\ Len(s) \in Nat
  OBVIOUS
<1>2. \A k \in 1 .. Len(s) : t[k] = IF k = a + j THEN v ELSE s[k]
  BY <1>1 DEF IsWritten
<1>3. IsSlice(x, s, a, b, Val) /\ IsSlice(y, t, a, b, Val)
  BY SliceShape DEF IsWritten
<1> HIDE DEF x, y
<1>4. /\ x \in Seq(Val) /\ y \in Seq(Val) /\ Len(x) = b - a /\ Len(y) = b - a
      /\ \A i \in 1 .. b - a : x[i] = s[a + i] /\ y[i] = t[a + i]
  BY <1>3 DEF IsSlice
<1>5. /\ z \in Seq(Val) /\ Len(z) = b - a
      /\ \A i \in 1 .. b - a : z[i] = IF i = j THEN v ELSE x[i]
  BY <1>4
<1> HIDE DEF z
<1>6. \A i \in 1 .. b - a : a + i \in 1 .. Len(s) /\ (a + i = a + j <=> i = j)
  OBVIOUS
<1>7. ASSUME NEW i \in 1 .. b - a PROVE y[i] = z[i]
  <2>1. y[i] = t[a + i] /\ x[i] = s[a + i] /\ z[i] = IF i = j THEN v ELSE x[i]
    BY <1>4, <1>5
  <2>2. t[a + i] = IF i = j THEN v ELSE s[a + i]
    BY <1>2, <1>6
  <2> QED BY <2>1, <2>2
<1>8. y = z
  BY <1>4, <1>5, <1>7, SeqEqual
<1> QED BY <1>8 DEF x, y, z

(* A concatenation.                                                         *)
LEMMA ConcatShape ==
  ASSUME NEW S, NEW s \in Seq(S), NEW t \in Seq(S)
  PROVE  IsConcat(s \o t, s, t, S)
BY DEF IsConcat

(* A sequence ending in x is what comes before x, with x appended.          *)
LEMMA AppendedTo ==
  ASSUME NEW S, NEW s \in Seq(S), NEW n \in Nat, Len(s) = n + 1
  PROVE  s = Append(SubSeq(s, 1, n), s[n + 1])
<1>1. /\ SubSeq(s, 0 + 1, n) \in Seq(S)
      /\ Len(SubSeq(s, 0 + 1, n)) = n - 0
      /\ \A i \in 1 .. n - 0 : SubSeq(s, 0 + 1, n)[i] = s[0 + i]
  BY SliceShape DEF IsSlice
<1> DEFINE p == SubSeq(s, 1, n)
<1>2. p \in Seq(S) /\ Len(p) = n /\ \A i \in 1 .. n : p[i] = s[i]
  BY <1>1
<1> HIDE DEF p
<1>3. s[n + 1] \in S
  OBVIOUS
<1>4. /\ Append(p, s[n + 1]) \in Seq(S)
      /\ Len(Append(p, s[n + 1])) = n + 1
      /\ \A i \in 1 .. n : Append(p, s[n + 1])[i] = p[i]
      /\ Append(p, s[n + 1])[n + 1] = s[n + 1]
  BY <1>2, <1>3
<1>5. \A i \in 1 .. n + 1 : i \in 1 .. n \/ i = n + 1
  OBVIOUS
<1>6. \A i \in 1 .. n + 1 : Append(p, s[n + 1])[i] = s[i]
  BY <1>2, <1>4, <1>5
<1>7. Append(p, s[n + 1]) = s
  BY <1>4, <1>6, SeqEqual
<1> QED BY <1>7 DEF p

(* A sequence ending in two elements.                                       *)
LEMMA TwoAppended ==
  ASSUME NEW S, NEW s \in Seq(S), NEW n \in Nat, Len(s) = n + 2,
         NEW x \in S, NEW y \in S, s[n + 1] = x, s[n + 2] = y
  PROVE  s = SubSeq(s, 1, n) \o <<x, y>>
<1>1. IsSlice(SubSeq(s, 0 + 1, n), s, 0, n, S)
  BY SliceShape
<1> DEFINE p == SubSeq(s, 1, n)
           q == <<x, y>>
           u == p \o q
<1>2. IsSlice(p, s, 0, n, S) /\ n - 0 = n
  BY <1>1
<1> HIDE DEF p
<1>3. p \in Seq(S) /\ Len(p) = n /\ \A i \in 1 .. n : p[i] = s[i]
  BY <1>2 DEF IsSlice
<1>4. q \in Seq(S) /\ Len(q) = 2 /\ q[1] = x /\ q[2] = y
  OBVIOUS
<1> HIDE DEF q
<1>5. IsConcat(u, p, q, S)
  BY <1>3, <1>4, ConcatShape
<1> HIDE DEF u
<1>6. /\ u \in Seq(S) /\ Len(u) = n + 2
      /\ \A i \in 1 .. n : u[i] = s[i]
      /\ u[n + 1] = x /\ u[n + 2] = y
  BY <1>3, <1>4, <1>5 DEF IsConcat
<1>7. \A i \in 1 .. n + 2 : i \in 1 .. n \/ i = n + 1 \/ i = n + 2
  OBVIOUS
<1>8. \A i \in 1 .. Len(s) : s[i] = u[i]
  BY <1>6, <1>7
<1>9. s = u
  BY <1>6, <1>8, SeqEqual
<1> QED BY <1>9 DEF u, p, q

(* A slice is determined by its bounds, and a slice of a slice is a slice.  *)
LEMMA SliceUnique ==
  ASSUME NEW S, NEW s, NEW a \in Nat, NEW b \in Nat, a <= b,
         NEW x, NEW y, IsSlice(x, s, a, b, S), IsSlice(y, s, a, b, S)
  PROVE  x = y
<1>1. x \in Seq(S) /\ y \in Seq(S) /\ Len(x) = Len(y) /\ \A i \in 1 .. Len(x) : x[i] = y[i]
  BY DEF IsSlice
<1> QED BY <1>1, SeqEqual

LEMMA SliceOfSlice ==
  ASSUME NEW S, NEW s, NEW a \in Nat, NEW b \in Nat, NEW c \in Nat, NEW d \in Nat,
         a <= b, c <= d, d <= b - a, NEW x, NEW y, IsSlice(x, s, a, b, S), IsSlice(y, x, c, d, S)
  PROVE  IsSlice(y, s, a + c, a + d, S)
<1>1. y \in Seq(S) /\ Len(y) = d - c /\ d - c = (a + d) - (a + c)
  BY DEF IsSlice
<1>2. ASSUME NEW i \in 1 .. d - c PROVE y[i] = s[a + c + i]
  <2>1. c + i \in 1 .. b - a /\ a + (c + i) = a + c + i
    OBVIOUS
  <2>2. y[i] = x[c + i] /\ x[c + i] = s[a + (c + i)]
    BY <2>1 DEF IsSlice
  <2> QED BY <2>1, <2>2
<1> DEFINE e == a + c
           f == a + d
<1>3. f - e = d - c /\ \A i \in 1 .. d - c : y[i] = s[e + i]
  BY <1>1, <1>2
<1> HIDE DEF e, f
<1>4. IsSlice(y, s, e, f, S)
  BY <1>1, <1>3 DEF IsSlice
<1> QED BY <1>4 DEF e, f

LEMMA PrefixOfSlice ==
  ASSUME NEW S, NEW s, NEW a \in Nat, NEW b \in Nat, NEW d \in Nat,
         a <= b, d <= b - a, NEW x, NEW y, IsSlice(x, s, a, b, S), IsSlice(y, x, 0, d, S)
  PROVE  IsSlice(y, s, a, a + d, S)
<1>1. PICK c \in Nat : c = 0
  OBVIOUS
<1>2. IsSlice(y, x, c, d, S) /\ c <= d /\ a + c = a
  BY <1>1
<1>3. IsSlice(y, s, a + c, a + d, S)
  BY <1>2, SliceOfSlice
<1> QED BY <1>2, <1>3

(* y is x with h written after position b.                                  *)
IsPatched(y, x, b, h) ==
  /\ x \in Seq(Val) /\ y \in Seq(Val) /\ h \in Seq(Val)
  /\ Len(y) = Len(x) /\ b + Len(h) <= Len(x)
  /\ \A i \in 1 .. b : y[i] = x[i]
  /\ \A i \in 1 .. Len(h) : y[b + i] = h[i]
  /\ \A i \in b + Len(h) + 1 .. Len(x) : y[i] = x[i]

LEMMA PatchedShape ==
  ASSUME NEW x, NEW y, NEW b \in Nat, NEW h, IsPatched(y, x, b, h)
  PROVE  SubSeq(x, 1, b) \o h \o SubSeq(x, b + Len(h) + 1, Len(x)) = y
<1> DEFINE H == Len(h)
           w == Len(x)
           t == b + H
           p == SubSeq(x, 1, b)
           q == SubSeq(x, t + 1, w)
<1>1. /\ x \in Seq(Val) /\ y \in Seq(Val) /\ h \in Seq(Val) /\ H \in Nat /\ w \in Nat
      /\ Len(y) = w /\ t \in Nat /\ t <= w /\ b <= w
  BY DEF IsPatched
<1>2. /\ \A i \in 1 .. b : y[i] = x[i]
      /\ \A i \in 1 .. H : y[b + i] = h[i]
      /\ \A i \in t + 1 .. w : y[i] = x[i]
  BY DEF IsPatched
<1> HIDE DEF H, w
<1>3. p \in Seq(Val) /\ Len(p) = b /\ \A i \in 1 .. b : p[i] = x[i]
  <2>1. 0 \in Nat /\ 0 <= b /\ 0 + 1 = 1
    OBVIOUS
  <2>2. IsSlice(SubSeq(x, 0 + 1, b), x, 0, b, Val)
    BY <2>1, <1>1, SliceShape DEF w
  <2>3. IsSlice(p, x, 0, b, Val)
    BY <2>1, <2>2
  <2> HIDE DEF p
  <2> QED BY <2>3 DEF IsSlice
<1>4. q \in Seq(Val) /\ Len(q) = w - t /\ \A i \in 1 .. w - t : q[i] = x[t + i]
  <2> HIDE DEF t
  <2>1. IsSlice(q, x, t, w, Val)
    BY <1>1, SliceShape DEF w
  <2> HIDE DEF q
  <2> QED BY <2>1 DEF IsSlice
<1> HIDE DEF p, q
<1> DEFINE ph == p \o h
           z == ph \o q
<1>5. IsConcat(ph, p, h, Val)
  BY <1>1, <1>3, ConcatShape
<1>6. /\ ph \in Seq(Val) /\ Len(ph) = t
      /\ \A i \in 1 .. b : ph[i] = x[i]
      /\ \A i \in 1 .. H : ph[b + i] = h[i]
  <2> HIDE DEF ph
  <2> QED BY <1>3, <1>5 DEF IsConcat, H
<1>7. IsConcat(z, ph, q, Val)
  <2> HIDE DEF ph
  <2> QED BY <1>4, <1>6, ConcatShape
<1> HIDE DEF ph, t
<1>8. /\ z \in Seq(Val) /\ Len(z) = t + (w - t)
      /\ \A i \in 1 .. t : z[i] = ph[i]
      /\ \A i \in 1 .. w - t : z[t + i] = x[t + i]
  <2> HIDE DEF z
  <2> QED BY <1>4, <1>6, <1>7 DEF IsConcat
<1> HIDE DEF z
<1>9. Len(z) = w
  BY <1>1, <1>8
<1>10. ASSUME NEW i \in 1 .. w PROVE z[i] = y[i]
  <2>1. CASE i \in 1 .. b
    <3>1. i \in 1 .. t
      BY <2>1, <1>1 DEF t
    <3> QED BY <2>1, <3>1, <1>2, <1>6, <1>8
  <2>2. CASE i \in b + 1 .. t
    <3>1. i - b \in 1 .. H /\ b + (i - b) = i /\ i \in 1 .. t
      BY <2>2, <1>1 DEF t
    <3>2. z[i] = ph[i] /\ ph[b + (i - b)] = h[i - b] /\ y[b + (i - b)] = h[i - b]
      BY <3>1, <1>2, <1>6, <1>8
    <3> QED BY <3>1, <3>2
  <2>3. CASE i \in t + 1 .. w
    <3>1. i - t \in 1 .. w - t /\ t + (i - t) = i
      BY <2>3, <1>1
    <3>2. z[t + (i - t)] = x[t + (i - t)]
      BY <3>1, <1>8
    <3> QED BY <3>1, <3>2, <2>3, <1>2
  <2>4. i \in 1 .. b \/ i \in b + 1 .. t \/ i \in t + 1 .. w
    BY <1>1
  <2> QED BY <2>1, <2>2, <2>3, <2>4
<1>11. z = y
  BY <1>1, <1>8, <1>9, <1>10, SeqEqual
<1> QED BY <1>11 DEF z, ph, p, q, t, H, w

-----------------------------------------------------------------------------
(* The chain that the state of a running loop stands for.                   *)

AbstractActivation == [func : Func, pc : Nat, slots : Seq(Val)]

(* Activation i as CallChain sees it.                                       *)
Seen(i) == [func |-> A(i).func_index, pc |-> A(i).pc,
            slots |-> SubSeq(registers, A(i).base + 1, EndOf(i))]

(* An activation, and where its frame lies.                                 *)
LEMMA ActivationFacts ==
  RInv /\ phase = "Running" =>
    /\ Len(frames) \in Nat /\ registers \in Seq(Val) /\ Len(registers) \in Nat
    /\ \A i \in Depths :
         /\ A(i).func_index \in Func /\ A(i).pc \in Nat /\ A(i).base \in Nat
         /\ A(i).instructions = A(i).func_index /\ A(i).frame_layout = A(i).func_index
         /\ A(i).instruction_offsets = A(i).func_index
         /\ A(i).base + frame_width(A(i).func_index) <= Len(registers)
         /\ EndOf(i) \in Nat /\ A(i).base <= EndOf(i)
         /\ EndOf(i) <= A(i).base + frame_width(A(i).func_index)
         /\ EndOf(i) <= Len(registers)
         /\ i # Len(frames) + 1 => EndOf(i) <= current.base
<1> SUFFICES ASSUME RInv, phase = "Running" 
             PROVE  /\ Len(frames) \in Nat /\ registers \in Seq(Val) /\ Len(registers) \in Nat
                    /\ \A i \in Depths :
                         /\ A(i).func_index \in Func /\ A(i).pc \in Nat /\ A(i).base \in Nat
                         /\ A(i).instructions = A(i).func_index /\ A(i).frame_layout = A(i).func_index
                         /\ A(i).instruction_offsets = A(i).func_index
                         /\ A(i).base + frame_width(A(i).func_index) <= Len(registers)
                         /\ EndOf(i) \in Nat /\ A(i).base <= EndOf(i)
                         /\ EndOf(i) <= A(i).base + frame_width(A(i).func_index)
                         /\ EndOf(i) <= Len(registers)
                         /\ i # Len(frames) + 1 => EndOf(i) <= current.base
  OBVIOUS
<1> DEFINE n == Len(frames)
<1>1. TypeOK /\ AllCovered /\ Based
  BY DEF RInv, DInv
<1>2. /\ n \in Nat /\ DOMAIN frames = 1 .. n /\ frames \in Seq(FrameRecord)
      /\ registers \in Seq(Val) /\ Len(registers) \in Nat
  BY <1>1 DEF TypeOK
<1>3. ASSUME NEW i \in Depths
      PROVE  /\ A(i) \in ActivationRecord /\ OwnBody(A(i))
             /\ A(i).base + frame_width(A(i).func_index) <= Len(registers)
  <2>1. CASE i = n + 1
    BY <2>1, <1>1 DEF A, TypeOK, AllCovered, Covered
  <2>2. CASE i # n + 1
    <3>1. i \in 1 .. n
      <4> HIDE DEF n
      <4> QED BY <2>2, <1>2 DEF Depths, n
    <3>2. frames[i] \in FrameRecord /\ A(i) = frames[i].caller
      BY <3>1, <2>2, <1>2 DEF A
    <3>3. frames[i].caller \in ActivationRecord
      BY <3>2 DEF FrameRecord
    <3> QED BY <3>1, <3>2, <3>3, <1>1, <1>2 DEF TypeOK, AllCovered, Covered
  <2> QED BY <2>1, <2>2
<1>4. ASSUME NEW i \in Depths
      PROVE  /\ A(i).func_index \in Func /\ A(i).pc \in Nat /\ A(i).base \in Nat
             /\ frame_width(A(i).func_index) \in Nat
             /\ operand_base(A(i).func_index) \in Nat
  BY <1>3, WidthFacts DEF ActivationRecord
<1>5. ASSUME NEW i \in Depths
      PROVE  /\ EndOf(i) \in Nat /\ A(i).base <= EndOf(i)
             /\ EndOf(i) <= A(i).base + frame_width(A(i).func_index)
             /\ i # n + 1 => EndOf(i) <= current.base
  <2>1. CASE i = n + 1
    <3>1. EndOf(i) = A(i).base + frame_width(A(i).func_index)
      BY <2>1 DEF EndOf, A
    <3> QED BY <3>1, <2>1, <1>4
  <2>2. CASE i # n + 1
    <3>1. i \in 1 .. n /\ i + 1 \in Depths /\ n + 1 \in Depths /\ i + 1 <= n + 1
      <4> HIDE DEF n
      <4> QED BY <2>2, <1>2 DEF Depths, n
    <3>2. EndOf(i) = A(i + 1).base
      BY <2>2 DEF EndOf
    <3>3. PICK b \in CallerBases(A(i).func_index, Layout[A(i + 1).func_index].params,
                                 Layout[A(i + 1).func_index].results) :
                 A(i + 1).base = A(i).base + b
      BY <3>1, <1>1 DEF Based
    <3>4. b \in Nat /\ b <= frame_width(A(i).func_index)
      <4>1. b \in operand_base(A(i).func_index) .. frame_width(A(i).func_index)
        BY DEF CallerBases
      <4> QED BY <4>1, <1>4
    <3>5. A(i + 1).base <= A(n + 1).base /\ A(n + 1) = current
      BY <3>1, <1>1 DEF Based, A
    <3>6. A(i).base \in Nat /\ frame_width(A(i).func_index) \in Nat
      BY <1>4
    <3> QED BY <3>2, <3>3, <3>4, <3>5, <3>6, <2>2
  <2> QED BY <2>1, <2>2
<1>6. ASSUME NEW i \in Depths PROVE EndOf(i) <= Len(registers)
  <2>1. /\ EndOf(i) \in Nat /\ A(i).base \in Nat /\ frame_width(A(i).func_index) \in Nat
        /\ EndOf(i) <= A(i).base + frame_width(A(i).func_index)
        /\ A(i).base + frame_width(A(i).func_index) <= Len(registers)
    BY <1>3, <1>4, <1>5
  <2> QED BY <2>1, <1>2
<1> QED BY <1>2, <1>3, <1>4, <1>5, <1>6 DEF OwnBody

(* Each activation with its slots, cut from the register file.              *)
LEMMA ChainShape ==
  RInv /\ phase = "Running" =>
    /\ live_chain \in Seq(AbstractActivation)
    /\ Len(live_chain) = Len(frames) + 1
    /\ \A i \in Depths : live_chain[i] = Seen(i)
<1> SUFFICES ASSUME RInv, phase = "Running"
             PROVE  /\ live_chain \in Seq(AbstractActivation)
                    /\ Len(live_chain) = Len(frames) + 1
                    /\ \A i \in Depths : live_chain[i] = Seen(i)
  OBVIOUS
<1> DEFINE n == Len(frames)
           g == [i \in 1 .. n + 1 |-> Seen(i)]
<1>1. TypeOK
  BY DEF RInv, DInv
<1>2. /\ n \in Nat /\ Len(activations) = n + 1 /\ DOMAIN activations = 1 .. n + 1
      /\ \A i \in 1 .. n : activations[i] = frames[i].caller
      /\ activations[n + 1] = current
  BY <1>1, ActivationsShape
<1>3. ASSUME NEW i \in 1 .. n + 1
      PROVE  activations[i] = A(i) /\ SlotsOf(i) = SubSeq(registers, A(i).base + 1, EndOf(i))
  <2>1. CASE i = n + 1
    <3>1. activations[i] = A(i) /\ ~(i < Len(activations))
      BY <2>1, <1>2 DEF A
    <3> QED BY <3>1, <2>1 DEF SlotsOf, EndOf, A
  <2>2. CASE i # n + 1
    <3>1. i \in 1 .. n /\ i < n + 1 /\ (i + 1 = n + 1 \/ i + 1 \in 1 .. n)
      <4> HIDE DEF n
      <4> QED BY <2>2, <1>2
    <3>2. activations[i] = A(i)
      BY <3>1, <2>2, <1>2 DEF A
    <3>3. activations[i + 1] = A(i + 1)
      <4>1. CASE i + 1 = n + 1
        BY <4>1, <1>2 DEF A
      <4>2. CASE i + 1 # n + 1 /\ i + 1 \in 1 .. n
        BY <4>2, <1>2 DEF A
      <4> QED BY <4>1, <4>2, <3>1
    <3> QED BY <3>1, <3>2, <3>3, <2>2, <1>2 DEF SlotsOf, EndOf
  <2> QED BY <2>1, <2>2
<1>4. live_chain = g
  BY <1>2, <1>3 DEF live_chain, Seen
<1>5. ASSUME NEW i \in 1 .. n + 1 PROVE Seen(i) \in AbstractActivation
  <2>1. /\ registers \in Seq(Val) /\ A(i).func_index \in Func /\ A(i).pc \in Nat
        /\ A(i).base \in Nat /\ EndOf(i) \in Nat /\ A(i).base <= EndOf(i)
        /\ EndOf(i) <= Len(registers)
    BY ActivationFacts DEF Depths
  <2>2. SubSeq(registers, A(i).base + 1, EndOf(i)) \in Seq(Val)
    BY <2>1, SliceShape DEF IsSlice
  <2> QED BY <2>1, <2>2 DEF AbstractActivation, Seen
<1>6. g \in [1 .. n + 1 -> AbstractActivation]
  BY <1>5
<1>7. g \in Seq(AbstractActivation) /\ Len(g) = n + 1
  BY <1>2, <1>6
<1>8. \A i \in 1 .. n + 1 : g[i] = Seen(i)
  OBVIOUS
<1> HIDE DEF g
<1> QED BY <1>4, <1>7, <1>8 DEF Depths

(* Both, of the next state.                                                 *)
LEMMA NextChainShape ==
  (RInv /\ phase = "Running" =>
    /\ live_chain \in Seq(AbstractActivation)
    /\ Len(live_chain) = Len(frames) + 1
    /\ \A i \in Depths : live_chain[i] = Seen(i))'
BY ChainShape, PTL

-----------------------------------------------------------------------------
(* CallChain's reading of a layout and of a record is that of Drivers.      *)
LEMMA SameReadings ==
  /\ \A f : Chain!operand_base(f) = operand_base(f) /\ Chain!frame_width(f) = frame_width(f)
  /\ \A f : Chain!Writable(f) = Writable(f)
  /\ \A f, p, r : Chain!CallerBases(f, p, r) = CallerBases(f, p, r)
  /\ Chain!Errors = Errors
  /\ \A f, pc : Chain!Offset(f, pc) = Offset(f, pc)
  /\ \A f, pc, at, err : Chain!NonCall(f, pc, at, err) = NonCall(f, pc, at, err)
  /\ \A f, pc, at, callee, ind :
       Chain!CallRecord(f, pc, at, callee, ind) = CallRecord(f, pc, at, callee, ind)
  /\ Chain!Pending = Pending
  /\ \A v : Chain!Results(v) = Results(v) /\ Chain!Trapped(v) = Trapped(v)
<1>1. \A f : Chain!operand_base(f) = operand_base(f) /\ Chain!frame_width(f) = frame_width(f)
  BY DEF Chain!operand_base, operand_base, Chain!frame_width, frame_width
<1>2. \A f, pc : Chain!Offset(f, pc) = Offset(f, pc)
  BY DEF Chain!Offset, Offset
<1>3. \A f, pc, at, err : Chain!NonCall(f, pc, at, err) = NonCall(f, pc, at, err)
  BY DEF Chain!NonCall, NonCall
<1>4. \A f, pc, at, callee, ind :
        Chain!CallRecord(f, pc, at, callee, ind) = CallRecord(f, pc, at, callee, ind)
  BY DEF Chain!CallRecord, CallRecord
<1>5. Chain!Pending = Pending /\ \A v : Chain!Results(v) = Results(v) /\ Chain!Trapped(v) = Trapped(v)
  BY DEF Chain!Pending, Pending, Chain!Results, Results, Chain!Trapped, Trapped
<1>6. \A f : Chain!Writable(f) = Writable(f)
  BY <1>1 DEF Chain!Writable, Writable, Chain!Slots, Slots
<1>7. \A f, p, r : Chain!CallerBases(f, p, r) = CallerBases(f, p, r)
  BY <1>1 DEF Chain!CallerBases, CallerBases
<1>8. Chain!Errors = Errors
  BY DEF Chain!Errors, Errors
<1> QED BY <1>1, <1>2, <1>3, <1>4, <1>5, <1>6, <1>7, <1>8

(* The file after enter_frame: below the declared locals it is as it was.   *)
LEMMA EnterFrameValues ==
  ASSUME NEW regs \in Seq(Val), NEW base \in Nat, NEW f \in Func,
         base + Layout[f].params <= Len(regs),
         NEW r, r = enter_frame(regs, base, f)
  PROVE  /\ \A i \in 1 .. base + Layout[f].params : r[i] = regs[i]
         /\ \A i \in base + Layout[f].params + 1 .. base + Layout[f].locals : r[i] = Zero
         /\ \A j \in 1 .. Len(Layout[f].consts) : r[base + Layout[f].locals + j] = Layout[f].consts[j]
<1> DEFINE n == total_register_capacity(base, f)
           g == grown(regs, n)
           P == Layout[f].params
           L == Layout[f].locals
           C == Len(Layout[f].consts)
<1>1. /\ P \in Nat /\ L \in Nat /\ C \in Nat /\ P <= L
      /\ DOMAIN Layout[f].consts = 1 .. C
  BY LayoutFacts
<1>2. n \in Nat /\ base + L + C <= n
  <2>1. n = base + frame_width(f) /\ operand_base(f) = L + C + Layout[f].spills
        /\ operand_base(f) + Layout[f].results <= frame_width(f)
        /\ Layout[f].spills \in Nat /\ Layout[f].results \in Nat
        /\ frame_width(f) \in Nat
    BY WidthFacts, LayoutFacts DEF total_register_capacity, operand_base
  <2> DEFINE sp == Layout[f].spills
             rs == Layout[f].results
             ob == operand_base(f)
             w == frame_width(f)
  <2>2. /\ n = base + w /\ ob = L + C + sp /\ ob + rs <= w
        /\ sp \in Nat /\ rs \in Nat /\ w \in Nat
    BY <2>1
  <2>3. L \in Nat /\ C \in Nat
    BY <1>1
  <2> HIDE DEF n, L, C, sp, rs, ob, w
  <2> QED BY <2>2, <2>3
<1> HIDE DEF n
<1>3. g \in Seq(Val) /\ Len(g) >= n /\ Len(g) >= Len(regs)
  BY <1>2, GrownShape
<1>4. \A i \in 1 .. Len(regs) : g[i] = regs[i]
  <2> DEFINE z == [i \in 1 .. n - Len(regs) |-> Zero]
  <2>1. Len(regs) \in Nat /\ Zero \in Val
    BY CallAssumption
  <2>2. z \in Seq(Val)
    <3>1. CASE n - Len(regs) \in Nat
      BY <3>1, <2>1
    <3>2. CASE n - Len(regs) \notin Nat
      <4>1. 1 .. n - Len(regs) = 1 .. 0
        BY <3>2, <1>2, <2>1
      <4>2. z \in [1 .. 0 -> Val]
        BY <4>1
      <4> QED BY <4>2, FunctionIsSeq
    <3> QED BY <3>1, <3>2
  <2>3. g = regs \o z
    BY DEF grown
  <2> HIDE DEF z, g
  <2> QED BY <2>2, <2>3, ConcatShape DEF IsConcat
<1> HIDE DEF g
<1>5. Len(g) \in Nat /\ DOMAIN g = 1 .. Len(g) /\ Len(regs) \in Nat
  BY <1>3
<1>6. r = [i \in 1 .. Len(g) |->
             IF i \in base + P + 1 .. base + L THEN Zero
             ELSE IF i - (base + L) \in 1 .. C THEN Layout[f].consts[i - (base + L)]
             ELSE g[i]]
  BY <1>1, <1>5 DEF enter_frame, g, n
<1> HIDE DEF P, L, C
<1>7. ASSUME NEW i \in 1 .. base + P
      PROVE  i \in 1 .. Len(g) /\ i \in 1 .. Len(regs) /\ i \notin base + P + 1 .. base + L
             /\ i - (base + L) \notin 1 .. C
  <2>1. base + P <= Len(regs)
    BY DEF P
  <2> QED BY <2>1, <1>1, <1>3, <1>5
<1>8. ASSUME NEW i \in base + P + 1 .. base + L
      PROVE  i \in 1 .. Len(g)
  BY <1>1, <1>2, <1>3, <1>5
<1>9. ASSUME NEW j \in 1 .. C
      PROVE  /\ base + L + j \in 1 .. Len(g)
             /\ base + L + j \notin base + P + 1 .. base + L
             /\ (base + L + j) - (base + L) = j
  BY <1>1, <1>2, <1>3, <1>5
<1>10. \A i \in 1 .. base + P : r[i] = regs[i]
  BY <1>4, <1>6, <1>7
<1>11. \A i \in base + P + 1 .. base + L : r[i] = Zero
  BY <1>6, <1>8
<1>12. \A j \in 1 .. C : r[base + L + j] = Layout[f].consts[j]
  <2> TAKE j \in 1 .. C
  <2> DEFINE m == base + L + j
  <2>1. m \in 1 .. Len(g) /\ m \notin base + P + 1 .. base + L /\ m - (base + L) = j
    BY <1>9
  <2> HIDE DEF m
  <2>2. r[m] = Layout[f].consts[j]
    BY <1>6, <2>1
  <2> QED BY <2>2 DEF m
<1> QED BY <1>10, <1>11, <1>12 DEF P, L, C

(* So the frame entered is fresh: the arguments, zeros, constants, and      *)
(* whatever the file held.                                                  *)
LEMMA FrameEnteredIsFresh ==
  ASSUME NEW regs \in Seq(Val), NEW base \in Nat, NEW f \in Func,
         base + Layout[f].params <= Len(regs),
         NEW r, r = enter_frame(regs, base, f),
         NEW args \in Seq(Val), Len(args) = Layout[f].params,
         \A i \in 1 .. Layout[f].params : args[i] = regs[base + i]
  PROVE  SubSeq(r, base + 1, base + frame_width(f)) \in Chain!Fresh(f, args)
<1> DEFINE P == Layout[f].params
           L == Layout[f].locals
           consts == Layout[f].consts
           C == Len(consts)
           W == frame_width(f)
           slots == SubSeq(r, base + 1, base + W)
           zeros == [i \in 1 .. L - P |-> Zero]
           given == args \o zeros \o consts
           other == [i \in 1 .. W - Len(given) |-> slots[Len(given) + i]]
<1>1. /\ P \in Nat /\ L \in Nat /\ consts \in Seq(Val) /\ C \in Nat /\ W \in Nat /\ P <= L
      /\ L + C <= W
  <2>1. /\ operand_base(f) = L + C + Layout[f].spills
        /\ operand_base(f) + Layout[f].results <= W
        /\ Layout[f].spills \in Nat /\ Layout[f].results \in Nat /\ W \in Nat
        /\ P \in Nat /\ L \in Nat /\ C \in Nat /\ P <= L
        /\ consts \in Seq(Val)
    BY WidthFacts, LayoutFacts DEF operand_base
  <2> HIDE DEF P, L, C, W, consts
  <2> QED BY SMTT(30), <2>1
<1>2. r \in Seq(Val) /\ Len(r) >= base + W /\ Len(r) \in Nat
  BY EnterFrameShape
<1>3. /\ \A i \in 1 .. base + P : r[i] = regs[i]
      /\ \A i \in base + P + 1 .. base + L : r[i] = Zero
      /\ \A j \in 1 .. C : r[base + L + j] = consts[j]
  BY EnterFrameValues
<1>4. /\ slots \in Seq(Val) /\ Len(slots) = W
      /\ \A i \in 1 .. W : slots[i] = r[base + i]
  <2> HIDE DEF W
  <2>1. base + W \in Nat /\ base <= base + W /\ base + W <= Len(r) /\ (base + W) - base = W
    BY <1>1, <1>2
  <2>2. IsSlice(SubSeq(r, base + 1, base + W), r, base, base + W, Val)
    BY <1>2, <2>1, SliceShape
  <2>3. IsSlice(slots, r, base, base + W, Val)
    BY <2>2 DEF slots
  <2> DEFINE b == base + W
  <2>4. IsSlice(slots, r, base, b, Val) /\ b - base = W
    BY <2>1, <2>3
  <2> HIDE DEF slots, b
  <2>5. /\ slots \in Seq(Val) /\ Len(slots) = W
        /\ \A i \in 1 .. W : slots[i] = r[base + i]
    BY <2>4 DEF IsSlice
  <2> QED BY <2>5
<1>5. zeros \in Seq(Val) /\ Len(zeros) = L - P /\ \A i \in 1 .. L - P : zeros[i] = Zero
  <2>1. L - P \in Nat /\ Zero \in Val
    BY <1>1, CallAssumption
  <2> HIDE DEF L, P
  <2> QED BY <2>1
<1> HIDE DEF slots, zeros, P, L, C, W, consts
<1>6. /\ args \o zeros \in Seq(Val) /\ Len(args \o zeros) = L
      /\ \A i \in 1 .. P : (args \o zeros)[i] = args[i]
      /\ \A i \in 1 .. L - P : (args \o zeros)[P + i] = Zero
  <2>1. Len(args) = P
    BY DEF P
  <2>2. IsConcat(args \o zeros, args, zeros, Val)
    BY <1>5, ConcatShape
  <2>3. P + (L - P) = L
    BY <1>1
  <2> DEFINE az == args \o zeros
  <2>4. IsConcat(az, args, zeros, Val)
    BY <2>2
  <2> HIDE DEF az
  <2>5. /\ az \in Seq(Val) /\ Len(az) = L
        /\ \A i \in 1 .. P : az[i] = args[i]
        /\ \A i \in 1 .. L - P : az[P + i] = Zero
    BY <2>1, <2>3, <2>4, <1>5 DEF IsConcat
  <2> QED BY <2>5 DEF az
<1>7. /\ given \in Seq(Val) /\ Len(given) = L + C
      /\ \A i \in 1 .. L : given[i] = (args \o zeros)[i]
      /\ \A i \in 1 .. C : given[L + i] = consts[i]
  <2> DEFINE az == args \o zeros
  <2>1. az \in Seq(Val) /\ Len(az) = L /\ Len(consts) = C /\ given = az \o consts
    BY <1>6 DEF C
  <2> HIDE DEF az, given
  <2>2. IsConcat(given, az, consts, Val)
    BY <1>1, <2>1, ConcatShape
  <2>3. /\ given \in Seq(Val) /\ Len(given) = L + C
        /\ \A i \in 1 .. L : given[i] = az[i]
        /\ \A i \in 1 .. C : given[L + i] = consts[i]
    BY <2>1, <2>2 DEF IsConcat
  <2> QED BY <2>3 DEF az
<1> HIDE DEF given
<1>8. \A i \in 1 .. L + C : given[i] = slots[i]
  <2> TAKE i \in 1 .. L + C
  <2>1. i \in 1 .. W /\ slots[i] = r[base + i]
    BY SMTT(30), <1>1, <1>4
  <2>2. CASE i \in 1 .. P
    <3>1. base + i \in 1 .. base + P /\ i \in 1 .. L
      BY <2>2, <1>1
    <3>2. args[i] = regs[base + i]
      BY <2>2 DEF P
    <3> QED BY <3>1, <3>2, <2>1, <2>2, <1>3, <1>6, <1>7
  <2>3. CASE i \in P + 1 .. L
    <3>1. base + i \in base + P + 1 .. base + L /\ i \in 1 .. L /\ i - P \in 1 .. L - P
          /\ P + (i - P) = i
      BY <2>3, <1>1
    <3>2. (args \o zeros)[P + (i - P)] = Zero
      BY <3>1, <1>6
    <3>3. given[i] = Zero
      BY <3>1, <3>2, <1>7
    <3> QED BY <3>1, <3>3, <2>1, <1>3
  <2>4. CASE i \in L + 1 .. L + C
    <3>1. i - L \in 1 .. C /\ L + (i - L) = i /\ base + L + (i - L) = base + i
      BY <2>4, <1>1
    <3> QED BY <3>1, <2>1, <1>3, <1>7
  <2>5. i \in 1 .. P \/ i \in P + 1 .. L \/ i \in L + 1 .. L + C
    BY <1>1
  <2> QED BY <2>2, <2>3, <2>4, <2>5
<1> DEFINE k == W - Len(given)
<1>9. /\ k \in Nat /\ k = W - (L + C)
      /\ \A i \in 1 .. k : L + C + i \in 1 .. W
  BY <1>1, <1>7
<1>10. /\ other \in [1 .. k -> Val]
       /\ \A i \in 1 .. k : other[i] = slots[L + C + i]
  <2>1. \A i \in 1 .. k : slots[L + C + i] \in Val
    BY <1>4, <1>9
  <2> QED BY <2>1, <1>7
<1> HIDE DEF other, k
<1>11. other \in Seq(Val) /\ Len(other) = k
  BY <1>9, <1>10, FunctionIsSeq
<1>12. /\ given \o other \in Seq(Val) /\ Len(given \o other) = L + C + k
       /\ \A i \in 1 .. L + C : (given \o other)[i] = given[i]
       /\ \A i \in 1 .. k : (given \o other)[L + C + i] = other[i]
  <2>1. IsConcat(given \o other, given, other, Val)
    BY <1>7, <1>11, ConcatShape
  <2> DEFINE u == given \o other
  <2>2. IsConcat(u, given, other, Val)
    BY <2>1
  <2> HIDE DEF u
  <2>3. /\ u \in Seq(Val) /\ Len(u) = L + C + k
        /\ \A i \in 1 .. L + C : u[i] = given[i]
        /\ \A i \in 1 .. k : u[L + C + i] = other[i]
    BY <2>2, <1>7, <1>11 DEF IsConcat
  <2> QED BY <2>3 DEF u
<1>13. Len(given \o other) = Len(slots)
  BY <1>1, <1>4, <1>9, <1>12
<1>14. \A i \in 1 .. Len(given \o other) : (given \o other)[i] = slots[i]
  <2> TAKE i \in 1 .. Len(given \o other)
  <2>1. CASE i \in 1 .. L + C
    BY <2>1, <1>8, <1>12
  <2>2. CASE i \in L + C + 1 .. L + C + k
    <3>1. i - (L + C) \in 1 .. k /\ L + C + (i - (L + C)) = i
      BY <2>2, <1>1, <1>9
    <3> QED BY ZenonT(30), <3>1, <1>10, <1>12
  <2>3. i \in 1 .. L + C \/ i \in L + C + 1 .. L + C + k
    BY <1>1, <1>9, <1>12
  <2> QED BY <2>1, <2>2, <2>3
<1>15. given \o other = slots
  BY <1>4, <1>12, <1>13, <1>14, SeqEqual
<1>16. Chain!Fresh(f, args) = {given \o oth : oth \in [1 .. k -> Val]}
  BY SameReadings DEF Chain!Fresh, given, zeros, k, W, L, P, consts
<1>17. slots \in Chain!Fresh(f, args)
  BY <1>10, <1>15, <1>16
<1> QED BY <1>17 DEF slots, W

-----------------------------------------------------------------------------
(* Steps of the running body.                                               *)

(* They leave every frame where it is.                                      *)
LEMMA FramesStay ==
  ASSUME RInv, phase = "Running", frames' = frames,
         current'.base = current.base, current'.func_index = current.func_index
  PROVE  /\ Depths' = Depths /\ Len(frames) + 1 \in Depths
         /\ \A i \in Depths : /\ A(i)'.base = A(i).base
                              /\ A(i)'.func_index = A(i).func_index
                              /\ EndOf(i)' = EndOf(i)
                              /\ i # Len(frames) + 1 => A(i)' = A(i)
<1> DEFINE n == Len(frames)
<1>1. n \in Nat
  BY ActivationFacts
<1>2. Depths' = Depths
  BY DEF Depths
<1>3. n + 1 \in 1 .. n + 1
  <2> HIDE DEF n
  <2> QED BY <1>1
<1>4. ASSUME NEW i PROVE /\ A(i)'.base = A(i).base /\ A(i)'.func_index = A(i).func_index
                         /\ i # n + 1 => A(i)' = A(i)
  BY DEF A
<1>5. ASSUME NEW i PROVE EndOf(i)' = EndOf(i)
  BY <1>4 DEF EndOf
<1> QED BY <1>2, <1>3, <1>4, <1>5 DEF Depths

(* So they keep the refinement's invariant.                                 *)
LEMMA WithinFrameRInv ==
  ASSUME RInv, DInv', phase = "Running", phase' = "Running", frames' = frames,
         current'.base = current.base, current'.func_index = current.func_index,
         unwind' = unwind, outcome' = outcome
  PROVE  RInv'
<1> DEFINE n == Len(frames)
<1>1. Based /\ SitesKept /\ outcome = Pending /\ unwind \in Seq(TraceRecord)
  BY DEF RInv
<1>2. /\ Depths' = Depths /\ n + 1 \in Depths /\ n \in Nat
      /\ \A i \in Depths : /\ A(i)'.base = A(i).base
                           /\ A(i)'.func_index = A(i).func_index
  BY FramesStay, ActivationFacts
<1>3. 1 \in Depths /\ \A i \in 1 .. n : i \in Depths /\ i + 1 \in Depths
  <2> HIDE DEF n
  <2> QED BY <1>2 DEF Depths, n
<1>4. Based'
  <2>1. A(1)'.base = 0
    BY <1>1, <1>2, <1>3 DEF Based
  <2>2. ASSUME NEW i \in 1 .. n
        PROVE  \E b \in CallerBases(A(i)'.func_index, Layout[A(i + 1)'.func_index].params,
                                    Layout[A(i + 1)'.func_index].results) :
                 A(i + 1)'.base = A(i)'.base + b
    BY <1>1, <1>2, <1>3 DEF Based
  <2>3. \A i, j \in Depths : i <= j => A(i)'.base <= A(j)'.base
    BY <1>1, <1>2 DEF Based
  <2> QED BY <2>1, <2>2, <2>3, <1>2 DEF Based
<1>5. SitesKept'
  BY <1>1 DEF SitesKept
<1> QED BY <1>1, <1>4, <1>5 DEF RInv

(* An activation that a step leaves where it is, with its part of the file. *)
LEMMA SeenStays ==
  ASSUME NEW i, A(i)'.func_index = A(i).func_index, A(i)'.pc = A(i).pc,
         A(i)'.base = A(i).base, EndOf(i)' = EndOf(i),
         A(i).base \in Nat, EndOf(i) \in Nat, A(i).base <= EndOf(i),
         registers \in Seq(Val), registers' \in Seq(Val),
         EndOf(i) <= Len(registers), EndOf(i) <= Len(registers'),
         \A k \in 1 .. EndOf(i) : registers'[k] = registers[k]
  PROVE  Seen(i)' = Seen(i)
<1> DEFINE a == A(i).base
           e == EndOf(i)
<1>1. SubSeq(registers', a + 1, e) = SubSeq(registers, a + 1, e)
  BY SMTT(30), SliceAgrees
<1> QED BY <1>1 DEF Seen

(* What such a step does to the chain: the last activation moves on, with   *)
(* its slots as they are in the new file.                                   *)
LEMMA WithinFrameRefines ==
  ASSUME RInv, RInv', InBody, phase' = "Running", frames' = frames,
         NEW pc \in Nat, current' = [current EXCEPT !.pc = pc],
         NEW slots,
         slots = SubSeq(registers', current.base + 1, current.base + frame_width(current.func_index)),
         \A k \in 1 .. current.base : registers'[k] = registers[k],
         Len(registers') = Len(registers),
         outcome' = outcome
  PROVE  /\ Chain!InBody
         /\ live_chain # <<>>
         /\ Chain!Running = [func |-> current.func_index, pc |-> current.pc,
                             slots |-> SubSeq(registers, current.base + 1,
                                              current.base + frame_width(current.func_index))]
         /\ Chain!Becomes([func |-> current.func_index, pc |-> pc, slots |-> slots])
<1> DEFINE n == Len(frames)
           w == frame_width(current.func_index)
           old == live_chain
           new == live_chain'
           was == [func |-> current.func_index, pc |-> current.pc,
                   slots |-> SubSeq(registers, current.base + 1, current.base + w)]
           is == [func |-> current.func_index, pc |-> pc, slots |-> slots]
<1>1. /\ phase = "Running" /\ current \in ActivationRecord /\ OwnBody(current)
      /\ current.pc < Layout[current.instructions].instrs - 1
      /\ current.func_index \in Func /\ current.base \in Nat /\ registers \in Seq(Val)
  BY InBodyFacts DEF RInv, InBody, TypeOK, ActivationRecord
<1>2. /\ current'.base = current.base /\ current'.func_index = current.func_index
      /\ current'.pc = pc
  BY <1>1 DEF ActivationRecord
<1>3. /\ n \in Nat /\ Depths = 1 .. n + 1 /\ n + 1 \in Depths /\ Len(frames') = n
      /\ Depths' = Depths
      /\ \A i \in Depths : /\ A(i)'.base = A(i).base
                           /\ A(i)'.func_index = A(i).func_index
                           /\ EndOf(i)' = EndOf(i)
                           /\ i # n + 1 => A(i)' = A(i)
  BY <1>1, <1>2, FramesStay, ActivationFacts DEF Depths
<1>4. /\ old \in Seq(AbstractActivation) /\ Len(old) = n + 1
      /\ \A i \in Depths : old[i] = Seen(i)
  BY <1>1, ChainShape
<1>5. /\ new \in Seq(AbstractActivation) /\ Len(new) = n + 1
      /\ \A i \in Depths : new[i] = Seen(i)'
  BY <1>3, NextChainShape
<1>6. A(n + 1) = current /\ EndOf(n + 1) = current.base + w /\ A(n + 1)' = current'
  BY <1>3 DEF A, EndOf
<1>7. Seen(n + 1) = was
  BY <1>6 DEF Seen
<1>8. Seen(n + 1)' = is
  <2>1. EndOf(n + 1)' = current.base + w
    BY <1>3, <1>6
  <2>2. /\ Seen(n + 1)' = [func |-> A(n + 1)'.func_index, pc |-> A(n + 1)'.pc,
                           slots |-> SubSeq(registers', A(n + 1)'.base + 1, EndOf(n + 1)')]
    BY DEF Seen
  <2> QED BY <1>2, <1>6, <2>1, <2>2
<1>9. ASSUME NEW i \in 1 .. n PROVE new[i] = old[i]
  <2>1. i \in Depths /\ i # n + 1
    <3> HIDE DEF n
    <3> QED BY <1>3
  <2>2. /\ A(i).base \in Nat /\ EndOf(i) \in Nat /\ A(i).base <= EndOf(i)
        /\ EndOf(i) <= Len(registers) /\ EndOf(i) <= current.base
    BY <2>1, <1>1, ActivationFacts
  <2>3. registers' \in Seq(Val)
    BY DEF RInv, DInv, TypeOK
  <2>4. A(i)' = A(i) /\ EndOf(i)' = EndOf(i)
    BY <2>1, <1>3
  <2>5. \A k \in 1 .. EndOf(i) : registers'[k] = registers[k]
    <3>1. \A k \in 1 .. EndOf(i) : k \in 1 .. current.base
      BY <2>2, <1>1
    <3> QED BY <3>1
  <2>6. Seen(i)' = Seen(i)
    BY <2>2, <2>3, <2>4, <2>5, <1>1, SeenStays
  <2>7. new[i] = Seen(i)' /\ old[i] = Seen(i)
    BY <2>1, <1>4, <1>5
  <2> QED BY <2>6, <2>7
<1>10. old[n + 1] = was /\ new[n + 1] = is
  BY <1>3, <1>4, <1>5, <1>7, <1>8
<1> HIDE DEF n, old, new, was, is
<1>11. new = Append(SubSeq(new, 1, n), new[n + 1])
  BY <1>3, <1>5, AppendedTo
<1>12. SubSeq(new, 1, n) = SubSeq(old, 1, n)
  <2>1. n <= Len(old) /\ n <= Len(new)
    BY <1>3, <1>4, <1>5
  <2> QED BY <2>1, <1>3, <1>4, <1>5, <1>9, PrefixAgrees
<1>13. Len(old) - 1 = n /\ old # <<>>
  BY <1>3, <1>4
<1>14. Chain!Running = was
  BY <1>4, <1>10 DEF Chain!Running, old
<1>15. Chain!Rest = SubSeq(old, 1, n)
  BY <1>13 DEF Chain!Rest, old
<1>16. reported' = reported
  BY <1>1 DEF reported
<1>17. Chain!Becomes(is)
  BY <1>10, <1>11, <1>12, <1>15, <1>16 DEF Chain!Becomes, new
<1>18. Chain!InBody
  <2>1. was.pc = current.pc /\ was.func = current.func_index
    BY DEF was
  <2>2. current.pc < Layout[current.func_index].instrs - 1
    BY <1>1 DEF OwnBody
  <2> QED BY <2>1, <2>2, <1>13, <1>14 DEF Chain!InBody, old
<1> QED BY <1>13, <1>14, <1>17, <1>18 DEF was, is, w, old

(* An instruction that writes a slot is CallChain's Write.                  *)
LEMMA StepNextRefines ==
  ASSUME RInv, DInv', NEW i \in Writable(current.func_index), NEW v \in Val, StepNext(i, v)
  PROVE  RInv' /\ Chain!Next
<1> DEFINE w == frame_width(current.func_index)
           a == current.base
           x == SubSeq(registers, a + 1, a + w)
           slots == SubSeq(registers', a + 1, a + w)
<1>1. /\ InBody /\ registers' = [registers EXCEPT ![a + i + 1] = v]
      /\ current' = [current EXCEPT !.pc = @ + 1]
      /\ phase' = phase /\ frames' = frames /\ unwind' = unwind /\ outcome' = outcome
  BY DEF StepNext
<1>2. /\ phase = "Running" /\ current \in ActivationRecord
      /\ current.func_index \in Func /\ a \in Nat /\ current.pc \in Nat
      /\ registers \in Seq(Val) /\ Len(registers) \in Nat /\ a + w <= Len(registers)
  BY <1>1, InBodyFacts DEF RInv, TypeOK
<1>3. w \in Nat /\ i \in 0 .. w - 1
  BY <1>2, WidthFacts DEF Writable, Slots
<1>4. /\ current' = [current EXCEPT !.pc = current.pc + 1] /\ current.pc + 1 \in Nat
      /\ current'.base = a /\ current'.func_index = current.func_index
  BY <1>1, <1>2 DEF ActivationRecord
<1>5. RInv'
  BY <1>1, <1>2, <1>4, WithinFrameRInv
<1>6. a + i + 1 \in 1 .. Len(registers) /\ i + 1 \in 1 .. w /\ a + i + 1 = a + (i + 1)
      /\ a + i + 1 > a
  <2> HIDE DEF w, a
  <2> QED BY <1>2, <1>3
<1>7. Len(registers') = Len(registers) /\ \A k \in 1 .. a : registers'[k] = registers[k]
  <2> HIDE DEF w, a
  <2>1. \A k \in 1 .. a : k \in 1 .. Len(registers) /\ k # a + i + 1
    BY <1>2, <1>3, <1>6
  <2> QED BY <1>1, <1>2, <1>6, <2>1
<1>8. slots = [x EXCEPT ![i + 1] = v]
  <2> DEFINE b == a + w
             j == i + 1
  <2>1. b \in Nat /\ a <= b /\ b <= Len(registers) /\ j \in 1 .. b - a
    <3> HIDE DEF a, w
    <3> QED BY <1>2, <1>3, <1>6
  <2>2. /\ registers' \in Seq(Val) /\ Len(registers') = Len(registers)
        /\ registers'[a + j] = v
        /\ \A k \in 1 .. Len(registers) : k # a + j => registers'[k] = registers[k]
    BY <1>1, <1>2, <1>6
  <2> HIDE DEF a, b, j
  <2>3. IsWritten(registers', registers, a, j, v)
    BY <2>2 DEF IsWritten
  <2>4. SubSeq(registers', a + 1, b) = [SubSeq(registers, a + 1, b) EXCEPT ![j] = v]
    BY <2>1, <2>3, <1>2, SliceWritten
  <2> QED BY <2>4 DEF b, j
<1>9. /\ Chain!InBody /\ live_chain # <<>>
      /\ Chain!Running = [func |-> current.func_index, pc |-> current.pc, slots |-> x]
      /\ Chain!Becomes([func |-> current.func_index, pc |-> current.pc + 1, slots |-> slots])
  BY <1>1, <1>2, <1>4, <1>5, <1>7, WithinFrameRefines
<1> HIDE DEF x, slots, a, w
<1>10. [Chain!Running EXCEPT !.pc = @ + 1, !.slots[i + 1] = v]
         = [func |-> current.func_index, pc |-> current.pc + 1, slots |-> slots]
  <2>1. [Chain!Running EXCEPT !.pc = @ + 1]
          = [func |-> current.func_index, pc |-> current.pc + 1, slots |-> x]
    BY <1>9
  <2> DEFINE R == [Chain!Running EXCEPT !.pc = @ + 1]
  <2>2. R = [func |-> current.func_index, pc |-> current.pc + 1, slots |-> x]
    BY <2>1
  <2> HIDE DEF R
  <2>3. [R EXCEPT !.slots[i + 1] = v]
          = [func |-> current.func_index, pc |-> current.pc + 1, slots |-> [x EXCEPT ![i + 1] = v]]
    BY <2>2
  <2> QED BY <2>3, <1>8 DEF R
<1>11. Chain!Write(i, v)
  BY <1>9, <1>10 DEF Chain!Write
<1>12. i \in Chain!Writable(Chain!Running.func)
  BY <1>9, SameReadings
<1> QED BY <1>5, <1>9, <1>11, <1>12 DEF Chain!Next

(* A jump is CallChain's Jump.                                              *)
LEMMA StepJumpToRefines ==
  ASSUME RInv, DInv', NEW target \in 0 .. Layout[current.func_index].instrs - 1, StepJumpTo(target)
  PROVE  RInv' /\ Chain!Next
<1> DEFINE w == frame_width(current.func_index)
           a == current.base
           x == SubSeq(registers, a + 1, a + w)
<1>1. /\ InBody /\ registers' = registers
      /\ current' = [current EXCEPT !.pc = target]
      /\ phase' = phase /\ frames' = frames /\ unwind' = unwind /\ outcome' = outcome
  BY DEF StepJumpTo
<1>2. phase = "Running" /\ current \in ActivationRecord /\ current.func_index \in Func
  BY <1>1, InBodyFacts DEF RInv, TypeOK
<1>3. current'.base = a /\ current'.func_index = current.func_index /\ target \in Nat
  BY <1>1, <1>2 DEF ActivationRecord
<1>4. RInv'
  BY <1>1, <1>2, <1>3, WithinFrameRInv
<1>5. /\ Chain!InBody /\ live_chain # <<>>
      /\ Chain!Running = [func |-> current.func_index, pc |-> current.pc, slots |-> x]
      /\ Chain!Becomes([func |-> current.func_index, pc |-> target, slots |-> x])
  BY <1>1, <1>2, <1>3, <1>4, WithinFrameRefines
<1> HIDE DEF x
<1>6. [Chain!Running EXCEPT !.pc = target]
        = [func |-> current.func_index, pc |-> target, slots |-> x]
  BY <1>5
<1>7. Chain!Jump(target)
  BY <1>5, <1>6 DEF Chain!Jump
<1>8. target \in 0 .. Layout[Chain!Running.func].instrs - 1
  BY <1>5
<1> QED BY <1>4, <1>5, <1>7, <1>8 DEF Chain!Next

(* A call of the import is CallChain's CallHost.                            *)
LEMMA CallImportedRefines ==
  ASSUME RInv, DInv', NEW b \in CallerBases(current.func_index, HostParams, HostResults),
         CallImported(b)
  PROVE  RInv' /\ Chain!Next
<1> DEFINE w == frame_width(current.func_index)
           a == current.base
           base == a + b
           x == SubSeq(registers, a + 1, a + w)
           y == SubSeq(registers', a + 1, a + w)
           args == SubSeq(registers, base + 1, base + HostParams)
           h == Host(args)
           f == current.func_index
           top == base + HostParams
<1>1. /\ InBody /\ registers' = set_results_from_import_call(registers, base, h)
      /\ current' = [current EXCEPT !.pc = @ + 1]
      /\ phase' = phase /\ frames' = frames /\ unwind' = unwind /\ outcome' = outcome
  BY DEF CallImported, get_params_for_import_call
<1>2. /\ phase = "Running" /\ current \in ActivationRecord
      /\ f \in Func /\ a \in Nat /\ current.pc \in Nat
      /\ registers \in Seq(Val) /\ Len(registers) \in Nat /\ a + w <= Len(registers)
  BY <1>1, InBodyFacts DEF RInv, TypeOK
<1>3. /\ current' = [current EXCEPT !.pc = current.pc + 1] /\ current.pc + 1 \in Nat
      /\ current'.base = a /\ current'.func_index = f
  BY <1>1, <1>2 DEF ActivationRecord
<1>4. RInv'
  BY <1>1, <1>2, <1>3, WithinFrameRInv
<1>5. /\ w \in Nat /\ b \in Nat /\ HostParams \in Nat /\ HostResults \in Nat
      /\ b + HostParams <= w /\ b + HostResults <= w
  <2>1. operand_base(f) \in Nat /\ w \in Nat /\ HostParams \in Nat /\ HostResults \in Nat
    BY <1>2, WidthFacts, CallAssumption
  <2>2. b \in operand_base(f) .. w /\ b + HostParams <= w /\ b + HostResults <= w
    BY DEF CallerBases
  <2> HIDE DEF w
  <2> QED BY <2>1, <2>2
<1>6. /\ base \in Nat /\ top \in Nat /\ base <= top /\ top <= Len(registers)
      /\ top - base = HostParams
      /\ a + w \in Nat /\ a <= a + w /\ (a + w) - a = w
      /\ b <= b + HostParams /\ a + (b + HostParams) = top
  <2> HIDE DEF w, a
  <2> QED BY <1>2, <1>5
<1>7. IsSlice(args, registers, base, top, Val)
  <2> HIDE DEF base
  <2>1. IsSlice(SubSeq(registers, base + 1, top), registers, base, top, Val)
    BY <1>2, <1>6, SliceShape
  <2> QED BY <2>1 DEF top
<1>8. h \in [1 .. HostResults -> Val]
  <2>1. args \in Seq(Val) /\ Len(args) = HostParams
    <3> HIDE DEF args, base, top
    <3> QED BY <1>6, <1>7 DEF IsSlice
  <2> HIDE DEF args
  <2>2. args \in [1 .. HostParams -> Val]
    BY <2>1
  <2> QED BY <2>2, CallAssumption
<1>9. h \in Seq(Val) /\ Len(h) = HostResults
  BY <1>5, <1>8, FunctionIsSeq
<1>10. registers' = [i \in DOMAIN registers |-> IF i - base \in DOMAIN h THEN h[i - base] ELSE registers[i]]
  BY <1>1 DEF set_results_from_import_call
<1> HIDE DEF args, h
<1>11. /\ DOMAIN registers = 1 .. Len(registers) /\ DOMAIN h = 1 .. HostResults
  BY <1>2, <1>8
<1>12. \A i \in 1 .. Len(registers) :
         registers'[i] = IF i - base \in 1 .. HostResults THEN h[i - base] ELSE registers[i]
  BY <1>10, <1>11
<1>13. registers' \in Seq(Val)
  BY DEF DInv, TypeOK
<1>14. Len(registers') = Len(registers)
  <2>1. DOMAIN registers' = 1 .. Len(registers)
    BY <1>10, <1>11
  <2> QED BY <2>1, <1>2, <1>13
<1> HIDE DEF a, w, f
<1>15. \A k \in 1 .. a : registers'[k] = registers[k]
  <2>1. \A k \in 1 .. a : k \in 1 .. Len(registers) /\ k - base \notin 1 .. HostResults
    BY <1>2, <1>5 DEF base
  <2> QED BY <2>1, <1>12
<1>16. /\ Chain!InBody /\ live_chain # <<>>
       /\ Chain!Running = [func |-> f, pc |-> current.pc, slots |-> x]
       /\ Chain!Becomes([func |-> f, pc |-> current.pc + 1, slots |-> y])
  BY <1>1, <1>2, <1>3, <1>4, <1>14, <1>15, WithinFrameRefines DEF a, w, f
<1>17. IsSlice(x, registers, a, a + w, Val) /\ IsSlice(y, registers', a, a + w, Val)
  <2> DEFINE e == a + w
  <2>1. e \in Nat /\ a <= e /\ e <= Len(registers) /\ e <= Len(registers')
    BY <1>2, <1>6, <1>14
  <2> HIDE DEF e
  <2>2. IsSlice(SubSeq(registers, a + 1, e), registers, a, e, Val)
        /\ IsSlice(SubSeq(registers', a + 1, e), registers', a, e, Val)
    BY <2>1, <1>2, <1>13, SliceShape
  <2> QED BY <2>2 DEF e
<1> HIDE DEF x, y, top
<1>18. /\ x \in Seq(Val) /\ y \in Seq(Val) /\ Len(x) = w /\ Len(y) = w
       /\ \A i \in 1 .. w : x[i] = registers[a + i] /\ y[i] = registers'[a + i]
  BY <1>6, <1>17 DEF IsSlice
<1>19. SubSeq(x, b + 1, b + HostParams) = args
  <2> DEFINE d == b + HostParams
             e == a + w
             z == SubSeq(x, b + 1, d)
  <2>1. d \in Nat /\ b <= d /\ d <= Len(x) /\ d <= e - a /\ e \in Nat /\ a <= e /\ a + d = top
        /\ a + b = base
    BY <1>5, <1>6, <1>18 DEF base
  <2>2. IsSlice(x, registers, a, e, Val)
    BY <1>17
  <2> HIDE DEF d, e, base
  <2>3. IsSlice(z, x, b, d, Val)
    BY <2>1, <1>5, <1>18, SliceShape
  <2> HIDE DEF z
  <2>4. IsSlice(z, registers, a + b, a + d, Val)
    BY <2>1, <2>2, <2>3, <1>2, <1>5, SliceOfSlice
  <2>5. IsSlice(z, registers, base, top, Val)
    BY <2>1, <2>4
  <2>6. z = args
    BY <2>5, <1>6, <1>7, SliceUnique
  <2> QED BY <2>6 DEF z, d
<1>20. IsPatched(y, x, b, h)
  <2>1. ASSUME NEW i \in 1 .. w
        PROVE  y[i] = IF i - b \in 1 .. HostResults THEN h[i - b] ELSE x[i]
    <3>1. a + i \in 1 .. Len(registers) /\ (a + i) - base = i - b
      BY <1>2, <1>5 DEF base
    <3>2. registers'[a + i] = IF i - b \in 1 .. HostResults THEN h[i - b] ELSE registers[a + i]
      BY <3>1, <1>12
    <3> QED BY <3>2, <1>18
  <2>2. \A i \in 1 .. b : y[i] = x[i]
    <3>1. \A i \in 1 .. b : i \in 1 .. w /\ i - b \notin 1 .. HostResults
      BY <1>5
    <3> QED BY <2>1, <3>1
  <2>3. \A i \in 1 .. HostResults : y[b + i] = h[i]
    <3>1. \A i \in 1 .. HostResults : b + i \in 1 .. w /\ (b + i) - b = i
      BY <1>5
    <3> QED BY <2>1, <3>1
  <2>4. \A i \in b + HostResults + 1 .. w : y[i] = x[i]
    <3>1. \A i \in b + HostResults + 1 .. w : i \in 1 .. w /\ i - b \notin 1 .. HostResults
      BY <1>5
    <3> QED BY <2>1, <3>1
  <2> QED BY <2>2, <2>3, <2>4, <1>5, <1>9, <1>18 DEF IsPatched
<1>21. SubSeq(x, 1, b) \o h \o SubSeq(x, b + HostResults + 1, Len(x)) = y
  BY <1>5, <1>9, <1>20, PatchedShape
<1>22. h = Host(SubSeq(x, b + 1, b + HostParams))
  BY <1>19 DEF h
<1>23. [Chain!Running EXCEPT !.pc = @ + 1,
          !.slots = SubSeq(@, 1, b) \o h \o SubSeq(x, b + HostResults + 1, Len(x))]
         = [func |-> f, pc |-> current.pc + 1, slots |-> y]
  <2> DEFINE R == Chain!Running
  <2>1. R = [func |-> f, pc |-> current.pc, slots |-> x]
    BY <1>16
  <2> HIDE DEF R
  <2> DEFINE Q == [R EXCEPT !.pc = @ + 1]
  <2>2. Q = [func |-> f, pc |-> current.pc + 1, slots |-> x]
    BY <2>1
  <2> HIDE DEF Q
  <2>3. [Q EXCEPT !.slots = SubSeq(x, 1, b) \o h \o SubSeq(x, b + HostResults + 1, Len(x))]
          = [func |-> f, pc |-> current.pc + 1, slots |-> y]
    <3>1. [Q EXCEPT !.slots = y] = [func |-> f, pc |-> current.pc + 1, slots |-> y]
      BY <2>2
    <3> QED BY <3>1, <1>21
  <2>4. Q.slots = x
    BY <2>2
  <2> QED BY <2>3, <2>4 DEF Q, R
<1>24. Chain!Running.slots = x /\ Chain!Running.func = f
  BY <1>16
<1>25. Chain!CallHost(b)
  BY <1>16, <1>22, <1>23, <1>24 DEF Chain!CallHost
<1>26. b \in Chain!CallerBases(Chain!Running.func, HostParams, HostResults)
  BY <1>24, SameReadings DEF f
<1> QED BY <1>4, <1>16, <1>25, <1>26 DEF Chain!Next

-----------------------------------------------------------------------------
(* Calls.                                                                   *)

(* A call from outside is CallChain's Begin: what it leaves of the file's   *)
(* old contents is not seen.                                                *)
LEMMA RunRefines ==
  ASSUME RInv, DInv', NEW f \in Func, NEW params \in [1 .. Layout[f].params -> Val], Run(f, params)
  PROVE  RInv' /\ Chain!Next
<1> DEFINE w == frame_width(f)
           slots == SubSeq(registers', 1, w)
           act == [func |-> f, pc |-> 0, slots |-> slots]
<1>1. /\ phase = "Idle" /\ phase' = "Running" /\ frames' = <<>> /\ unwind' = <<>> /\ outcome' = Pending
      /\ registers' = enter_frame(set_initial_params(reset, params), 0, f)
      /\ current' = Executing(f, 0)
  BY DEF Run
<1>2. /\ Len(frames') = 0 /\ Depths' = {1} /\ A(1)' = Executing(f, 0) /\ EndOf(1)' = 0 + w
  BY <1>1 DEF Depths, A, EndOf, Executing
<1>3. Based' /\ SitesKept'
  <2>1. A(1)'.base = 0 /\ 1 .. Len(frames') = {}
    BY <1>2 DEF Executing
  <2> QED BY <1>2, <2>1 DEF Based, SitesKept
<1>4. RInv'
  BY <1>1, <1>3 DEF RInv
<1>5. w \in Nat /\ Layout[f].params \in Nat /\ 0 + w = w /\ 0 + 1 = 1
  BY WidthFacts, LayoutFacts
<1>6. params \in Seq(Val) /\ Len(params) = Layout[f].params
  BY <1>5, FunctionIsSeq
<1>7. set_initial_params(reset, params) = params
  BY <1>6 DEF set_initial_params, reset
<1>8. slots \in Chain!Fresh(f, params)
  <2>1. \A i \in 1 .. Layout[f].params : params[i] = params[0 + i]
    OBVIOUS
  <2>2. 0 + Layout[f].params <= Len(params)
    BY <1>5, <1>6
  <2>3. SubSeq(registers', 0 + 1, 0 + w) \in Chain!Fresh(f, params)
    BY <1>1, <1>6, <1>7, <2>1, <2>2, FrameEnteredIsFresh
  <2> QED BY <2>3, <1>5
<1>9. live_chain' = <<act>>
  <2>1. /\ live_chain' \in Seq(AbstractActivation) /\ Len(live_chain') = 0 + 1
        /\ live_chain'[1] = Seen(1)'
    BY <1>1, <1>2, <1>4, NextChainShape
  <2>2. Seen(1)' = act
    <3>1. Seen(1)' = [func |-> A(1)'.func_index, pc |-> A(1)'.pc,
                      slots |-> SubSeq(registers', A(1)'.base + 1, EndOf(1)')]
      BY DEF Seen
    <3>2. A(1)'.func_index = f /\ A(1)'.pc = 0 /\ A(1)'.base = 0 /\ EndOf(1)' = w
      BY <1>2, <1>5 DEF Executing
    <3> QED BY <3>1, <3>2, <1>5
  <2> HIDE DEF act
  <2> QED BY <2>1, <2>2
<1>10. live_chain = <<>> /\ reported' = Pending
  BY <1>1 DEF live_chain, reported
<1>11. Chain!Begin(f, params)
  BY <1>8, <1>9, <1>10, SameReadings DEF Chain!Begin, Chain!Activation
<1> QED BY <1>4, <1>11 DEF Chain!Next

(* The chain after a call: the same activations, the caller at its place,   *)
(* and the callee above it.                                                 *)
LEMMA StepCallChain ==
  ASSUME RInv, NEW f \in Func,
         NEW b \in CallerBases(current.func_index, Layout[f].params, Layout[f].results),
         StepCall(f, b), NEW n, n = Len(frames)
  PROVE  /\ n \in Nat /\ Len(frames') = n + 1
         /\ Depths = 1 .. n + 1 /\ Depths' = 1 .. n + 2
         /\ \A i \in 1 .. n : i \in Depths /\ i + 1 \in Depths /\ i # n + 1
         /\ n + 1 \in Depths
         /\ \A i \in Depths : A(i)' = A(i)
         /\ A(n + 1) = current
         /\ A(n + 2)' = Executing(f, current.base + b)
         /\ \A i \in 1 .. n : EndOf(i)' = EndOf(i)
         /\ EndOf(n + 1)' = current.base + b
         /\ EndOf(n + 2)' = current.base + b + frame_width(f)
         /\ \A i \in 1 .. n : frames'[i] = frames[i]
         /\ frames'[n + 1] = Frame(f)
<1> DEFINE base == current.base + b
<1>1. /\ phase = "Running" /\ frames' = Append(frames, Frame(f)) /\ current' = Executing(f, base)
  BY DEF StepCall, InBody
<1>2. n \in Nat /\ frames \in Seq(FrameRecord)
  BY <1>1, ActivationFacts DEF RInv, DInv, TypeOK
<1>3. /\ Len(frames') = n + 1 /\ \A i \in 1 .. n : frames'[i] = frames[i]
      /\ frames'[n + 1] = Frame(f)
  BY <1>1, <1>2
<1>4. /\ Depths = 1 .. n + 1
      /\ \A i \in Depths : i \in 1 .. n \/ i = n + 1
      /\ \A i \in 1 .. n : i \in Depths /\ i + 1 \in Depths /\ i # n + 1 /\ i # (n + 1) + 1
      /\ n + 1 \in Depths /\ n + 1 # (n + 1) + 1
      /\ \A i \in Depths : i # (n + 1) + 1
      /\ n + 2 = (n + 1) + 1
  BY <1>2 DEF Depths
<1>5. Frame(f).caller = current
  BY DEF Frame
<1>6. /\ Depths' = 1 .. n + 2
      /\ \A i : A(i)' = IF i = (n + 1) + 1 THEN Executing(f, base) ELSE frames'[i].caller
      /\ \A i : EndOf(i)' = IF i = (n + 1) + 1
                            THEN Executing(f, base).base + frame_width(Executing(f, base).func_index)
                            ELSE A(i + 1)'.base
  BY <1>1, <1>3, <1>4 DEF A, EndOf, Depths
<1>7. \A i \in Depths : A(i)' = A(i)
  BY <1>3, <1>4, <1>5, <1>6 DEF A
<1>8. A(n + 1) = current
  BY DEF A
<1>9. A(n + 2)' = Executing(f, base)
  BY <1>4, <1>6
<1>10. Executing(f, base).base = base /\ Executing(f, base).func_index = f
  BY DEF Executing
<1>11. ASSUME NEW i \in 1 .. n PROVE EndOf(i)' = EndOf(i)
  <2>1. EndOf(i)' = A(i + 1)'.base
    BY <1>4, <1>6
  <2>2. EndOf(i) = A(i + 1).base
    BY <1>4 DEF EndOf
  <2> QED BY <2>1, <2>2, <1>4, <1>7
<1>12. EndOf(n + 1)' = base
  <2>1. EndOf(n + 1)' = A((n + 1) + 1)'.base
    BY <1>4, <1>6
  <2> QED BY <2>1, <1>4, <1>9, <1>10
<1>13. EndOf(n + 2)' = base + frame_width(f)
  BY <1>4, <1>6, <1>10
<1> HIDE DEF base
<1>14. \A i \in 1 .. n : i \in Depths /\ i + 1 \in Depths /\ i # n + 1
  BY <1>4
<1> QED BY <1>2, <1>3, <1>4, <1>6, <1>7, <1>8, <1>9, <1>11, <1>12, <1>13, <1>14 DEF base

(* A call keeps the refinement's invariant.                                 *)
LEMMA StepCallRInv ==
  ASSUME RInv, DInv', NEW f \in Func,
         NEW b \in CallerBases(current.func_index, Layout[f].params, Layout[f].results),
         StepCall(f, b)
  PROVE  RInv'
<1>0. PICK n : n = Len(frames)
  OBVIOUS
<1> DEFINE base == current.base + b
<1>1. /\ phase = "Running" /\ phase' = phase /\ unwind' = unwind /\ outcome' = outcome
  BY DEF StepCall, InBody
<1>2. Based /\ SitesKept /\ outcome = Pending /\ unwind \in Seq(TraceRecord)
  BY <1>1 DEF RInv
<1>3. /\ n \in Nat /\ Len(frames') = n + 1 /\ n + 1 \in Depths
      /\ \A i \in 1 .. n : i \in Depths /\ i + 1 \in Depths /\ i # n + 1
      /\ \A i \in Depths : A(i)' = A(i)
      /\ Depths = 1 .. n + 1 /\ Depths' = 1 .. n + 2
      /\ A(n + 1) = current /\ A(n + 2)' = Executing(f, base)
      /\ \A i \in 1 .. n : frames'[i] = frames[i]
      /\ frames'[n + 1] = Frame(f)
  BY ZenonT(30), <1>0, StepCallChain
<1>4. /\ \A i \in 1 .. n + 1 : i \in 1 .. n \/ i = n + 1
      /\ \A i \in Depths' : i \in Depths \/ i = n + 2
      /\ (n + 1) + 1 = n + 2 /\ 1 \in Depths
      /\ \A i \in Depths : ~(n + 2 <= i) /\ i <= n + 1
  BY <1>3
<1>5. /\ Executing(f, base).base = base /\ Executing(f, base).func_index = f
      /\ Frame(f).callee_is_indirect = (current.pc \in IndirectSites) /\ Frame(f).caller = current
  BY DEF Executing, Frame
<1>6. /\ \A i \in Depths : A(i).base \in Nat
      /\ b \in Nat /\ current.base <= base /\ base \in Nat
  <2>1. \A i \in Depths : A(i).base \in Nat
    BY <1>1, ActivationFacts
  <2>2. current.func_index \in Func /\ current.base \in Nat
    BY <2>1, <1>1, <1>3, ActivationFacts
  <2>3. operand_base(current.func_index) \in Nat /\ frame_width(current.func_index) \in Nat
    BY <2>2, WidthFacts
  <2>4. b \in operand_base(current.func_index) .. frame_width(current.func_index)
    BY DEF CallerBases
  <2> QED BY <2>1, <2>2, <2>3, <2>4
<1>7. Based'
  <2>1. A(1)'.base = 0
    BY <1>2, <1>3, <1>4 DEF Based
  <2>2. ASSUME NEW i \in 1 .. n + 1
        PROVE  \E c \in CallerBases(A(i)'.func_index, Layout[A(i + 1)'.func_index].params,
                                    Layout[A(i + 1)'.func_index].results) :
                 A(i + 1)'.base = A(i)'.base + c
    <3>1. CASE i \in 1 .. n
      BY ZenonT(30), <3>1, <1>0, <1>2, <1>3 DEF Based
    <3>2. CASE i = n + 1
      <4>1. A(i)' = current /\ A(i + 1)'.base = base /\ A(i + 1)'.func_index = f
        BY <3>2, <1>3, <1>4, <1>5
      <4> QED BY <4>1
    <3> QED BY <3>1, <3>2, <1>4
  <2>3. ASSUME NEW i \in Depths', NEW j \in Depths', i <= j
        PROVE  A(i)'.base <= A(j)'.base
    <3>1. CASE j \in Depths
      <4>1. i \in Depths
        BY <2>3, <3>1, <1>4
      <4> QED BY <2>3, <3>1, <4>1, <1>2, <1>3 DEF Based
    <3>2. CASE j = n + 2 /\ i \in Depths
      <4>1. A(i).base <= A(n + 1).base
        BY <3>2, <1>2, <1>3, <1>4 DEF Based
      <4>2. A(j)'.base = base /\ A(i)' = A(i)
        BY <3>2, <1>3, <1>5
      <4>3. A(i).base \in Nat /\ current.base \in Nat
        BY <3>2, <1>3, <1>6
      <4> HIDE DEF base
      <4> QED BY <4>1, <4>2, <4>3, <1>3, <1>6
    <3>3. CASE j = n + 2 /\ i = n + 2
      <4>1. A(j)'.base = base
        BY <3>3, <1>3, <1>5
      <4> HIDE DEF base
      <4> QED BY <3>3, <4>1, <1>6
    <3> QED BY <3>1, <3>2, <3>3, <1>4
  <2> QED BY <2>1, <2>2, <2>3, <1>3 DEF Based
<1>8. SitesKept'
  <2>1. ASSUME NEW i \in 1 .. n + 1
        PROVE  frames'[i].callee_is_indirect = (frames'[i].caller.pc \in IndirectSites)
    <3>1. CASE i \in 1 .. n
      BY <3>1, <1>0, <1>2, <1>3 DEF SitesKept
    <3>2. CASE i = n + 1
      BY <3>2, <1>3, <1>5
    <3> QED BY <3>1, <3>2, <1>4
  <2> QED BY <2>1, <1>3 DEF SitesKept
<1> QED BY <1>1, <1>2, <1>7, <1>8 DEF RInv

(* A call of a local function is CallChain's Call: the caller keeps what is *)
(* below the arguments, and the callee's frame is fresh.                    *)
LEMMA StepCallRefines ==
  ASSUME RInv, RInv', NEW f \in Func,
         NEW b \in CallerBases(current.func_index, Layout[f].params, Layout[f].results),
         StepCall(f, b)
  PROVE  Chain!Next
<1>0. PICK n : n = Len(frames)
  OBVIOUS
<1> DEFINE g == current.func_index
           a == current.base
           w == frame_width(g)
           base == a + b
           P == Layout[f].params
           x == SubSeq(registers, a + 1, a + w)
           args == SubSeq(x, b + 1, b + P)
           kept == SubSeq(x, 1, b)
           slots == SubSeq(registers', base + 1, base + frame_width(f))
           was == [func |-> g, pc |-> current.pc, slots |-> x]
           waits == [func |-> g, pc |-> current.pc, slots |-> kept]
           act == [func |-> f, pc |-> 0, slots |-> slots]
           old == live_chain
           new == live_chain'
<1>1. /\ InBody /\ depth < MAX_DEPTH /\ phase' = phase /\ outcome' = outcome
      /\ registers' = enter_frame(registers, base, f)
  BY DEF StepCall
<1>2. /\ phase = "Running" /\ current \in ActivationRecord /\ OwnBody(current)
      /\ current.pc < Layout[current.instructions].instrs - 1
      /\ g \in Func /\ a \in Nat /\ current.pc \in Nat
      /\ registers \in Seq(Val) /\ Len(registers) \in Nat /\ a + w <= Len(registers)
  BY <1>1, InBodyFacts DEF RInv, TypeOK, InBody
<1>3. /\ n \in Nat /\ Len(frames') = n + 1
      /\ Depths = 1 .. n + 1 /\ Depths' = 1 .. n + 2
      /\ \A i \in 1 .. n : i \in Depths /\ i + 1 \in Depths /\ i # n + 1
      /\ n + 1 \in Depths
      /\ \A i \in Depths : A(i)' = A(i)
      /\ A(n + 1) = current /\ A(n + 2)' = Executing(f, base)
      /\ \A i \in 1 .. n : EndOf(i)' = EndOf(i)
      /\ EndOf(n + 1)' = base /\ EndOf(n + 2)' = base + frame_width(f)
  BY ZenonT(30), <1>0, StepCallChain
<1>4. /\ old \in Seq(AbstractActivation) /\ Len(old) = n + 1
      /\ \A i \in Depths : old[i] = Seen(i)
  BY <1>0, <1>2, ChainShape
<1>5. /\ new \in Seq(AbstractActivation) /\ Len(new) = n + 2
      /\ \A i \in Depths' : new[i] = Seen(i)'
  <2>1. (n + 1) + 1 = n + 2
    BY <1>3
  <2> QED BY <2>1, <1>1, <1>2, <1>3, NextChainShape
<1>6. /\ w \in Nat /\ b \in Nat /\ P \in Nat /\ frame_width(f) \in Nat /\ b + P <= w
  <2>1. /\ operand_base(g) \in Nat /\ w \in Nat /\ frame_width(f) \in Nat /\ P \in Nat
    BY <1>2, WidthFacts, LayoutFacts
  <2>2. b \in operand_base(g) .. w /\ b + P <= w
    BY DEF CallerBases
  <2> HIDE DEF w, P
  <2> QED BY <2>1, <2>2
<1>7. registers' \in Seq(Val) /\ Len(registers') \in Nat /\ Len(registers') >= Len(registers)
  <2>1. base \in Nat
    BY <1>2, <1>6
  <2> HIDE DEF base
  <2>2. registers' \in Seq(Val) /\ Len(registers') >= Len(registers)
    BY <2>1, <1>1, <1>2, EnterFrameShape
  <2> QED BY <2>2
<1> HIDE DEF w, P, a, g
<1>8. /\ base \in Nat /\ a <= base /\ base + P <= Len(registers) /\ base <= Len(registers)
      /\ a + w \in Nat /\ a <= a + w /\ (a + w) - a = w
      /\ a + 0 = a /\ 0 \in Nat /\ 0 + 1 = 1 /\ b + P \in Nat /\ b <= b + P /\ b <= w
      /\ (b + P) - b = P /\ a + (b + P) = base + P /\ (base + P) - base = P
  BY <1>2, <1>6
<1>9. \A i \in 1 .. base + P : registers'[i] = registers[i]
  BY SMTT(30), <1>1, <1>2, <1>8, EnterFrameValues DEF P
<1>10. \A i \in 1 .. base : registers'[i] = registers[i]
  <2>1. \A i \in 1 .. base : i \in 1 .. base + P
    BY <1>6, <1>8
  <2> QED BY <2>1, <1>9
<1>11. IsSlice(x, registers, a, a + w, Val)
  <2> DEFINE e == a + w
  <2>1. e \in Nat /\ a <= e /\ e <= Len(registers)
    BY <1>2, <1>8
  <2> HIDE DEF e
  <2>2. IsSlice(SubSeq(registers, a + 1, e), registers, a, e, Val)
    BY <2>1, <1>2, SliceShape
  <2> QED BY <2>2 DEF e
<1> HIDE DEF x
<1>12. x \in Seq(Val) /\ Len(x) = w
  BY <1>8, <1>11 DEF IsSlice
<1>13. kept = SubSeq(registers', a + 1, base)
  <2> DEFINE e == a + w
             z == SubSeq(registers, a + 1, base)
  <2>0. e \in Nat /\ a <= e /\ b <= e - a /\ IsSlice(x, registers, a, e, Val)
    BY <1>8, <1>11
  <2> HIDE DEF e
  <2>1. IsSlice(SubSeq(x, 0 + 1, b), x, 0, b, Val)
    BY <1>6, <1>8, <1>12, SliceShape
  <2>2. IsSlice(kept, x, 0, b, Val)
    BY <2>1, <1>8
  <2> HIDE DEF kept
  <2>4. IsSlice(kept, registers, a, base, Val)
    BY <2>0, <2>2, <1>2, <1>6, <1>8, PrefixOfSlice
  <2> HIDE DEF base
  <2>5. IsSlice(z, registers, a, base, Val)
    BY <1>2, <1>8, SliceShape
  <2> HIDE DEF z
  <2>6. kept = z
    BY <2>4, <2>5, <1>2, <1>8, SliceUnique
  <2>7. base <= Len(registers')
    BY <1>2, <1>7, <1>8
  <2>8. SubSeq(registers', a + 1, base) = SubSeq(registers, a + 1, base)
    BY <2>7, <1>2, <1>7, <1>8, <1>10, SliceAgrees
  <2> QED BY <2>6, <2>8 DEF z
<1>14. args \in Seq(Val) /\ Len(args) = P /\ \A i \in 1 .. P : args[i] = registers[base + i]
  <2> DEFINE e == a + w
             d == b + P
  <2>0. /\ e \in Nat /\ a <= e /\ d <= e - a /\ IsSlice(x, registers, a, e, Val)
        /\ d \in Nat /\ b <= d /\ d <= Len(x)
    BY <1>6, <1>8, <1>11, <1>12
  <2> HIDE DEF e, d
  <2>1. IsSlice(SubSeq(x, b + 1, d), x, b, d, Val)
    BY <2>0, <1>6, <1>12, SliceShape
  <2>2. IsSlice(args, x, b, d, Val)
    BY <2>1 DEF d
  <2> HIDE DEF args
  <2>3. IsSlice(args, registers, a + b, a + d, Val)
    BY <2>0, <2>2, <1>2, <1>6, SliceOfSlice
  <2>4. a + d = base + P
    BY <1>8 DEF d
  <2>5. IsSlice(args, registers, base, base + P, Val)
    BY <2>3, <2>4
  <2> QED BY <2>5, <1>8 DEF IsSlice
<1> HIDE DEF args, kept
<1>15. slots \in Chain!Fresh(f, args)
  <2> HIDE DEF base
  <2>1. \A i \in 1 .. Layout[f].params : args[i] = registers[base + i]
    BY <1>14 DEF P
  <2> QED BY <2>1, <1>1, <1>2, <1>8, <1>14, FrameEnteredIsFresh DEF P
<1>16. Seen(n + 1) = was
  <2>1. EndOf(n + 1) = a + w
    BY <1>0, <1>3 DEF EndOf, a, w, g
  <2> QED BY <2>1, <1>3 DEF Seen, x, a, g
<1>17. Seen(n + 1)' = waits
  <2>1. Seen(n + 1)' = [func |-> A(n + 1)'.func_index, pc |-> A(n + 1)'.pc,
                        slots |-> SubSeq(registers', A(n + 1)'.base + 1, EndOf(n + 1)')]
    BY DEF Seen
  <2>2. A(n + 1)' = current
    BY <1>3
  <2> QED BY <2>1, <2>2, <1>3, <1>13 DEF a, g
<1>18. Seen(n + 2)' = act
  <2>1. Seen(n + 2)' = [func |-> A(n + 2)'.func_index, pc |-> A(n + 2)'.pc,
                        slots |-> SubSeq(registers', A(n + 2)'.base + 1, EndOf(n + 2)')]
    BY DEF Seen
  <2>2. A(n + 2)'.func_index = f /\ A(n + 2)'.pc = 0 /\ A(n + 2)'.base = base
    BY <1>3 DEF Executing
  <2> QED BY <2>1, <2>2, <1>3
<1>19. ASSUME NEW i \in 1 .. n PROVE new[i] = old[i]
  <2>1. i \in Depths /\ i \in Depths' /\ i # n + 1
    BY <1>3
  <2>2. /\ A(i).base \in Nat /\ EndOf(i) \in Nat /\ A(i).base <= EndOf(i)
        /\ EndOf(i) <= Len(registers) /\ EndOf(i) <= a
    BY <2>1, <1>0, <1>2, ActivationFacts DEF a
  <2>3. A(i)' = A(i) /\ EndOf(i)' = EndOf(i)
    BY <2>1, <1>3
  <2>4. EndOf(i) <= Len(registers') /\ \A k \in 1 .. EndOf(i) : k \in 1 .. base
    BY SMTT(30), <2>2, <1>2, <1>7, <1>8
  <2>5. \A k \in 1 .. EndOf(i) : registers'[k] = registers[k]
    BY <2>4, <1>10
  <2>6. Seen(i)' = Seen(i)
    BY <2>2, <2>3, <2>4, <2>5, <1>2, <1>7, SeenStays
  <2>7. new[i] = Seen(i)' /\ old[i] = Seen(i)
    BY <2>1, <1>4, <1>5
  <2> QED BY <2>6, <2>7
<1>20. old[n + 1] = was /\ new[n + 1] = waits /\ new[n + 2] = act
  <2>1. n + 1 \in Depths' /\ n + 2 \in Depths'
    BY <1>3
  <2> QED BY <2>1, <1>3, <1>4, <1>5, <1>16, <1>17, <1>18
<1> HIDE DEF old, new, was, waits, act
<1>21. new = SubSeq(new, 1, n) \o <<waits, act>>
  <2>1. waits \in AbstractActivation /\ act \in AbstractActivation
    <3>1. n + 1 \in 1 .. Len(new) /\ n + 2 \in 1 .. Len(new)
      BY <1>3, <1>5
    <3>2. new[n + 1] \in AbstractActivation /\ new[n + 2] \in AbstractActivation
      BY <3>1, <1>5
    <3> QED BY <3>2, <1>20
  <2> QED BY <2>1, <1>3, <1>5, <1>20, TwoAppended
<1>22. SubSeq(new, 1, n) = SubSeq(old, 1, n)
  <2>1. n <= Len(old) /\ n <= Len(new)
    BY <1>3, <1>4, <1>5
  <2> QED BY <2>1, <1>3, <1>4, <1>5, <1>19, PrefixAgrees
<1>23. Len(old) - 1 = n /\ old # <<>> /\ Len(old) = n + 1
  BY <1>3, <1>4
<1>24. Chain!Running = was /\ Chain!Rest = SubSeq(old, 1, n)
  BY <1>20, <1>23 DEF Chain!Running, Chain!Rest, old
<1>25. was.func = g /\ was.pc = current.pc /\ was.slots = x
  BY DEF was
<1>26. Len(live_chain) < MAX_DEPTH
  <2>1. depth = n + 1
    BY <1>0, <1>1, InBodyFacts DEF depth, Counted, RInv
  <2> QED BY <2>1, <1>1, <1>23 DEF old
<1>27. Chain!InBody
  <2>1. current.pc < Layout[g].instrs - 1
    BY <1>2 DEF OwnBody, g
  <2> QED BY <2>1, <1>23, <1>24, <1>25 DEF Chain!InBody, old
<1>28. [Chain!Running EXCEPT !.slots = SubSeq(@, 1, b)] = waits
  <2>1. [was EXCEPT !.slots = kept] = waits
    BY DEF was, waits
  <2>2. kept = SubSeq(was.slots, 1, b)
    BY <1>25 DEF kept
  <2> QED BY <2>1, <2>2, <1>24
<1>29. args = SubSeq(Chain!Running.slots, b + 1, b + Layout[f].params)
  BY <1>24, <1>25 DEF args, P
<1>30. reported' = reported
  BY <1>1, <1>2 DEF reported
<1>31. act = Chain!Activation(f, slots)
  BY DEF act, Chain!Activation
<1>32. live_chain' = Chain!Rest \o <<waits, Chain!Activation(f, slots)>>
  BY <1>21, <1>22, <1>24, <1>31 DEF new
<1> HIDE DEF slots
<1>33. Chain!Call(f, b)
  BY <1>15, <1>26, <1>27, <1>28, <1>29, <1>30, <1>32 DEF Chain!Call
<1>34. b \in Chain!CallerBases(Chain!Running.func, Layout[f].params, Layout[f].results)
  BY <1>24, <1>25, SameReadings DEF g
<1> QED BY <1>23, <1>33, <1>34 DEF Chain!Next, old

-----------------------------------------------------------------------------
(* Returns.                                                                 *)

(* The chain after a return: the same activations but the last.             *)
LEMMA ReturnChain ==
  ASSUME RInv, ReturnToCaller, NEW n, n = Len(frames)
  PROVE  /\ n \in Nat /\ n - 1 \in Nat /\ n \in 1 .. n /\ Len(frames') = n - 1
         /\ Depths = 1 .. n + 1 /\ Depths' = 1 .. n
         /\ \A i \in 1 .. n - 1 : i \in 1 .. n /\ i + 1 \in 1 .. n /\ i # n /\ i # n + 1
         /\ \A i \in 1 .. n : i \in Depths
         /\ n + 1 \in Depths /\ A(n + 1) = current
         /\ A(n) = frames[n].caller
         /\ \A i \in 1 .. n - 1 : A(i)' = A(i) /\ EndOf(i)' = EndOf(i) /\ frames'[i] = frames[i]
         /\ A(n)' = [A(n) EXCEPT !.pc = A(n).pc + 1]
         /\ A(n)'.base = A(n).base /\ A(n)'.func_index = A(n).func_index
         /\ A(n)'.pc = A(n).pc + 1
         /\ EndOf(n)' = A(n).base + frame_width(A(n).func_index)
         /\ EndOf(n) = current.base
<1>1. /\ phase = "Running" /\ frames # <<>> /\ frames' = Front(frames)
      /\ current' = resumed(Last(frames))
  BY DEF ReturnToCaller, AtEnd
<1>2. n \in Nat /\ frames \in Seq(FrameRecord)
  BY <1>1, ActivationFacts DEF RInv, DInv, TypeOK
<1>3. /\ n > 0 /\ Len(frames') = n - 1 /\ frames[n] \in FrameRecord /\ Last(frames) = frames[n]
      /\ \A i \in 1 .. n - 1 : frames'[i] = frames[i]
  BY <1>1, <1>2, FrontShape
<1>4. /\ Depths = 1 .. n + 1 /\ n - 1 \in Nat /\ n \in 1 .. n /\ (n - 1) + 1 = n /\ n # n + 1
      /\ \A i \in 1 .. n - 1 : i \in 1 .. n /\ i + 1 \in 1 .. n /\ i # n /\ i # n + 1
                               /\ (i + 1 # n => i + 1 \in 1 .. n - 1) /\ i + 1 # n + 1
      /\ \A i \in 1 .. n : i \in Depths
      /\ n + 1 \in Depths
  BY <1>2, <1>3 DEF Depths
<1>5. /\ A(n + 1) = current /\ A(n) = frames[n].caller /\ EndOf(n) = current.base
      /\ \A i \in 1 .. n - 1 : A(i) = frames[i].caller /\ EndOf(i) = A(i + 1).base
  BY <1>4 DEF A, EndOf
<1>6. /\ Depths' = 1 .. n
      /\ \A i : A(i)' = IF i = n THEN current' ELSE frames'[i].caller
      /\ \A i : EndOf(i)' = IF i = n THEN current'.base + frame_width(current'.func_index)
                            ELSE A(i + 1)'.base
  BY <1>3, <1>4 DEF A, EndOf, Depths
<1>7. frames[n].caller \in ActivationRecord
  BY <1>3 DEF FrameRecord
<1>8. /\ current' = [A(n) EXCEPT !.pc = A(n).pc + 1]
      /\ current'.base = A(n).base /\ current'.func_index = A(n).func_index
      /\ current'.pc = A(n).pc + 1
  BY <1>1, <1>3, <1>5, <1>7 DEF resumed, ActivationRecord
<1>9. ASSUME NEW i \in 1 .. n - 1 PROVE A(i)' = A(i) /\ EndOf(i)' = EndOf(i)
  <2>1. A(i)' = A(i)
    BY <1>3, <1>4, <1>5, <1>6
  <2>2. EndOf(i)' = A(i + 1)'.base
    BY <1>4, <1>6
  <2>3. CASE i + 1 = n
    <3>1. A(i + 1)' = current' /\ EndOf(i) = A(n).base
      BY <2>3, <1>5, <1>6
    <3> QED BY <2>1, <2>2, <3>1, <1>8
  <2>4. CASE i + 1 # n
    BY <2>1, <2>2, <2>4, <1>3, <1>4, <1>5, <1>6
  <2> QED BY <2>1, <2>3, <2>4
<1>10. /\ A(n)' = current'
       /\ EndOf(n)' = A(n).base + frame_width(A(n).func_index)
  BY <1>6, <1>8
<1> QED BY <1>2, <1>3, <1>4, <1>5, <1>6, <1>8, <1>9, <1>10

(* A return keeps the refinement's invariant.                               *)
LEMMA ReturnToCallerRInv ==
  ASSUME RInv, DInv', ReturnToCaller
  PROVE  RInv'
<1>0. PICK n : n = Len(frames)
  OBVIOUS
<1>1. phase = "Running" /\ phase' = phase /\ unwind' = unwind /\ outcome' = outcome
  BY DEF ReturnToCaller, AtEnd
<1>2. Based /\ SitesKept /\ outcome = Pending /\ unwind \in Seq(TraceRecord)
  BY <1>1 DEF RInv
<1>3. /\ n \in Nat /\ n \in 1 .. n /\ Len(frames') = n - 1
      /\ Depths = 1 .. n + 1 /\ Depths' = 1 .. n
      /\ \A i \in 1 .. n - 1 : i \in 1 .. n /\ i + 1 \in 1 .. n
      /\ \A i \in 1 .. n : i \in Depths
      /\ \A i \in 1 .. n - 1 : A(i)' = A(i) /\ frames'[i] = frames[i]
      /\ A(n)'.base = A(n).base /\ A(n)'.func_index = A(n).func_index
  BY <1>0, ReturnChain
<1>4. \A i \in 1 .. n : i = n \/ i \in 1 .. n - 1
  BY <1>3
<1>5. \A i \in 1 .. n : A(i)'.base = A(i).base /\ A(i)'.func_index = A(i).func_index
  BY <1>3, <1>4
<1>6. Based'
  <2>1. A(1)'.base = 0
    <3>1. 1 \in 1 .. n
      BY <1>3
    <3> QED BY <3>1, <1>2, <1>5 DEF Based
  <2>2. ASSUME NEW i \in 1 .. n - 1
        PROVE  \E c \in CallerBases(A(i)'.func_index, Layout[A(i + 1)'.func_index].params,
                                    Layout[A(i + 1)'.func_index].results) :
                 A(i + 1)'.base = A(i)'.base + c
    BY ZenonT(30), <1>0, <1>2, <1>3, <1>5 DEF Based
  <2>3. \A i, j \in Depths' : i <= j => A(i)'.base <= A(j)'.base
    BY <1>2, <1>3, <1>5 DEF Based
  <2> QED BY <2>1, <2>2, <2>3, <1>3 DEF Based
<1>7. SitesKept'
  BY <1>0, <1>2, <1>3 DEF SitesKept
<1> QED BY <1>1, <1>2, <1>6, <1>7 DEF RInv

(* A sequence that begins with another is it followed by something.         *)
BeginsWith(z, back) ==
  /\ z \in Seq(Val) /\ back \in Seq(Val) /\ Len(back) <= Len(z)
  /\ \A i \in 1 .. Len(back) : z[i] = back[i]

LEMMA Completed ==
  ASSUME NEW z, NEW back, BeginsWith(z, back)
  PROVE  \E other \in [1 .. Len(z) - Len(back) -> Val] : z = back \o other
<1> DEFINE l == Len(back)
           w == Len(z)
           k == w - l
           other == [i \in 1 .. k |-> z[l + i]]
           u == back \o other
<1>0. /\ z \in Seq(Val) /\ back \in Seq(Val) /\ l <= w
      /\ \A i \in 1 .. l : z[i] = back[i]
  BY DEF BeginsWith
<1>1. l \in Nat /\ w \in Nat /\ k \in Nat /\ l + k = w
  BY <1>0
<1>2. \A i \in 1 .. k : l + i \in 1 .. w
  BY <1>1
<1>3. other \in [1 .. k -> Val] /\ \A i \in 1 .. k : other[i] = z[l + i]
  BY <1>0, <1>2
<1> HIDE DEF other
<1>4. other \in Seq(Val) /\ Len(other) = k
  BY ZenonT(30), <1>1, <1>3, FunctionIsSeq
<1>5. IsConcat(u, back, other, Val)
  BY <1>0, <1>4, ConcatShape
<1> HIDE DEF u, l, k, w
<1>6. /\ u \in Seq(Val) /\ Len(u) = w
      /\ \A i \in 1 .. l : u[i] = z[i]
      /\ \A i \in 1 .. k : u[l + i] = z[l + i]
  BY <1>0, <1>1, <1>3, <1>4, <1>5 DEF IsConcat, l
<1>7. ASSUME NEW i \in 1 .. w PROVE u[i] = z[i]
  <2>1. CASE i \in 1 .. l
    BY <2>1, <1>6
  <2>2. CASE i \in l + 1 .. w
    <3>1. i - l \in 1 .. k /\ l + (i - l) = i
      BY <2>2, <1>1
    <3> QED BY <3>1, <1>6
  <2>3. i \in 1 .. l \/ i \in l + 1 .. w
    BY <1>1
  <2> QED BY <2>1, <2>2, <2>3
<1>8. u = z
  BY <1>0, <1>6, <1>7, SeqEqual DEF w
<1> QED BY <1>3, <1>8 DEF u, k, l, w

(* exit_frame moves the results down to the base, and nothing else.         *)
LEMMA ExitFrameValues ==
  ASSUME NEW regs \in Seq(Val), NEW base \in Nat, NEW f \in Func,
         base + frame_width(f) <= Len(regs),
         NEW r, r = exit_frame(regs, base, f, Layout[f].results)
  PROVE  /\ \A i \in 1 .. base : r[i] = regs[i]
         /\ \A i \in 1 .. Layout[f].results : r[base + i] = regs[base + (operand_base(f) + i)]
<1> DEFINE o == operand_base(f)
           c == Layout[f].results
           w == frame_width(f)
<1>1. o \in Nat /\ c \in Nat /\ o + c <= w /\ w \in Nat
  BY WidthFacts, LayoutFacts
<1>2. Len(regs) \in Nat /\ DOMAIN regs = 1 .. Len(regs)
  OBVIOUS
<1>3. r = [i \in 1 .. Len(regs) |-> IF i \in base + 1 .. base + c THEN regs[i + o] ELSE regs[i]]
  BY <1>2 DEF exit_frame
<1>4. base + w <= Len(regs)
  OBVIOUS
<1> HIDE DEF o, c, w
<1>5. \A i \in 1 .. base : i \in 1 .. Len(regs) /\ i \notin base + 1 .. base + c
  BY <1>1, <1>2, <1>4
<1>6. \A i \in 1 .. base : r[i] = regs[i]
  BY <1>3, <1>5
<1>7. \A i \in 1 .. c : /\ base + i \in 1 .. Len(regs) /\ base + i \in base + 1 .. base + c
                        /\ base + i + o = base + (o + i)
  BY <1>1, <1>2, <1>4
<1>8. ASSUME NEW i \in 1 .. c PROVE r[base + i] = regs[base + (o + i)]
  <2>1. r[base + i] = regs[base + i + o]
    BY <1>3, <1>7
  <2> QED BY <2>1, <1>7
<1> QED BY <1>6, <1>8 DEF o, c

(* The End of a called body is CallChain's Return: the caller has its slots *)
(* back, with the results where the arguments were.                         *)
LEMMA ReturnToCallerRefines ==
  ASSUME RInv, RInv', ReturnToCaller
  PROVE  Chain!Next
<1>0. PICK n : n = Len(frames)
  OBVIOUS
<1> DEFINE f == current.func_index
           a == current.base
           w == frame_width(f)
           o == operand_base(f)
           R == Layout[f].results
           C == A(n)
           g == C.func_index
           c == C.base
           v == frame_width(g)
           x == SubSeq(registers, a + 1, a + w)
           results == SubSeq(x, o + 1, o + R)
           kept == SubSeq(registers, c + 1, a)
           back == kept \o results
           slots == SubSeq(registers', c + 1, c + v)
           was == [func |-> f, pc |-> current.pc, slots |-> x]
           waits == [func |-> g, pc |-> C.pc, slots |-> kept]
           act == [func |-> g, pc |-> C.pc + 1, slots |-> slots]
           old == live_chain
           new == live_chain'
<1>1. /\ phase = "Running" /\ ~InBody /\ frames # <<>> /\ phase' = phase /\ outcome' = outcome
      /\ registers' = exit_frame(registers, a, current.frame_layout, callee_results_count)
  BY DEF ReturnToCaller, AtEnd
<1>2. /\ TypeOK /\ Linked /\ AllCovered
      /\ current \in ActivationRecord /\ OwnBody(current) /\ registers \in Seq(Val)
  BY <1>1 DEF RInv, DInv, TypeOK
<1>3. /\ n \in Nat /\ n - 1 \in Nat /\ n \in 1 .. n /\ Len(frames') = n - 1
      /\ Depths = 1 .. n + 1 /\ Depths' = 1 .. n
      /\ \A i \in 1 .. n - 1 : i \in 1 .. n /\ i + 1 \in 1 .. n /\ i # n /\ i # n + 1
      /\ \A i \in 1 .. n : i \in Depths
      /\ n + 1 \in Depths /\ A(n + 1) = current
      /\ C = frames[n].caller
      /\ \A i \in 1 .. n - 1 : A(i)' = A(i) /\ EndOf(i)' = EndOf(i) /\ frames'[i] = frames[i]
      /\ A(n)'.base = c /\ A(n)'.func_index = g /\ A(n)'.pc = C.pc + 1
      /\ EndOf(n)' = c + v /\ EndOf(n) = a
  BY <1>0, ReturnChain
<1>4. callee_results_count = R
  <2>1. /\ frames[n].callee_results_count = Layout[frames[n].callee_func_index].results
        /\ frames[n].callee_func_index = f
    BY SMTT(30), <1>0, <1>2, <1>3 DEF Linked, CalleeOf, TypeOK
  <2>2. Last(frames) = frames[n]
    BY <1>0, <1>1, <1>2, FrontShape DEF TypeOK
  <2> QED BY <2>1, <2>2 DEF callee_results_count
<1>5. /\ f \in Func /\ a \in Nat /\ current.frame_layout = f /\ a + w <= Len(registers)
      /\ Len(registers) \in Nat
      /\ g \in Func /\ c \in Nat /\ C.pc \in Nat /\ c + v <= Len(registers)
  BY <1>0, <1>1, <1>3, ActivationFacts
<1>6. /\ w \in Nat /\ o \in Nat /\ R \in Nat /\ o + R <= w /\ v \in Nat
  BY <1>5, WidthFacts, LayoutFacts
<1>7. PICK b \in Nat : a = c + b /\ b + R <= v
  <2>1. PICK b \in CallerBases(A(n).func_index, Layout[A(n + 1).func_index].params,
                               Layout[A(n + 1).func_index].results) :
               A(n + 1).base = A(n).base + b
    BY <1>0, <1>1, <1>3 DEF RInv, Based
  <2>2. b \in operand_base(g) .. v /\ b + R <= v
    BY <2>1, <1>3 DEF CallerBases
  <2>3. operand_base(g) \in Nat
    BY <1>5, WidthFacts
  <2> QED BY <2>1, <2>2, <2>3, <1>3, <1>6
<1>8. registers' \in Seq(Val) /\ Len(registers') = Len(registers)
  BY <1>1, <1>2, <1>4, <1>5, ExitFrameShape
<1>9. /\ \A i \in 1 .. a : registers'[i] = registers[i]
      /\ \A i \in 1 .. R : registers'[a + i] = registers[a + (o + i)]
  BY <1>1, <1>2, <1>4, <1>5, ExitFrameValues
<1>10. /\ old \in Seq(AbstractActivation) /\ Len(old) = n + 1
       /\ \A i \in Depths : old[i] = Seen(i)
  BY <1>0, <1>1, ChainShape
<1>11. /\ new \in Seq(AbstractActivation) /\ Len(new) = (n - 1) + 1
       /\ \A i \in Depths' : new[i] = Seen(i)'
  BY <1>1, <1>3, NextChainShape
<1>12. Seen(n + 1) = was
  <2>1. EndOf(n + 1) = a + w
    BY <1>0, <1>3 DEF EndOf
  <2> QED BY <2>1, <1>3 DEF Seen
<1>13. Seen(n) = waits
  BY <1>3 DEF Seen
<1>14. Seen(n)' = act
  <2>1. Seen(n)' = [func |-> A(n)'.func_index, pc |-> A(n)'.pc,
                    slots |-> SubSeq(registers', A(n)'.base + 1, EndOf(n)')]
    BY DEF Seen
  <2> QED BY <2>1, <1>3
<1>15. Layout[f].instrs - 1 <= current.pc
  <2>1. /\ current.instructions = f /\ current.pc \in Nat /\ Layout[f].instrs \in Nat
    BY <1>2, <1>5, LayoutFacts DEF OwnBody, ActivationRecord
  <2>2. ~(current.pc < Layout[f].instrs - 1)
    BY <2>1, <1>1 DEF InBody
  <2> QED BY <2>1, <2>2
<1>16. current.pc \in Nat /\ Layout[f].instrs \in Nat
  BY <1>2, <1>5, LayoutFacts DEF ActivationRecord
<1> HIDE DEF w, o, R, c, v, x, slots, f, g, a, C
<1>17. /\ (a + w) - a = w /\ a + w \in Nat /\ a <= a + w /\ c <= a /\ a <= Len(registers)
       /\ a - c = b /\ c + v \in Nat /\ (c + v) - c = v /\ c <= c + v
       /\ o + R \in Nat /\ o <= o + R /\ (o + R) - o = R /\ c + v <= Len(registers')
  BY <1>5, <1>6, <1>7, <1>8
<1>18. x \in Seq(Val) /\ Len(x) = w /\ \A i \in 1 .. w : x[i] = registers[a + i]
  <2> DEFINE e == a + w
  <2>1. e \in Nat /\ a <= e /\ e <= Len(registers) /\ e - a = w
    BY <1>5, <1>17
  <2> HIDE DEF e
  <2>2. IsSlice(SubSeq(registers, a + 1, e), registers, a, e, Val)
    BY <2>1, <1>2, <1>5, SliceShape
  <2>3. IsSlice(x, registers, a, e, Val)
    BY <2>2 DEF e, x
  <2> QED BY <2>1, <2>3 DEF IsSlice
<1>19. results \in Seq(Val) /\ Len(results) = R
       /\ \A i \in 1 .. R : results[i] = x[o + i]
  <2> DEFINE e == o + R
  <2>1. e \in Nat /\ o <= e /\ e <= Len(x) /\ e - o = R
    BY <1>6, <1>17, <1>18
  <2> HIDE DEF e
  <2>2. IsSlice(SubSeq(x, o + 1, e), x, o, e, Val)
    BY <2>1, <1>6, <1>18, SliceShape
  <2>3. IsSlice(results, x, o, e, Val)
    BY <2>2 DEF e
  <2> HIDE DEF results
  <2> QED BY <2>1, <2>3 DEF IsSlice
<1>20. kept \in Seq(Val) /\ Len(kept) = b /\ \A i \in 1 .. b : kept[i] = registers[c + i]
  <2>1. IsSlice(kept, registers, c, a, Val)
    BY <1>2, <1>5, <1>17, SliceShape
  <2> HIDE DEF kept
  <2> QED BY <2>1, <1>17 DEF IsSlice
<1>21. slots \in Seq(Val) /\ Len(slots) = v /\ \A i \in 1 .. v : slots[i] = registers'[c + i]
  <2> DEFINE e == c + v
  <2>1. e \in Nat /\ c <= e /\ e <= Len(registers') /\ e - c = v
    BY <1>17
  <2> HIDE DEF e
  <2>2. IsSlice(SubSeq(registers', c + 1, e), registers', c, e, Val)
    BY <2>1, <1>5, <1>8, SliceShape
  <2>3. IsSlice(slots, registers', c, e, Val)
    BY <2>2 DEF e, slots
  <2> QED BY <2>1, <2>3 DEF IsSlice
<1> HIDE DEF results, kept
<1>22. IsConcat(back, kept, results, Val)
  BY <1>19, <1>20, ConcatShape
<1> HIDE DEF back
<1>23. /\ back \in Seq(Val) /\ Len(back) = b + R
       /\ \A i \in 1 .. b : back[i] = kept[i]
       /\ \A i \in 1 .. R : back[b + i] = results[i]
  BY <1>19, <1>20, <1>22 DEF IsConcat
<1>24. ASSUME NEW i \in 1 .. b + R PROVE slots[i] = back[i]
  <2>1. CASE i \in 1 .. b
    <3>1. i \in 1 .. v /\ c + i \in 1 .. a
      BY <2>1, <1>5, <1>6, <1>7
    <3>2. slots[i] = registers'[c + i] /\ registers'[c + i] = registers[c + i]
      BY <3>1, <1>9, <1>21
    <3>3. back[i] = kept[i] /\ kept[i] = registers[c + i]
      BY <2>1, <1>20, <1>23
    <3> QED BY <3>2, <3>3
  <2>2. CASE i \in b + 1 .. b + R
    <3>1. PICK k \in 1 .. R : i = b + k
      <4>1. i - b \in 1 .. R /\ i = b + (i - b)
        BY <2>2, <1>6
      <4> QED BY <4>1
    <3>2. i \in 1 .. v /\ c + i = a + k /\ o + k \in 1 .. w
      BY <3>1, <1>5, <1>6, <1>7
    <3>3. slots[i] = registers'[a + k] /\ registers'[a + k] = registers[a + (o + k)]
      BY <3>1, <3>2, <1>9, <1>21
    <3>4. back[i] = results[k] /\ results[k] = x[o + k] /\ x[o + k] = registers[a + (o + k)]
      BY <3>1, <3>2, <1>18, <1>19, <1>23
    <3> QED BY <3>3, <3>4
  <2>3. i \in 1 .. b \/ i \in b + 1 .. b + R
    BY <1>6
  <2> QED BY <2>1, <2>2, <2>3
<1>25. PICK other \in [1 .. v - Len(back) -> Val] : slots = back \o other
  <2>1. BeginsWith(slots, back) /\ v = Len(slots)
    BY <1>7, <1>21, <1>23, <1>24 DEF BeginsWith
  <2>2. \E other \in [1 .. Len(slots) - Len(back) -> Val] : slots = back \o other
    BY <2>1, Completed
  <2> QED BY <2>1, <2>2
<1>26. ASSUME NEW i \in 1 .. n - 1 PROVE new[i] = old[i]
  <2>1. i \in Depths /\ i \in Depths' /\ i # n + 1
    BY <1>3
  <2>2. /\ A(i).base \in Nat /\ EndOf(i) \in Nat /\ A(i).base <= EndOf(i)
        /\ EndOf(i) <= Len(registers) /\ EndOf(i) <= a
    BY <2>1, <1>0, <1>1, ActivationFacts DEF a
  <2>3. A(i)' = A(i) /\ EndOf(i)' = EndOf(i)
    BY <1>3
  <2>4. EndOf(i) <= Len(registers') /\ \A k \in 1 .. EndOf(i) : k \in 1 .. a
    BY <2>2, <1>5, <1>8
  <2>5. \A k \in 1 .. EndOf(i) : registers'[k] = registers[k]
    BY <2>4, <1>9
  <2>6. Seen(i)' = Seen(i)
    BY <2>2, <2>3, <2>4, <2>5, <1>2, <1>8, SeenStays
  <2>7. new[i] = Seen(i)' /\ old[i] = Seen(i)
    BY <2>1, <1>10, <1>11
  <2> QED BY <2>6, <2>7
<1>27. old[n + 1] = was /\ old[n] = waits /\ new[n] = act
  BY <1>3, <1>10, <1>11, <1>12, <1>13, <1>14
<1> HIDE DEF old, new, was, waits, act
<1> DEFINE m == n - 1
<1>28. m \in Nat /\ m + 1 = n /\ Len(new) = m + 1 /\ m <= Len(old) /\ m <= Len(new)
       /\ Len(old) - 2 = m /\ Len(old) - 1 = n /\ Len(old) > 1 /\ old # <<>>
  BY <1>3, <1>10, <1>11
<1> HIDE DEF m
<1>29. new = Append(SubSeq(new, 1, m), new[m + 1])
  BY <1>11, <1>28, AppendedTo
<1>30. SubSeq(new, 1, m) = SubSeq(old, 1, m)
  <2>1. \A i \in 1 .. m : new[i] = old[i]
    BY <1>26 DEF m
  <2> QED BY <2>1, <1>10, <1>11, <1>28, PrefixAgrees
<1>31. Chain!Running = was /\ Chain!Waiting = waits
  BY <1>10, <1>27, <1>28 DEF Chain!Running, Chain!Waiting, old
<1>32. /\ was.func = f /\ was.pc = current.pc /\ was.slots = x
       /\ waits.slots = kept /\ waits.func = g
       /\ [waits EXCEPT !.pc = @ + 1] = [func |-> g, pc |-> C.pc + 1, slots |-> kept]
  BY DEF was, waits
<1>33. [waits EXCEPT !.pc = @ + 1, !.slots = back \o other] = act
  <2> DEFINE Q == [waits EXCEPT !.pc = @ + 1]
  <2>1. Q = [func |-> g, pc |-> C.pc + 1, slots |-> kept]
    BY <1>32
  <2> HIDE DEF Q
  <2>2. [Q EXCEPT !.slots = slots] = act
    BY <2>1 DEF act
  <2>3. [Q EXCEPT !.slots = back \o other] = act
    BY <2>2, <1>25
  <2> QED BY <2>3 DEF Q
<1>34. ~Chain!InBody
  <2>1. ~(current.pc < Layout[f].instrs - 1)
    BY <1>15, <1>16
  <2> QED BY <2>1, <1>31, <1>32 DEF Chain!InBody
<1>35. back = Chain!Waiting.slots \o SubSeq(Chain!Running.slots, Chain!operand_base(f) + 1,
                                            Chain!operand_base(f) + Layout[f].results)
       /\ Chain!Running.func = f /\ Chain!frame_width(Chain!Waiting.func) = v
  BY <1>31, <1>32, SameReadings DEF back, results, o, R, v
<1>36. reported' = reported
  BY <1>1 DEF reported
<1>37. live_chain' = Append(SubSeq(live_chain, 1, Len(live_chain) - 2),
                            [Chain!Waiting EXCEPT !.pc = @ + 1, !.slots = back \o other])
  BY SMTT(30), <1>27, <1>28, <1>29, <1>30, <1>31, <1>33 DEF new, old
<1>38. Len(live_chain) > 1 /\ live_chain # <<>>
  BY <1>28 DEF old
<1>39. Chain!Return
  BY <1>34, <1>35, <1>36, <1>37, <1>38 DEF Chain!Return
<1> QED BY <1>39 DEF Chain!Next

(* The End of the entry function is a Return of the outermost activation.   *)
LEMMA FinishRefines ==
  ASSUME RInv, DInv', Finish
  PROVE  RInv' /\ Chain!Next
<1> DEFINE f == current.func_index
           a == current.base
           w == frame_width(f)
           o == operand_base(f)
           R == Layout[f].results
           x == SubSeq(registers, a + 1, a + w)
           given == SubSeq(registers', 1, R)
           results == SubSeq(x, o + 1, o + R)
           was == [func |-> f, pc |-> current.pc, slots |-> x]
<1>1. /\ phase = "Running" /\ ~InBody /\ frames = <<>> /\ phase' = "Idle" /\ unwind' = <<>>
      /\ registers' = exit_frame(registers, a, current.frame_layout, Layout[entry].results)
      /\ outcome' = Results(get_final_results(registers', Layout[entry].results))
  BY DEF Finish, AtEnd, Leave
<1>2. /\ TypeOK /\ Linked /\ Based
      /\ current \in ActivationRecord /\ OwnBody(current) /\ registers \in Seq(Val)
  BY <1>1 DEF RInv, DInv, TypeOK
<1>3. entry = f /\ current.frame_layout = f /\ Len(frames) = 0 /\ Depths = {1}
      /\ A(1) = current /\ EndOf(1) = a + w
  BY <1>1, <1>2 DEF Linked, OwnBody, A, EndOf, Depths
<1>4. a = 0 /\ f \in Func /\ a + w <= Len(registers) /\ Len(registers) \in Nat
      /\ current.pc \in Nat /\ current.instructions = f
  <2>1. a = 0
    BY <1>2, <1>3 DEF Based
  <2> QED BY <2>1, <1>1, <1>3, ActivationFacts
<1>5. /\ w \in Nat /\ o \in Nat /\ R \in Nat /\ o + R <= w /\ Layout[f].instrs \in Nat
      /\ a + w = w /\ 0 + 1 = 1 /\ a \in Nat
  BY <1>4, WidthFacts, LayoutFacts
<1>6. RInv'
  BY <1>1 DEF RInv
<1>7. registers' \in Seq(Val) /\ Len(registers') = Len(registers)
  BY <1>1, <1>2, <1>3, <1>4, <1>5, ExitFrameShape
<1>8. \A i \in 1 .. R : registers'[a + i] = registers[a + (o + i)]
  BY <1>1, <1>2, <1>3, <1>4, <1>5, ExitFrameValues
<1>9. live_chain \in Seq(AbstractActivation) /\ Len(live_chain) = 0 + 1 /\ live_chain[1] = Seen(1)
  BY <1>1, <1>3, ChainShape
<1>10. Seen(1) = was
  BY <1>3 DEF Seen
<1>11. ~(current.pc < Layout[f].instrs - 1)
  BY <1>1, <1>4 DEF InBody
<1> HIDE DEF a, w, o, R
<1>12. x \in Seq(Val) /\ Len(x) = w /\ \A i \in 1 .. w : x[i] = registers[i]
  <2>1. IsSlice(SubSeq(registers, 0 + 1, w), registers, 0, w, Val)
    BY <1>2, <1>4, <1>5, SliceShape
  <2>2. IsSlice(x, registers, 0, w, Val) /\ w - 0 = w
    BY <2>1, <1>4, <1>5
  <2> HIDE DEF x
  <2>3. \A i \in 1 .. w : 0 + i = i
    OBVIOUS
  <2> QED BY <2>2, <2>3 DEF IsSlice
<1>13. given \in Seq(Val) /\ Len(given) = R /\ \A i \in 1 .. R : given[i] = registers'[i]
  <2>0. R <= Len(registers')
    BY <1>4, <1>5, <1>7
  <2>1. IsSlice(SubSeq(registers', 0 + 1, R), registers', 0, R, Val)
    BY <2>0, <1>5, <1>7, SliceShape
  <2>2. IsSlice(given, registers', 0, R, Val) /\ R - 0 = R
    BY <2>1, <1>5
  <2> HIDE DEF given
  <2>3. \A i \in 1 .. R : 0 + i = i
    OBVIOUS
  <2> QED BY <2>2, <2>3 DEF IsSlice
<1> HIDE DEF x, given
<1>14. results \in Seq(Val) /\ Len(results) = R
       /\ \A i \in 1 .. R : results[i] = x[o + i]
  <2> DEFINE e == o + R
  <2>1. e \in Nat /\ o <= e /\ e <= Len(x) /\ e - o = R
    BY <1>5, <1>12
  <2> HIDE DEF e
  <2>2. IsSlice(SubSeq(x, o + 1, e), x, o, e, Val)
    BY <2>1, <1>5, <1>12, SliceShape
  <2>3. IsSlice(results, x, o, e, Val)
    BY <2>2 DEF e
  <2> HIDE DEF results
  <2> QED BY <2>1, <2>3 DEF IsSlice
<1> HIDE DEF results
<1>15. ASSUME NEW i \in 1 .. R PROVE given[i] = results[i]
  <2>1. o + i \in 1 .. w /\ a + i = i /\ a + (o + i) = o + i
    BY <1>4, <1>5
  <2>2. registers'[i] = registers[o + i]
    BY <2>1, <1>8
  <2> QED BY <2>1, <2>2, <1>12, <1>13, <1>14
<1>16. given = results
  BY <1>13, <1>14, <1>15, SeqEqual
<1>17. live_chain' = <<>> /\ reported' = Results(results)
  <2>1. get_final_results(registers', Layout[entry].results) = given
    BY <1>3 DEF get_final_results, given, R
  <2> QED BY <2>1, <1>1, <1>16 DEF live_chain, reported
<1>18. Len(live_chain) = 1 /\ live_chain # <<>> /\ Chain!Running = was
  <2> HIDE DEF was
  <2>1. Len(live_chain) = 1 /\ live_chain # <<>> /\ live_chain[1] = was
    BY <1>9, <1>10
  <2> QED BY <2>1 DEF Chain!Running
<1>19. was.func = f /\ was.pc = current.pc /\ was.slots = x
  OBVIOUS
<1>20. ~Chain!InBody
  BY <1>11, <1>18, <1>19 DEF Chain!InBody
<1>21. results = SubSeq(Chain!Running.slots, Chain!operand_base(Chain!Running.func) + 1,
                        Chain!operand_base(Chain!Running.func) + Layout[Chain!Running.func].results)
  BY <1>18, <1>19, SameReadings DEF results, o, R
<1>22. Chain!Return
  BY <1>17, <1>18, <1>20, <1>21, SameReadings DEF Chain!Return
<1> QED BY <1>6, <1>22 DEF Chain!Next

-----------------------------------------------------------------------------
(* Traps.                                                                   *)

(* What the waiting frames add to a trace, innermost first.                 *)
Sites == [i \in 1 .. Len(frames) |-> CallSite(frames[Len(frames) + 1 - i])]

LEMMA SitesShape ==
  ASSUME TypeOK, NEW n, n = Len(frames)
  PROVE  /\ n \in Nat /\ frames \in Seq(FrameRecord) /\ DOMAIN frames = 1 .. n
         /\ Sites \in Seq(TraceRecord) /\ Len(Sites) = n
         /\ \A i \in 1 .. n : n + 1 - i \in 1 .. n /\ Sites[i] = CallSite(frames[n + 1 - i])
         /\ \A i \in 1 .. n : CallSite(frames[i]) \in TraceRecord
<1>1. n \in Nat /\ frames \in Seq(FrameRecord) /\ DOMAIN frames = 1 .. n
  BY DEF TypeOK
<1>2. ASSUME NEW i \in 1 .. n PROVE CallSite(frames[i]) \in TraceRecord
  <2>1. frames[i] \in FrameRecord
    BY <1>1
  <2>2. /\ frames[i].caller.func_index \in Func /\ frames[i].caller.pc \in Nat
        /\ frames[i].caller.instruction_offsets \in Func
        /\ frames[i].callee_func_index \in Func /\ frames[i].callee_is_indirect \in BOOLEAN
    BY <2>1 DEF FrameRecord, ActivationRecord
  <2> DEFINE c == frames[i].caller
             at == Offset(c.instruction_offsets, c.pc)
             kind == <<"Call", frames[i].callee_func_index, frames[i].callee_is_indirect>>
  <2>3. at \in Func \X Nat
    BY <2>2 DEF Offset
  <2>4. kind \in {"Call"} \X Func \X BOOLEAN
    BY <2>2
  <2>5. CallSite(frames[i]) = [func_index |-> c.func_index, instr_index |-> c.pc,
                               instr_offset |-> at, kind |-> kind]
    BY DEF CallSite, CallRecord
  <2> HIDE DEF at, kind
  <2> QED BY <2>2, <2>3, <2>4, <2>5 DEF TraceRecord
<1>3. \A i \in 1 .. n : n + 1 - i \in 1 .. n
  BY <1>1
<1>4. Sites = [i \in 1 .. n |-> CallSite(frames[n + 1 - i])]
  BY DEF Sites
<1>5. Sites \in [1 .. n -> TraceRecord]
  BY <1>2, <1>3, <1>4
<1>6. Sites \in Seq(TraceRecord) /\ Len(Sites) = n
  BY <1>1, <1>5
<1> QED BY <1>1, <1>2, <1>3, <1>4, <1>6

(* The same of the next state.                                              *)
LEMMA NextSitesShape ==
  (TypeOK => \A k : k = Len(frames) =>
     /\ k \in Nat /\ Sites \in Seq(TraceRecord) /\ Len(Sites) = k
     /\ \A i \in 1 .. k : k + 1 - i \in 1 .. k /\ Sites[i] = CallSite(frames[k + 1 - i]))'
<1>1. TypeOK => \A k : k = Len(frames) =>
        /\ k \in Nat /\ Sites \in Seq(TraceRecord) /\ Len(Sites) = k
        /\ \A i \in 1 .. k : k + 1 - i \in 1 .. k /\ Sites[i] = CallSite(frames[k + 1 - i])
  BY SitesShape
<1> QED BY <1>1, PTL

(* CallChain's backtrace of a running chain is the record of the trapping   *)
(* instruction and then what the frames add.                                *)
LEMMA BacktraceIs ==
  ASSUME RInv, phase = "Running", NEW err \in Errors
  PROVE  Chain!Backtrace(err)
           = <<NonCall(current.func_index, current.pc, Offset(current.func_index, current.pc), err)>>
               \o Sites
<1>0. PICK n : n = Len(frames)
  OBVIOUS
<1> DEFINE f == current.func_index
           here == NonCall(f, current.pc, Offset(f, current.pc), err)
           Record(k) == LET a == live_chain[Len(live_chain) - k + 1]
                            at == Chain!Offset(a.func, a.pc)
                        IN  IF k = 1 THEN Chain!NonCall(a.func, a.pc, at, err)
                            ELSE Chain!CallRecord(a.func, a.pc, at,
                                                  live_chain[Len(live_chain) - k + 2].func,
                                                  a.pc \in IndirectSites)
           trace == <<here>> \o Sites
<1>1. TypeOK /\ Linked /\ SitesKept
  BY DEF RInv, DInv
<1>2. /\ n \in Nat /\ frames \in Seq(FrameRecord) /\ DOMAIN frames = 1 .. n
      /\ Sites \in Seq(TraceRecord) /\ Len(Sites) = n
      /\ \A i \in 1 .. n : n + 1 - i \in 1 .. n /\ Sites[i] = CallSite(frames[n + 1 - i])
  BY <1>0, <1>1, SitesShape
<1>3. /\ Len(live_chain) = n + 1 /\ Depths = 1 .. n + 1
      /\ \A i \in Depths : live_chain[i] = Seen(i)
  BY <1>0, ChainShape DEF Depths
<1>4. f \in Func /\ current.pc \in Nat
  BY <1>1 DEF TypeOK, ActivationRecord
<1>5. here \in TraceRecord
  <2> DEFINE kind == <<"NonCall", err>>
             at == Offset(f, current.pc)
  <2>1. kind \in {"NonCall"} \X Errors /\ at \in Func \X Nat
    BY <1>4 DEF Offset
  <2>2. here = [func_index |-> f, instr_index |-> current.pc, instr_offset |-> at, kind |-> kind]
    BY DEF NonCall
  <2> HIDE DEF kind, at, here, f
  <2> QED BY <2>1, <2>2, <1>4 DEF TraceRecord
<1>6. Chain!Backtrace(err) = [k \in 1 .. n + 1 |-> Record(k)]
  BY <1>3 DEF Chain!Backtrace
<1>7. /\ trace \in Seq(TraceRecord) /\ Len(trace) = n + 1 /\ trace[1] = here
      /\ \A k \in 1 .. n : trace[1 + k] = Sites[k]
  <2> HIDE DEF here
  <2>1. <<here>> \in Seq(TraceRecord) /\ Len(<<here>>) = 1 /\ <<here>>[1] = here
    BY <1>5
  <2> DEFINE s == <<here>>
             u == s \o Sites
  <2>2. IsConcat(u, s, Sites, TraceRecord)
    BY <2>1, <1>2, ConcatShape
  <2> HIDE DEF s, u
  <2>3. /\ u \in Seq(TraceRecord) /\ Len(u) = n + 1 /\ u[1] = here
        /\ \A k \in 1 .. n : u[1 + k] = Sites[k]
    BY <2>1, <2>2, <1>2 DEF IsConcat, s
  <2> QED BY <2>3 DEF u, s
<1>8. Record(1) = here
  <2>1. Len(live_chain) - 1 + 1 = n + 1 /\ n + 1 \in Depths
    BY <1>2, <1>3
  <2>2. A(n + 1) = current
    BY <1>0 DEF A
  <2>3. live_chain[n + 1].func = f /\ live_chain[n + 1].pc = current.pc
    BY <2>1, <2>2, <1>3 DEF Seen
  <2> QED BY <2>1, <2>3, SameReadings
<1>9. ASSUME NEW i \in 1 .. n
      PROVE  Record(n + 2 - i) = CallSite(frames[i])
  <2>1. /\ n + 2 - i # 1
        /\ Len(live_chain) - (n + 2 - i) + 1 = i
        /\ Len(live_chain) - (n + 2 - i) + 2 = i + 1
        /\ i \in Depths /\ i + 1 \in Depths /\ i # n + 1
    BY <1>2, <1>3
  <2>2. A(i) = frames[i].caller
    BY <2>1, <1>0 DEF A
  <2>3. live_chain[i].func = A(i).func_index /\ live_chain[i].pc = A(i).pc
        /\ live_chain[i + 1].func = A(i + 1).func_index
    BY <2>1, <1>3 DEF Seen
  <2>4. frames[i].callee_func_index = A(i + 1).func_index
    <3>1. frames[i].callee_func_index = CalleeOf(i)
      BY <1>1, <1>2 DEF Linked
    <3>2. CalleeOf(i) = A(i + 1).func_index
      <4>1. CASE i = n
        BY <4>1, <1>0 DEF CalleeOf, A
      <4>2. CASE i # n
        <5>1. i + 1 # n + 1
          BY <4>2, <1>2
        <5> QED BY <4>2, <5>1, <1>0 DEF CalleeOf, A
      <4> QED BY <4>1, <4>2
    <3> QED BY <3>1, <3>2
  <2>5. frames[i].callee_is_indirect = (frames[i].caller.pc \in IndirectSites)
    BY <1>0, <1>1 DEF SitesKept
  <2>6. frames[i].caller.instruction_offsets = frames[i].caller.func_index
    BY <1>1, <1>2 DEF TypeOK, OwnBody
  <2>7. Record(n + 2 - i)
          = CallRecord(A(i).func_index, A(i).pc, Offset(A(i).func_index, A(i).pc),
                       A(i + 1).func_index, A(i).pc \in IndirectSites)
    BY <2>1, <2>3, SameReadings
  <2> QED BY <2>2, <2>4, <2>5, <2>6, <2>7 DEF CallSite
<1> HIDE DEF Record, trace, here
<1>10. ASSUME NEW k \in 1 .. n + 1 PROVE Record(k) = trace[k]
  <2>1. CASE k = 1
    BY <2>1, <1>7, <1>8
  <2>2. CASE k # 1
    <3>1. PICK i \in 1 .. n : k = n + 2 - i /\ k = 1 + (n + 1 - i) /\ n + 1 - (n + 1 - i) = i
      <4>1. /\ n + 2 - k \in 1 .. n /\ k = n + 2 - (n + 2 - k) /\ k = 1 + (n + 1 - (n + 2 - k))
            /\ n + 1 - (n + 1 - (n + 2 - k)) = n + 2 - k
        BY <2>2, <1>2
      <4> QED BY <4>1
    <3>2. n + 1 - i \in 1 .. n /\ Sites[n + 1 - i] = CallSite(frames[i])
      BY <3>1, <1>2
    <3>3. trace[k] = Sites[n + 1 - i]
      BY <3>1, <3>2, <1>7
    <3> QED BY <3>1, <3>2, <3>3, <1>9
  <2> QED BY <2>1, <2>2
<1>11. trace = [k \in 1 .. n + 1 |-> trace[k]]
  BY <1>7
<1>12. Chain!Backtrace(err) = trace
  BY <1>6, <1>10, <1>11
<1> QED BY <1>12 DEF trace, here

(* When the running body can trap, so can CallChain's.                      *)
LEMMA TrapAllowed ==
  ASSUME RInv, NEW err \in Errors, Fails(err)
  PROVE  Chain!InBody /\ (err = "CallStackExhausted" => Len(live_chain) >= MAX_DEPTH)
<1>0. PICK n : n = Len(frames)
  OBVIOUS
<1>1. InBody /\ phase = "Running" /\ TypeOK /\ Counted /\ OwnBody(current)
  BY InBodyFacts DEF Fails, RInv, TypeOK
<1>2. /\ n \in Nat /\ Len(live_chain) = n + 1 /\ n + 1 \in Depths /\ live_chain[n + 1] = Seen(n + 1)
  <2>1. n \in Nat /\ Len(live_chain) = n + 1 /\ Depths = 1 .. n + 1
        /\ \A i \in Depths : live_chain[i] = Seen(i)
    BY <1>0, <1>1, ChainShape, ActivationFacts DEF Depths
  <2> QED BY <2>1
<1>3. live_chain[n + 1].func = current.func_index /\ live_chain[n + 1].pc = current.pc
  <2>1. A(n + 1) = current
    BY <1>0 DEF A
  <2> QED BY <2>1, <1>2 DEF Seen
<1>4. Chain!InBody
  <2>1. current.pc < Layout[current.func_index].instrs - 1
    BY <1>1 DEF InBody, OwnBody
  <2>2. live_chain # <<>>
    BY <1>2
  <2> QED BY <2>1, <2>2, <1>2, <1>3 DEF Chain!InBody, Chain!Running
<1>5. depth = n + 1
  BY <1>0, <1>1 DEF depth, Counted
<1> QED BY <1>2, <1>4, <1>5 DEF Fails

(* The native loop's trap is CallChain's Trap, with the whole trace: what   *)
(* the frames still add on the way out is part of it.                       *)
LEMMA TrapHereRefines ==
  ASSUME RInv, DInv', NEW err \in Errors, TrapHere(err)
  PROVE  RInv' /\ Chain!Next
<1> DEFINE f == current.func_index
           here == NonCall(f, current.pc, Offset(f, current.pc), err)
<1>1. /\ Fails(err) /\ phase' = "Unwinding" /\ frames' = frames /\ unwind' = trap_here(err)
  BY DEF TrapHere
<1>2. phase = "Running" /\ TypeOK
  BY <1>1 DEF Fails, InBody, RInv, DInv
<1>3. Chain!Backtrace(err) = <<here>> \o Sites
  BY <1>2, BacktraceIs
<1>4. unwind' = <<here>>
  BY <1>1, <1>2 DEF trap_here, TypeOK, OwnBody
<1>5. unwind' \in Seq(TraceRecord)
  <2>1. f \in Func /\ current.pc \in Nat
    BY <1>2 DEF TypeOK, ActivationRecord
  <2> DEFINE kind == <<"NonCall", err>>
             at == Offset(f, current.pc)
  <2>2. kind \in {"NonCall"} \X Errors /\ at \in Func \X Nat
    BY <2>1 DEF Offset
  <2>3. here = [func_index |-> f, instr_index |-> current.pc, instr_offset |-> at, kind |-> kind]
    BY DEF NonCall
  <2> HIDE DEF kind, at, here, f
  <2>4. here \in TraceRecord
    BY <2>1, <2>2, <2>3 DEF TraceRecord
  <2> QED BY <2>4, <1>4
<1>6. RInv'
  BY <1>1, <1>5 DEF RInv
<1>7. live_chain' = <<>> /\ reported' = Trapped(Chain!Backtrace(err))
  <2>1. live_chain' = <<>>
    BY <1>1 DEF live_chain
  <2>2. reported' = Trapped(unwind' \o Sites)
    BY <1>1 DEF reported, Sites, CallSite
  <2> QED BY <2>1, <2>2, <1>3, <1>4
<1>8. Chain!InBody /\ (err = "CallStackExhausted" => Len(live_chain) >= MAX_DEPTH)
  BY <1>1, TrapAllowed
<1>9. Chain!Trap(err)
  BY <1>7, <1>8, SameReadings DEF Chain!Trap
<1> QED BY <1>6, <1>9, SameReadings DEF Chain!Next

(* The frame-stack loop rebuilds the same trace at once.                    *)
LEMMA FuncCallErrRefines ==
  ASSUME RInv, DInv', NEW err \in Errors, FuncCallErr(err)
  PROVE  RInv' /\ Chain!Next
<1> DEFINE f == current.func_index
           here == NonCall(f, current.pc, Offset(f, current.pc), err)
<1>1. /\ Fails(err) /\ phase' = "Idle" /\ unwind' = <<>> /\ outcome' = Trapped(func_call_err(err))
  BY DEF FuncCallErr, Leave
<1>2. phase = "Running" /\ TypeOK /\ Linked
  BY <1>1 DEF Fails, InBody, RInv, DInv
<1>3. Chain!Backtrace(err) = <<here>> \o Sites
  BY <1>2, BacktraceIs
<1>4. (IF frames = <<>> THEN entry ELSE Last(frames).callee_func_index) = f
  <2>1. CASE frames = <<>>
    BY <2>1, <1>2 DEF Linked
  <2>2. CASE frames # <<>>
    <3>1. /\ Last(frames) = frames[Len(frames)] /\ Len(frames) \in Nat /\ Len(frames) > 0
          /\ DOMAIN frames = 1 .. Len(frames)
      BY <2>2, <1>2, FrontShape DEF TypeOK
    <3>2. frames[Len(frames)].callee_func_index = CalleeOf(Len(frames))
      BY <3>1, <1>2 DEF Linked
    <3> QED BY <2>2, <3>1, <3>2 DEF CalleeOf
  <2> QED BY <2>1, <2>2
<1>5. func_call_err(err) = <<here>> \o Sites
  <2>1. current.instruction_offsets = f
    BY <1>2 DEF TypeOK, OwnBody
  <2> QED BY <2>1, <1>4 DEF func_call_err, Sites
<1>6. RInv'
  BY <1>1 DEF RInv
<1>7. live_chain' = <<>> /\ reported' = Trapped(Chain!Backtrace(err))
  BY <1>1, <1>3, <1>5 DEF live_chain, reported
<1>8. Chain!InBody /\ (err = "CallStackExhausted" => Len(live_chain) >= MAX_DEPTH)
  BY <1>1, TrapAllowed
<1>9. Chain!Trap(err)
  BY <1>7, <1>8, SameReadings DEF Chain!Trap
<1> QED BY <1>6, <1>9, SameReadings DEF Chain!Next

(* Unwinding changes nothing CallChain knows of: each frame adds to the     *)
(* trace what was already counted as part of it.                            *)
LEMMA UnwindFrameRefines ==
  ASSUME RInv, DInv', UnwindFrame
  PROVE  RInv' /\ UNCHANGED <<live_chain, reported>>
<1>0. PICK n : n = Len(frames)
  OBVIOUS
<1> DEFINE site == CallSite(Last(frames))
           T == TraceRecord
<1>1. /\ phase = "Unwinding" /\ phase' = phase /\ frames # <<>> /\ frames' = Front(frames)
      /\ unwind' = Append(unwind, site) /\ outcome' = outcome
  BY DEF UnwindFrame
<1>2. TypeOK /\ TypeOK' /\ unwind \in Seq(T)
  BY DEF RInv, DInv
<1>3. /\ n \in Nat /\ Sites \in Seq(T) /\ Len(Sites) = n
      /\ \A i \in 1 .. n : n + 1 - i \in 1 .. n /\ Sites[i] = CallSite(frames[n + 1 - i])
      /\ \A i \in 1 .. n : CallSite(frames[i]) \in T
  BY <1>0, <1>2, SitesShape
<1>4. /\ n > 0 /\ Len(frames') = n - 1 /\ Last(frames) = frames[n]
      /\ \A i \in 1 .. n - 1 : frames'[i] = frames[i]
  BY <1>0, <1>1, <1>2, FrontShape DEF TypeOK
<1>5. PICK m : m = Len(frames')
  OBVIOUS
<1> DEFINE rest == Sites'
<1>6. /\ m = n - 1 /\ m \in Nat /\ rest \in Seq(T) /\ Len(rest) = m
      /\ \A i \in 1 .. m : m + 1 - i \in 1 .. m /\ rest[i] = CallSite(frames'[m + 1 - i])
  BY <1>2, <1>4, <1>5, NextSitesShape DEF CallSite
<1>7. site \in T /\ site = Sites[1]
  <2>1. n \in 1 .. n /\ 1 \in 1 .. n /\ n + 1 - 1 = n
    BY <1>3, <1>4
  <2> QED BY <2>1, <1>3, <1>4
<1>8. ASSUME NEW i \in 1 .. m PROVE rest[i] = Sites[1 + i]
  <2>1. 1 + i \in 1 .. n /\ m + 1 - i = n + 1 - (1 + i) /\ m + 1 - i \in 1 .. n - 1
    BY <1>3, <1>6
  <2>2. frames'[m + 1 - i] = frames[m + 1 - i]
    BY <2>1, <1>4
  <2>3. rest[i] = CallSite(frames'[m + 1 - i])
    BY <1>6
  <2>4. Sites[1 + i] = CallSite(frames[n + 1 - (1 + i)])
    BY <2>1, <1>3
  <2> HIDE DEF rest
  <2> QED BY <2>1, <2>2, <2>3, <2>4
<1> HIDE DEF site, rest, T
<1> DEFINE ext == Append(unwind, site)
           u == ext \o rest
           v == unwind \o Sites
           l == Len(unwind)
<1>9. /\ ext \in Seq(T) /\ Len(ext) = l + 1 /\ l \in Nat
      /\ \A i \in 1 .. l : ext[i] = unwind[i]
      /\ ext[l + 1] = site
  BY <1>2, <1>7
<1> HIDE DEF ext
<1>10. IsConcat(u, ext, rest, T) /\ IsConcat(v, unwind, Sites, T)
  BY <1>2, <1>3, <1>6, <1>9, ConcatShape
<1> HIDE DEF u, v, l
<1>11. /\ u \in Seq(T) /\ Len(u) = (l + 1) + m
       /\ \A i \in 1 .. l + 1 : u[i] = ext[i]
       /\ \A i \in 1 .. m : u[(l + 1) + i] = rest[i]
  BY <1>6, <1>9, <1>10 DEF IsConcat
<1>12. /\ v \in Seq(T) /\ Len(v) = l + n
       /\ \A i \in 1 .. l : v[i] = unwind[i]
       /\ \A i \in 1 .. n : v[l + i] = Sites[i]
  BY <1>3, <1>10 DEF IsConcat, l
<1>13. ASSUME NEW i \in 1 .. Len(u) PROVE u[i] = v[i]
  <2>1. CASE i \in 1 .. l
    <3>1. i \in 1 .. l + 1
      BY <2>1, <1>9
    <3> QED BY <2>1, <3>1, <1>9, <1>11, <1>12
  <2>2. CASE i = l + 1
    <3>1. i \in 1 .. l + 1 /\ 1 \in 1 .. n
      BY <2>2, <1>3, <1>4, <1>9
    <3> QED BY <2>2, <3>1, <1>7, <1>9, <1>11, <1>12
  <2>3. CASE i \in l + 2 .. Len(u)
    <3>1. PICK k \in 1 .. m : i = (l + 1) + k /\ i = l + (1 + k) /\ 1 + k \in 1 .. n
      <4>1. /\ i - (l + 1) \in 1 .. m /\ i = (l + 1) + (i - (l + 1))
            /\ i = l + (1 + (i - (l + 1))) /\ 1 + (i - (l + 1)) \in 1 .. n
        BY <2>3, <1>3, <1>6, <1>9, <1>11
      <4> QED BY <4>1
    <3>2. u[(l + 1) + k] = rest[k] /\ v[l + (1 + k)] = Sites[1 + k]
      BY <3>1, <1>11, <1>12
    <3> QED BY <3>1, <3>2, <1>8
  <2>4. i \in 1 .. l \/ i = l + 1 \/ i \in l + 2 .. Len(u)
    BY <1>9, <1>11, <1>6
  <2> QED BY <2>1, <2>2, <2>3, <2>4
<1>14. u = v
  <2>1. Len(u) = Len(v)
    BY <1>3, <1>6, <1>9, <1>11, <1>12
  <2> QED BY <2>1, <1>11, <1>12, <1>13, SeqEqual
<1>15. unwind' \o rest = unwind \o Sites
  BY <1>1, <1>14 DEF u, v, ext
<1>16. reported' = reported /\ live_chain' = live_chain
  BY <1>1, <1>15 DEF reported, live_chain, Sites, rest
<1>17. RInv'
  BY <1>1, <1>9 DEF RInv, ext, T
<1> QED BY <1>16, <1>17

LEMMA CloseUnwindRefines ==
  ASSUME RInv, DInv', CloseUnwind
  PROVE  RInv' /\ UNCHANGED <<live_chain, reported>>
<1>1. /\ phase = "Unwinding" /\ frames = <<>> /\ phase' = "Idle" /\ unwind' = <<>>
      /\ outcome' = Trapped(unwind)
  BY DEF CloseUnwind, Leave
<1>2. unwind \in Seq(TraceRecord)
  BY DEF RInv
<1>3. Sites = <<>>
  BY <1>1 DEF Sites
<1>4. unwind \o <<>> = unwind
  BY <1>2
<1>5. reported' = Trapped(unwind) /\ reported = Trapped(unwind \o Sites)
  BY <1>1 DEF reported, Sites
<1> QED BY <1>1, <1>3, <1>4, <1>5 DEF RInv, live_chain

-----------------------------------------------------------------------------
(* The theorems.                                                            *)

(* The first state.                                                         *)
LEMMA RefinedInit ==
  ASSUME Init
  PROVE  RInv /\ Chain!Init
<1>1. DInv
  BY InitInv
<1>2. phase = "Idle" /\ unwind = <<>> /\ outcome = Pending
  BY DEF Init
<1>3. RInv
  BY <1>1, <1>2 DEF RInv
<1>4. Chain!Init
  BY <1>2, SameReadings DEF Chain!Init, live_chain, reported
<1> QED BY <1>3, <1>4

(* Every step is a step of CallChain or changes nothing of it.              *)
LEMMA RefinedNext ==
  ASSUME RInv, [Next]_vars
  PROVE  RInv' /\ [Chain!Next]_<<live_chain, reported>>
<1>0. DInv'
  BY NextInv DEF RInv
<1>1. CASE \E f \in Func : \E params \in [1 .. Layout[f].params -> Val] : Run(f, params)
  BY <1>0, <1>1, RunRefines
<1>2. CASE \E i \in Writable(current.func_index), v \in Val : StepNext(i, v)
  BY <1>0, <1>2, StepNextRefines
<1>3. CASE \E target \in 0 .. Layout[current.func_index].instrs - 1 : StepJumpTo(target)
  BY <1>0, <1>3, StepJumpToRefines
<1>4. CASE \E b \in CallerBases(current.func_index, HostParams, HostResults) : CallImported(b)
  BY <1>0, <1>4, CallImportedRefines
<1>5. CASE \E f \in Func :
             \E b \in CallerBases(current.func_index, Layout[f].params, Layout[f].results) :
               StepCall(f, b)
  BY <1>0, <1>5, StepCallRInv, StepCallRefines
<1>6. CASE ReturnToCaller
  BY <1>0, <1>6, ReturnToCallerRInv, ReturnToCallerRefines
<1>7. CASE Finish
  BY <1>0, <1>7, FinishRefines
<1>8. CASE \E err \in Errors : TrapHere(err)
  BY <1>0, <1>8, TrapHereRefines
<1>9. CASE UnwindFrame
  BY <1>0, <1>9, UnwindFrameRefines
<1>10. CASE CloseUnwind
  BY <1>0, <1>10, CloseUnwindRefines
<1>11. CASE \E err \in Errors : FuncCallErr(err)
  BY <1>0, <1>11, FuncCallErrRefines
<1>12. CASE UNCHANGED vars
  <2>1. /\ phase' = phase /\ frames' = frames /\ current' = current /\ registers' = registers
        /\ unwind' = unwind /\ outcome' = outcome
    BY <1>12 DEF vars
  <2>2. Based' = Based /\ SitesKept' = SitesKept
    BY <2>1 DEF Based, SitesKept, A, Depths
  <2>3. RInv'
    BY <1>0, <2>1, <2>2 DEF RInv
  <2>4. live_chain' = live_chain /\ reported' = reported
    BY <2>1 DEF live_chain, reported, activations, SlotsOf, CallSite
  <2> QED BY <2>3, <2>4
<1> QED
  BY <1>1, <1>2, <1>3, <1>4, <1>5, <1>6, <1>7, <1>8, <1>9, <1>10, <1>11, <1>12 DEF Next

(* Where the frames of a live chain are, at every step.                     *)
THEOREM FramesAreNested == Spec => []RInv
<1>1. Init => RInv
  BY RefinedInit
<1>2. RInv /\ [Next]_vars => RInv'
  BY RefinedNext
<1> QED BY <1>1, <1>2, PTL DEF Spec

(* Both driver loops implement CallChain: activations that own their slots, *)
(* results where the caller expects them, zeroed locals, one trace.         *)
THEOREM LoopsImplementCalls == Spec => ImplementsCallChain
<1>1. Init => Chain!Init
  BY RefinedInit
<1>2. RInv /\ [Next]_vars => [Chain!Next]_<<live_chain, reported>>
  BY RefinedNext
<1> QED BY <1>1, <1>2, FramesAreNested, PTL DEF Spec, ImplementsCallChain, Chain!Spec, Chain!vars
=============================================================================
