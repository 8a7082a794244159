------------------------------ MODULE CallChain ------------------------------
(* What calls promise: every activation owns its slots.  A call hands over  *)
(* the arguments and keeps everything below them; a return brings back the  *)
(* results; a trap ends the whole chain and reports it, innermost first; no *)
(* chain is deeper than the limit; and a new call starts from nothing but   *)
(* its arguments, whatever the last one left behind.                        *)
EXTENDS FrameLayouts

VARIABLES chain,            \* the live activations, the running one last
          outcome           \* what the embedder was told last

vars == <<chain, outcome>>

(* An activation is its function, its instruction and its slots (slot i at  *)
(* position i + 1).  One that waits for a callee keeps the slots below the  *)
(* arguments; those from there up are the callee's.                         *)
Activation(f, slots) == [func |-> f, pc |-> 0, slots |-> slots]
Running == chain[Len(chain)]
Waiting == chain[Len(chain) - 1]
Rest == SubSeq(chain, 1, Len(chain) - 1)

(* The running activation is at an instruction that is not its last, End.   *)
InBody == chain # <<>> /\ Running.pc < Layout[Running.func].instrs - 1

(* Slots of a fresh activation: the arguments, zeroed locals, constants,    *)
(* and then anything.                                                       *)
Fresh(f, args) ==
  LET zeros == [i \in 1 .. Layout[f].locals - Layout[f].params |-> Zero]
      given == args \o zeros \o Layout[f].consts
  IN  {given \o other : other \in [1 .. frame_width(f) - Len(given) -> Val]}

Init == chain = <<>> /\ outcome = Pending

Begin(f, args) ==
  /\ chain = <<>>
  /\ \E slots \in Fresh(f, args) : chain' = <<Activation(f, slots)>>
  /\ outcome' = Pending

Becomes(a) == chain' = Append(Rest, a) /\ outcome' = outcome

Write(i, v) ==
  /\ InBody
  /\ Becomes([Running EXCEPT !.pc = @ + 1, !.slots[i + 1] = v])

Jump(target) == InBody /\ Becomes([Running EXCEPT !.pc = target])

CallHost(base) ==
  LET args == SubSeq(Running.slots, base + 1, base + HostParams)
      above == SubSeq(Running.slots, base + HostResults + 1, Len(Running.slots))
  IN  /\ InBody
      /\ Becomes([Running EXCEPT !.pc = @ + 1,
                    !.slots = SubSeq(@, 1, base) \o Host(args) \o above])

Call(f, base) ==
  LET args == SubSeq(Running.slots, base + 1, base + Layout[f].params)
      caller == [Running EXCEPT !.slots = SubSeq(@, 1, base)]
  IN  /\ InBody
      /\ Len(chain) < MAX_DEPTH
      /\ \E slots \in Fresh(f, args) : chain' = Rest \o <<caller, Activation(f, slots)>>
      /\ outcome' = outcome

Return ==
  LET f == Running.func
      results == SubSeq(Running.slots, operand_base(f) + 1, operand_base(f) + Layout[f].results)
  IN  /\ chain # <<>>
      /\ ~InBody
      /\ \/ Len(chain) = 1 /\ chain' = <<>> /\ outcome' = Results(results)
         \/ /\ Len(chain) > 1
            /\ LET back == Waiting.slots \o results
               IN  \E other \in [1 .. frame_width(Waiting.func) - Len(back) -> Val] :
                     chain' = Append(SubSeq(chain, 1, Len(chain) - 2),
                                     [Waiting EXCEPT !.pc = @ + 1, !.slots = back \o other])
            /\ outcome' = outcome

(* The backtrace: the failing instruction, then each call it was made       *)
(* through.                                                                 *)
Backtrace(err) ==
  [k \in 1 .. Len(chain) |->
     LET a == chain[Len(chain) - k + 1]
         at == Offset(a.func, a.pc)
     IN  IF k = 1 THEN NonCall(a.func, a.pc, at, err)
         ELSE CallRecord(a.func, a.pc, at, chain[Len(chain) - k + 2].func, a.pc \in IndirectSites)]

Trap(err) ==
  /\ InBody
  /\ err = "CallStackExhausted" => Len(chain) >= MAX_DEPTH
  /\ chain' = <<>>
  /\ outcome' = Trapped(Backtrace(err))

Next ==
  \/ \E f \in Func : \E args \in [1 .. Layout[f].params -> Val] : Begin(f, args)
  \/ chain # <<>> /\ \/ \E i \in Writable(Running.func), v \in Val : Write(i, v)
                     \/ \E target \in 0 .. Layout[Running.func].instrs - 1 : Jump(target)
                     \/ \E base \in CallerBases(Running.func, HostParams, HostResults) :
                          CallHost(base)
                     \/ \E f \in Func :
                          \E base \in CallerBases(Running.func, Layout[f].params, Layout[f].results) :
                            Call(f, base)
  \/ Return
  \/ \E err \in Errors : Trap(err)

Spec == Init /\ [][Next]_vars
=============================================================================
