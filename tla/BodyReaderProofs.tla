--------------------------- MODULE BodyReaderProofs ---------------------------
(***************************************************************************)
(* What every pass over a validated body may rely on: the heights of the   *)
(* validator's labels, and induction over a recursion of the model.        *)
(***************************************************************************)
EXTENDS BodyReader, WellFoundedInduction, TLAPS

(* Induction, with the property as a set: a recursion of the model counts   *)
(* from 0 up to some n.                                                     *)
LEMMA CountingUp ==
  ASSUME NEW S, 0 \in S, \A k \in Nat : k \in S => k + 1 \in S
  PROVE  Nat \subseteq S
<1> DEFINE T == {k \in Nat : k \notin S}
<1>1. SUFFICES ASSUME T # {} PROVE FALSE
  OBVIOUS
<1>2. PICK x \in T : \A y \in T : ~ (<<y, x>> \in OpToRel(<, Nat))
  <2>1. IsWellFoundedOn(OpToRel(<, Nat), Nat)
    BY NatLessThanWellFounded
  <2> QED
    BY <1>1, <2>1, WFMin
<1>3. x \in Nat /\ x # 0
  BY <1>2
<1>4. x - 1 \in Nat /\ x - 1 < x /\ (x - 1) + 1 = x
  BY <1>3
<1>5. x - 1 \notin T
  <2>1. <<x - 1, x>> \in OpToRel(<, Nat)
    BY <1>3, <1>4 DEF OpToRel
  <2> QED
    BY <1>2, <2>1
<1> QED
  BY <1>2, <1>4, <1>5

(* The same up to a bound.                                                  *)
LEMMA CountingTo ==
  ASSUME NEW n \in Nat, NEW S, 0 \in S, \A k \in 0 .. n : k \in S /\ k < n => k + 1 \in S
  PROVE  0 .. n \subseteq S
<1> DEFINE T == {k \in Nat : k <= n => k \in S}
<1>1. 0 \in T
  OBVIOUS
<1>2. \A k \in Nat : k \in T => k + 1 \in T
  OBVIOUS
<1>3. Nat \subseteq T
  <2> HIDE DEF T
  <2> QED
    BY <1>1, <1>2, CountingUp
<1> QED
  BY <1>3

(* A sequence, whatever its elements are.                                   *)
IsSeq(q) == Len(q) \in Nat /\ q = [i \in 1 .. Len(q) |-> q[i]]

LEMMA AppendIsSeq ==
  ASSUME NEW q, IsSeq(q), NEW x
  PROVE  IsSeq(Append(q, x)) /\ Len(Append(q, x)) = Len(q) + 1
<1> DEFINE S == {q[i] : i \in 1 .. Len(q)} \cup {x}
<1>1. q \in [1 .. Len(q) -> S] /\ Len(q) \in Nat
  BY DEF IsSeq
<1>2. q \in Seq(S) /\ x \in S
  BY <1>1
<1> HIDE DEF S
<1>3. Append(q, x) \in Seq(S) /\ Len(Append(q, x)) = Len(q) + 1
  BY <1>2
<1>4. PICK r \in Seq(S) : r = Append(q, x)
  BY <1>3
<1>5. Len(r) \in Nat /\ r \in [1 .. Len(r) -> S]
  OBVIOUS
<1>6. IsSeq(r)
  BY <1>5 DEF IsSeq
<1> QED
  BY <1>3, <1>4, <1>6

LEMMA MappedIsSeq ==
  ASSUME NEW q, DOMAIN q = 1 .. Len(q), Len(q) \in Nat, NEW r, DOMAIN r = DOMAIN q,
         r = [i \in DOMAIN r |-> r[i]]
  PROVE  IsSeq(r) /\ Len(r) = Len(q)
<1>1. PICK n \in Nat : DOMAIN r = 1 .. n /\ n = Len(q)
  OBVIOUS
<1>2. Len(r) = n
  BY <1>1
<1> QED
  BY <1>1, <1>2 DEF IsSeq

-----------------------------------------------------------------------------
(* The validator's labels, each at or above the height of the label around  *)
(* it, and the operands at or above the innermost.                          *)

LabelKinds == {"Func", "Block", "Loop", "If", "Else"}

ValidatorLabel ==
  [kind : LabelKinds, height : Nat, params : Nat, results : Nat, unreachable : BOOLEAN]

Validator == [height : Nat, labels : Seq(ValidatorLabel)]

Nested(v) ==
  /\ \A i, j \in 1 .. Len(v.labels) : i <= j => v.labels[i].height <= v.labels[j].height
  /\ v.labels # <<>> => Innermost(v).height <= v.height

ReaderInv(v) == v \in Validator /\ Nested(v)

(* What each operator is, as the definitions by cases see it.               *)
LEMMA PlainNames ==
  DOMAIN Arity = {"Const", "LocalGet", "LocalSet", "LocalTee", "Drop", "Nop", "GlobalGet",
                  "GlobalSet", "I32Eqz", "I32LtU", "Select"}
BY DEF Arity

LEMMA ArityShape ==
  ASSUME NEW name \in DOMAIN Arity
  PROVE  Arity[name][1] \in Nat /\ Arity[name][2] \in Nat
BY DEF Arity

(* The operators are told apart by their names.                             *)
LEMMA OperatorCases ==
  ASSUME NEW o, IsOperator(o)
  PROVE  /\ o.ty[1] \in Nat /\ o.ty[2] \in Nat
         /\ Plain(o) => o.op \notin {"Call", "CallIndirect", "Block", "Loop", "If", "Else", "End",
                                     "Br", "BrIf", "BrTable", "Return", "Unreachable"}
         /\ \/ Plain(o)
            \/ o.op \in {"Call", "CallIndirect", "Block", "Loop", "If", "Else", "End",
                         "Br", "BrIf", "BrTable", "Return", "Unreachable"}
         /\ IsCall(o) => CallPops(o) \in Nat
BY SMTT(30), PlainNames DEF IsOperator, Names, Openers, Plain, IsCall, CallPops

(* What reading each operator does to the validator.                        *)
LEMMA ValidatedCases ==
  ASSUME NEW v, NEW o, IsOperator(o)
  PROVE  /\ Plain(o) => Validated(v, o) = Effect(v, Arity[o.op][1], Arity[o.op][2])
         /\ IsCall(o) => Validated(v, o) = Effect(v, CallPops(o), o.ty[2])
         /\ o.op \in {"Block", "Loop"} =>
              LET e == Effect(v, o.ty[1], 0)
              IN  Validated(v, o) =
                    [height |-> e.height + o.ty[1],
                     labels |-> Append(e.labels, Label(o.op, e.height, o.ty[1], o.ty[2]))]
         /\ o.op = "If" =>
              LET e == Effect(v, o.ty[1] + 1, 0)
              IN  Validated(v, o) =
                    [height |-> e.height + o.ty[1],
                     labels |-> Append(e.labels, Label("If", e.height, o.ty[1], o.ty[2]))]
         /\ o.op = "Else" =>
              LET top == Innermost(v)
              IN  Validated(v, o) =
                    [height |-> top.height + top.params,
                     labels |-> [v.labels EXCEPT ![Len(v.labels)] =
                                   Label("Else", top.height, top.params, top.results)]]
         /\ o.op = "End" =>
              Validated(v, o) =
                [height |-> Innermost(v).height + Innermost(v).results,
                 labels |-> SubSeq(v.labels, 1, Len(v.labels) - 1)]
         /\ o.op = "BrIf" => Validated(v, o) = Effect(v, 1, 0)
         /\ o.op \in {"Br", "BrTable", "Return", "Unreachable"} =>
              Validated(v, o) = MarkUnreachable(v)
BY OperatorCases DEF Validated, IsCall

(* ... and what is asked for before it is read.                             *)
LEMMA AllowedCases ==
  ASSUME NEW v, NEW o, IsOperator(o), Allowed(v, o)
  PROVE  /\ Plain(o) => CanPop(v, Arity[o.op][1])
         /\ IsCall(o) => CanPop(v, CallPops(o))
         /\ o.op \in {"Block", "Loop"} => CanPop(v, o.ty[1])
         /\ o.op = "If" => CanPop(v, o.ty[1] + 1)
         /\ o.op = "Else" => /\ Innermost(v).kind = "If" /\ CanPop(v, Innermost(v).results)
                             /\ Effect(v, Innermost(v).results, 0).height = Innermost(v).height
         /\ o.op = "End" => /\ CanPop(v, Innermost(v).results)
                            /\ Effect(v, Innermost(v).results, 0).height = Innermost(v).height
                            /\ Innermost(v).kind = "If" =>
                                 Innermost(v).params = Innermost(v).results
         /\ o.op \in {"Br", "BrIf", "BrTable"} =>
              \E n \in {0, 1, 2} : \A d \in Depths(o) :
                /\ d < Len(v.labels)
                /\ BranchArity(Target(v, d)) = n
                /\ CanPop(v, n + IF o.op = "Br" THEN 0 ELSE 1)
         /\ o.op = "Return" => CanPop(v, ResultsCount)
BY OperatorCases DEF Allowed, IsCall

LEMMA LabelFields ==
  ASSUME NEW l \in ValidatorLabel
  PROVE  /\ l.kind \in LabelKinds /\ l.height \in Nat /\ l.params \in Nat
         /\ l.results \in Nat /\ l.unreachable \in BOOLEAN
BY DEF ValidatorLabel

LEMMA InnermostIsLabel ==
  ASSUME NEW v, ReaderInv(v), v.labels # <<>>
  PROVE  /\ Len(v.labels) \in Nat \ {0}
         /\ Innermost(v) = v.labels[Len(v.labels)]
         /\ Innermost(v) \in ValidatorLabel
         /\ Innermost(v).height \in Nat /\ Innermost(v).params \in Nat
         /\ Innermost(v).results \in Nat /\ Innermost(v).unreachable \in BOOLEAN
         /\ v.height \in Nat /\ Innermost(v).height <= v.height
<1>1. v.labels \in Seq(ValidatorLabel) /\ v.height \in Nat
  BY DEF ReaderInv, Validator
<1>2. Len(v.labels) \in Nat \ {0}
  BY <1>1
<1>3. Innermost(v) \in ValidatorLabel
  BY <1>1, <1>2 DEF Innermost
<1> QED
  BY <1>1, <1>2, <1>3 DEF ReaderInv, Nested, Innermost, ValidatorLabel

(* An operator that touches only operands leaves at least what it pushes    *)
(* above the innermost label, and exactly that below in code that can run.  *)
LEMMA EffectShape ==
  ASSUME NEW v, ReaderInv(v), v.labels # <<>>, NEW pops \in Nat, NEW pushes \in Nat,
         NEW e, e = Effect(v, pops, pushes)
  PROVE  /\ e \in Validator
         /\ e.labels = v.labels
         /\ e.height >= Innermost(v).height + pushes
         /\ CanPop(v, pops) /\ ~Innermost(v).unreachable =>
              e.height = v.height - pops + pushes /\ Innermost(v).height <= v.height - pops
<1>1. v \in Validator /\ v.labels \in Seq(ValidatorLabel) /\ v.height \in Nat
  BY DEF ReaderInv, Validator
<1>2. PICK h : h = (IF v.height - pops < Innermost(v).height THEN Innermost(v).height
                    ELSE v.height - pops) + pushes
  OBVIOUS
<1>3. h \in Nat /\ h >= Innermost(v).height + pushes
  BY SMTT(30), <1>1, <1>2, InnermostIsLabel
<1>4. e = [v EXCEPT !.height = h]
  BY <1>2 DEF Effect
<1>5. e \in Validator /\ e.labels = v.labels /\ e.height = h
  BY <1>1, <1>3, <1>4 DEF Validator
<1>6. CanPop(v, pops) /\ ~Innermost(v).unreachable => v.height - pops >= Innermost(v).height
  BY DEF CanPop
<1>7. v.height - pops >= Innermost(v).height => h = v.height - pops + pushes
  BY <1>1, <1>2, InnermostIsLabel
<1> QED
  BY <1>1, <1>3, <1>5, <1>6, <1>7, InnermostIsLabel

LEMMA EffectInv ==
  ASSUME NEW v, ReaderInv(v), v.labels # <<>>, NEW pops \in Nat, NEW pushes \in Nat
  PROVE  ReaderInv(Effect(v, pops, pushes))
<1> DEFINE e == Effect(v, pops, pushes)
<1>1. e \in Validator /\ e.labels = v.labels /\ e.height >= Innermost(v).height + pushes
  BY EffectShape
<1>2. Innermost(e) = Innermost(v) /\ Innermost(v).height <= e.height
  <2> HIDE DEF e
  <2>1. e.height \in Nat
    BY <1>1 DEF Validator
  <2> QED
    BY <1>1, <2>1, InnermostIsLabel DEF Innermost
<1> QED
  <2> HIDE DEF e
  <2>1. Nested(e)
    BY <1>1, <1>2 DEF ReaderInv, Nested
  <2>2. ReaderInv(e)
    BY <1>1, <2>1 DEF ReaderInv
  <2> QED
    BY <2>2 DEF e

(* Opening a label above the operands that stay.                            *)
LEMMA OpenedInv ==
  ASSUME NEW e, ReaderInv(e), e.labels # <<>>, NEW l \in ValidatorLabel,
         l.height = e.height, NEW p \in Nat,
         NEW w, w = [height |-> e.height + p, labels |-> Append(e.labels, l)]
  PROVE  /\ ReaderInv(w)
         /\ Len(w.labels) = Len(e.labels) + 1
         /\ w.labels[Len(e.labels) + 1] = l
         /\ \A k \in 1 .. Len(e.labels) : w.labels[k] = e.labels[k]
<1>1. e.labels \in Seq(ValidatorLabel) /\ e.height \in Nat /\ Len(e.labels) \in Nat
  BY DEF ReaderInv, Validator
<1>2. w.labels = Append(e.labels, l) /\ w.height = e.height + p
  BY DEF ReaderInv
<1>3. /\ Len(w.labels) = Len(e.labels) + 1
      /\ w.labels[Len(e.labels) + 1] = l
      /\ \A k \in 1 .. Len(e.labels) : w.labels[k] = e.labels[k]
      /\ w.labels \in Seq(ValidatorLabel)
  BY <1>1, <1>2
<1>4. w \in Validator
  BY <1>1, <1>3 DEF Validator
<1>5. \A k \in 1 .. Len(e.labels) : e.labels[k].height \in Nat /\ e.labels[k].height <= e.height
  <2>1. \A k \in 1 .. Len(e.labels) :
          /\ e.labels[k] \in ValidatorLabel
          /\ e.labels[k].height <= e.labels[Len(e.labels)].height
    BY <1>1 DEF ReaderInv, Nested
  <2>2. e.labels[Len(e.labels)].height <= e.height
    BY InnermostIsLabel
  <2>3. SUFFICES ASSUME NEW k \in 1 .. Len(e.labels)
                 PROVE  e.labels[k].height \in Nat /\ e.labels[k].height <= e.height
    OBVIOUS
  <2>4. Len(e.labels) \in 1 .. Len(e.labels)
    BY <1>1, <2>3
  <2>5. e.labels[k].height \in Nat /\ e.labels[Len(e.labels)].height \in Nat
    BY <1>1, <2>4, LabelFields
  <2> QED
    BY SMTT(30), <1>1, <2>1, <2>2, <2>5
<1>6. Nested(w)
  <2>1. ASSUME NEW i \in 1 .. Len(w.labels), NEW j \in 1 .. Len(w.labels), i <= j
        PROVE  w.labels[i].height <= w.labels[j].height
    <3>1. CASE j \in 1 .. Len(e.labels)
      BY <1>1, <1>3, <2>1, <3>1 DEF ReaderInv, Nested
    <3>2. CASE j = Len(e.labels) + 1
      BY <1>1, <1>3, <1>5, <2>1, <3>2
    <3> QED
      BY <1>1, <1>3, <3>1, <3>2
  <2>2. Innermost(w).height <= w.height
    BY <1>1, <1>2, <1>3 DEF Innermost
  <2> QED
    BY <2>1, <2>2 DEF Nested
<1> QED
  BY <1>3, <1>4, <1>6 DEF ReaderInv

(* A label rewritten in place at its height.                                *)
LEMMA RelabelledInv ==
  ASSUME NEW v, ReaderInv(v), v.labels # <<>>, NEW l \in ValidatorLabel,
         l.height = Innermost(v).height, NEW h \in Nat, l.height <= h,
         NEW w, w = [height |-> h, labels |-> [v.labels EXCEPT ![Len(v.labels)] = l]]
  PROVE  /\ ReaderInv(w)
         /\ Len(w.labels) = Len(v.labels)
         /\ w.labels[Len(v.labels)] = l
         /\ \A k \in 1 .. Len(v.labels) - 1 : w.labels[k] = v.labels[k]
<1>1. v.labels \in Seq(ValidatorLabel) /\ Len(v.labels) \in Nat \ {0}
  BY InnermostIsLabel DEF ReaderInv, Validator
<1>2. w.labels = [v.labels EXCEPT ![Len(v.labels)] = l] /\ w.height = h
  OBVIOUS
<1>3. /\ Len(w.labels) = Len(v.labels)
      /\ w.labels[Len(v.labels)] = l
      /\ \A k \in 1 .. Len(v.labels) - 1 : w.labels[k] = v.labels[k]
      /\ w.labels \in Seq(ValidatorLabel)
  BY <1>1, <1>2
<1>4. w \in Validator
  BY <1>3 DEF Validator
<1>5. \A k \in 1 .. Len(v.labels) : w.labels[k].height = v.labels[k].height
  BY <1>1, <1>3 DEF Innermost
<1>6. Nested(w)
  <2>1. ASSUME NEW i \in 1 .. Len(w.labels), NEW j \in 1 .. Len(w.labels), i <= j
        PROVE  w.labels[i].height <= w.labels[j].height
    <3>1. v.labels[i].height <= v.labels[j].height
      BY <1>3, <2>1 DEF ReaderInv, Nested
    <3>2. w.labels[i].height = v.labels[i].height /\ w.labels[j].height = v.labels[j].height
      BY <1>3, <1>5
    <3> QED
      BY <3>1, <3>2
  <2>2. Innermost(w).height <= w.height
    BY <1>2, <1>3 DEF Innermost
  <2> QED
    BY <2>1, <2>2 DEF Nested
<1> QED
  BY <1>3, <1>4, <1>6 DEF ReaderInv

(* Closing a label, which leaves its results where it stood.                *)
LEMMA ClosedInv ==
  ASSUME NEW v, ReaderInv(v), v.labels # <<>>,
         NEW w, w = [height |-> Innermost(v).height + Innermost(v).results,
                     labels |-> SubSeq(v.labels, 1, Len(v.labels) - 1)]
  PROVE  /\ ReaderInv(w)
         /\ Len(w.labels) = Len(v.labels) - 1
         /\ \A k \in 1 .. Len(v.labels) - 1 : w.labels[k] = v.labels[k]
<1>1. v.labels \in Seq(ValidatorLabel) /\ Len(v.labels) \in Nat \ {0}
  BY InnermostIsLabel DEF ReaderInv, Validator
<1>2. /\ w.labels = SubSeq(v.labels, 1, Len(v.labels) - 1)
      /\ w.height = Innermost(v).height + Innermost(v).results
  OBVIOUS
<1>3. /\ Len(w.labels) = Len(v.labels) - 1
      /\ \A k \in 1 .. Len(v.labels) - 1 : w.labels[k] = v.labels[k]
      /\ w.labels \in Seq(ValidatorLabel)
  BY <1>1, <1>2
<1>4. w.height \in Nat /\ Innermost(v).height <= w.height /\ w \in Validator
  BY <1>2, <1>3, InnermostIsLabel DEF Validator
<1>5. Nested(w)
  <2>1. \A i, j \in 1 .. Len(w.labels) : i <= j => w.labels[i].height <= w.labels[j].height
    BY SMTT(30), <1>1, <1>3 DEF ReaderInv, Nested
  <2>2. w.labels # <<>> => Innermost(w).height <= w.height
    <3>1. HAVE w.labels # <<>>
    <3>2. PICK n \in Nat : n = Len(v.labels) - 1
      BY SMTT(30), <1>1
    <3>3. n > 0 /\ Len(w.labels) = n /\ n \in 1 .. Len(v.labels) /\ Len(v.labels) \in 1 .. Len(v.labels)
      BY <1>1, <1>3, <3>1, <3>2
    <3>4. w.labels[n] = v.labels[n]
      BY <1>3, <3>2, <3>3
    <3>5. v.labels[n].height <= v.labels[Len(v.labels)].height
      BY <1>1, <3>2, <3>3 DEF ReaderInv, Nested
    <3>6. v.labels[n] \in ValidatorLabel
      BY <1>1, <3>3
    <3> QED
      BY SMTT(30), <1>4, <3>3, <3>4, <3>5, <3>6, InnermostIsLabel DEF Innermost, ValidatorLabel
  <2> QED
    BY <2>1, <2>2 DEF Nested
<1> QED
  BY <1>3, <1>4, <1>5 DEF ReaderInv

LEMMA MarkedShape ==
  ASSUME NEW v, ReaderInv(v), v.labels # <<>>, NEW w, w = MarkUnreachable(v)
  PROVE  /\ ReaderInv(w)
         /\ Len(w.labels) = Len(v.labels)
         /\ w.labels[Len(v.labels)] = [Innermost(v) EXCEPT !.unreachable = TRUE]
         /\ \A k \in 1 .. Len(v.labels) - 1 : w.labels[k] = v.labels[k]
<1> DEFINE l == [Innermost(v) EXCEPT !.unreachable = TRUE]
<1>1. v \in Validator /\ v.labels \in Seq(ValidatorLabel)
  BY DEF ReaderInv, Validator
<1>2. l \in ValidatorLabel /\ l.height = Innermost(v).height
  BY InnermostIsLabel DEF ValidatorLabel
<1>3. w = [height |-> Innermost(v).height,
           labels |-> [v.labels EXCEPT ![Len(v.labels)] = l]]
  BY <1>1 DEF MarkUnreachable, Innermost, Validator
<1>4. Innermost(v).height \in Nat /\ l.height <= Innermost(v).height
  BY <1>2, InnermostIsLabel
<1> HIDE DEF l
<1>5. /\ ReaderInv(w)
      /\ Len(w.labels) = Len(v.labels)
      /\ w.labels[Len(v.labels)] = l
      /\ \A k \in 1 .. Len(v.labels) - 1 : w.labels[k] = v.labels[k]
  BY <1>2, <1>3, <1>4, RelabelledInv
<1> QED
  BY <1>5 DEF l

LEMMA NewLabel ==
  ASSUME NEW kind \in LabelKinds, NEW h \in Nat, NEW p \in Nat, NEW r \in Nat
  PROVE  /\ Label(kind, h, p, r) \in ValidatorLabel
         /\ Label(kind, h, p, r).kind = kind
         /\ Label(kind, h, p, r).height = h
         /\ Label(kind, h, p, r).params = p
         /\ Label(kind, h, p, r).results = r
         /\ Label(kind, h, p, r).unreachable = FALSE
BY DEF Label, ValidatorLabel

(* The validator stays well formed, whatever it reads.                      *)
LEMMA ValidatedInv ==
  ASSUME NEW v, ReaderInv(v), v.labels # <<>>, NEW o, IsOperator(o)
  PROVE  ReaderInv(Validated(v, o))
<1> DEFINE top == Innermost(v)
<1>1. v.labels \in Seq(ValidatorLabel) /\ v.labels # <<>>
  BY DEF ReaderInv, Validator
<1>2. CASE Plain(o)
  BY <1>2, ValidatedCases, ArityShape, EffectInv DEF Plain
<1>3. CASE IsCall(o)
  BY <1>3, ValidatedCases, OperatorCases, EffectInv
<1>4. ASSUME NEW kind \in {"Block", "Loop", "If"}, NEW n \in Nat, NEW e, e = Effect(v, n, 0),
             NEW w, w = [height |-> e.height + o.ty[1],
                         labels |-> Append(e.labels, Label(kind, e.height, o.ty[1], o.ty[2]))]
      PROVE  ReaderInv(w)
  <2>1. o.ty[1] \in Nat /\ o.ty[2] \in Nat
    BY OperatorCases
  <2>2. ReaderInv(e) /\ e.labels = v.labels /\ e.height \in Nat
    BY <1>4, EffectInv, EffectShape DEF Validator
  <2>5. kind \in LabelKinds
    BY DEF LabelKinds
  <2>6. /\ Label(kind, e.height, o.ty[1], o.ty[2]) \in ValidatorLabel
        /\ Label(kind, e.height, o.ty[1], o.ty[2]).height = e.height
    BY <2>1, <2>2, <2>5 DEF Label, ValidatorLabel
  <2>3. PICK l \in ValidatorLabel :
          l = Label(kind, e.height, o.ty[1], o.ty[2]) /\ l.height = e.height
    BY <2>6
  <2>4. w = [height |-> e.height + o.ty[1], labels |-> Append(e.labels, l)]
    BY <1>4, <2>3
  <2> QED
    BY <1>1, <2>1, <2>2, <2>3, <2>4, OpenedInv
<1>5. CASE o.op \in {"Block", "Loop"}
  <2>1. o.ty[1] \in Nat /\ o.op \in {"Block", "Loop", "If"}
    BY <1>5, OperatorCases
  <2>2. PICK e : e = Effect(v, o.ty[1], 0)
    OBVIOUS
  <2>3. Validated(v, o) = [height |-> e.height + o.ty[1],
                           labels |-> Append(e.labels, Label(o.op, e.height, o.ty[1], o.ty[2]))]
    BY <1>5, <2>2, ValidatedCases
  <2> QED
    BY <1>4, <2>1, <2>2, <2>3
<1>6. CASE o.op = "If"
  <2>1. o.ty[1] + 1 \in Nat
    BY OperatorCases
  <2>2. PICK e : e = Effect(v, o.ty[1] + 1, 0)
    OBVIOUS
  <2>3. Validated(v, o) = [height |-> e.height + o.ty[1],
                           labels |-> Append(e.labels, Label("If", e.height, o.ty[1], o.ty[2]))]
    BY <1>6, <2>2, ValidatedCases
  <2> QED
    BY <1>4, <2>1, <2>2, <2>3
<1>7. CASE o.op = "Else"
  <2>5. "Else" \in LabelKinds /\ top.height \in Nat /\ top.params \in Nat /\ top.results \in Nat
    BY InnermostIsLabel DEF LabelKinds
  <2>6. /\ Label("Else", top.height, top.params, top.results) \in ValidatorLabel
        /\ Label("Else", top.height, top.params, top.results).height = top.height
    BY <2>5 DEF Label, ValidatorLabel
  <2>1. PICK l \in ValidatorLabel :
          l = Label("Else", top.height, top.params, top.results) /\ l.height = top.height
    BY <2>6
  <2>2. Validated(v, o) = [height |-> top.height + top.params,
                           labels |-> [v.labels EXCEPT ![Len(v.labels)] = l]]
    BY <1>7, <2>1, ValidatedCases
  <2>3. top.height + top.params \in Nat /\ l.height <= top.height + top.params
    BY <2>1, InnermostIsLabel
  <2>4. l.height = Innermost(v).height
    BY <2>1
  <2> QED
    BY <2>1, <2>2, <2>3, <2>4, RelabelledInv
<1>8. CASE o.op = "End"
  BY <1>8, ValidatedCases, ClosedInv
<1>9. CASE o.op = "BrIf"
  <2>1. PICK pops \in Nat, pushes \in Nat : pops = 1 /\ pushes = 0
    OBVIOUS
  <2>2. Validated(v, o) = Effect(v, pops, pushes)
    BY <1>9, <2>1, ValidatedCases
  <2> QED
    BY ONLY <2>2, EffectInv, ReaderInv(v), v.labels # <<>>
<1>10. CASE o.op \in {"Br", "BrTable", "Return", "Unreachable"}
  <2>1. Validated(v, o) = MarkUnreachable(v)
    BY <1>10, ValidatedCases
  <2> QED
    BY <2>1, MarkedShape
<1> QED
  BY <1>2, <1>3, <1>5, <1>6, <1>7, <1>8, <1>9, <1>10, OperatorCases DEF IsCall

LEMMA NewValidatorInv == ReaderInv(NewValidator)
<1>0. "Func" \in LabelKinds
  BY DEF LabelKinds
<1>5. /\ Label("Func", 0, 0, ResultsCount) \in ValidatorLabel
      /\ Label("Func", 0, 0, ResultsCount).height = 0
  BY <1>0, ResultsAssumption DEF Label, ValidatorLabel
<1>1. PICK l \in ValidatorLabel : l = Label("Func", 0, 0, ResultsCount) /\ l.height = 0
  BY <1>5
<1>2. NewValidator = [height |-> 0, labels |-> <<l>>]
  BY <1>1 DEF NewValidator
<1>3. NewValidator \in Validator
  BY <1>2 DEF Validator
<1>4. Nested(NewValidator)
  <2>1. Len(NewValidator.labels) = 1 /\ NewValidator.labels[1].height = 0 /\ NewValidator.height = 0
    BY <1>1, <1>2
  <2> QED
    BY <2>1 DEF Nested, Innermost
<1> QED
  BY <1>3, <1>4 DEF ReaderInv


-----------------------------------------------------------------------------
(* How labels nest: the depth after each operator, the labels open there    *)
(* and where they close.                                                    *)

Delta(o) == IF Opens(o) THEN 1 ELSE IF o.op = "End" THEN -1 ELSE 0

IsDepth(d, q, n) == d = [i \in 0 .. n |-> IF i = 0 THEN 1 ELSE d[i - 1] + Delta(q[i])]

LEMMA DepthExists ==
  ASSUME NEW q, NEW n \in Nat
  PROVE  \E d : IsDepth(d, q, n)
<1> DEFINE S == {m \in Nat : \E d : IsDepth(d, q, m)}
<1>1. 0 \in S
  <2>1. IsDepth([i \in 0 .. 0 |-> 1], q, 0)
    BY DEF IsDepth
  <2> QED
    BY <2>1
<1>2. ASSUME NEW m \in Nat, m \in S
      PROVE  m + 1 \in S
  <2>1. PICK d : IsDepth(d, q, m)
    BY <1>2
  <2> DEFINE f == [i \in 0 .. m + 1 |-> IF i \in 0 .. m THEN d[i] ELSE d[m] + Delta(q[m + 1])]
  <2>2. \A i \in 0 .. m : f[i] = d[i]
    OBVIOUS
  <2>3. ASSUME NEW i \in 0 .. m + 1
        PROVE  f[i] = IF i = 0 THEN 1 ELSE f[i - 1] + Delta(q[i])
    <3>1. CASE i = m + 1
      <4>1. i - 1 = m /\ i # 0 /\ i \notin 0 .. m /\ m \in 0 .. m
        BY <3>1
      <4>2. f[i] = d[m] + Delta(q[i])
        BY <2>3, <3>1, <4>1
      <4> QED
        BY <2>2, <4>1, <4>2
    <3>2. CASE i \in 0 .. m
      <4>1. d[i] = IF i = 0 THEN 1 ELSE d[i - 1] + Delta(q[i])
        BY <2>1, <3>2 DEF IsDepth
      <4>2. i # 0 => i - 1 \in 0 .. m
        BY <3>2
      <4> QED
        BY <2>2, <3>2, <4>1, <4>2
    <3> QED
      BY <2>3, <3>1, <3>2
  <2>4. PICK g : g = f
    OBVIOUS
  <2>5. g = [i \in 0 .. m + 1 |-> g[i]]
    BY <2>4
  <2>6. \A i \in 0 .. m + 1 : g[i] = IF i = 0 THEN 1 ELSE g[i - 1] + Delta(q[i])
    BY <2>3, <2>4
  <2>7. IsDepth(g, q, m + 1)
    BY ONLY <2>5, <2>6 DEF IsDepth
  <2> QED
    BY <2>7
<1>3. Nat \subseteq S
  <2> HIDE DEF S
  <2> QED
    BY <1>1, <1>2, CountingUp
<1> QED
  BY <1>3

LEMMA DepthDefined ==
  ASSUME NEW q, Len(q) \in Nat
  PROVE  IsDepth(DepthAt(q), q, Len(q))
<1> DEFINE c == CHOOSE d : IsDepth(d, q, Len(q))
<1>1. IsDepth(c, q, Len(q))
  BY DepthExists
<1>2. DepthAt(q) = c
  BY DEF DepthAt, IsDepth, Delta
<1> QED
  BY <1>1, <1>2

LEMMA DepthSteps ==
  ASSUME NEW q, Len(q) \in Nat, NEW d, d = DepthAt(q)
  PROVE  /\ d[0] = 1
         /\ \A i \in 1 .. Len(q) : d[i] = d[i - 1] + Delta(q[i])
         /\ \A i \in 0 .. Len(q) : d[i] \in Int
<1>1. PICK n \in Nat : n = Len(q)
  OBVIOUS
<1>2. d = [i \in 0 .. n |-> IF i = 0 THEN 1 ELSE d[i - 1] + Delta(q[i])]
  BY <1>1, DepthDefined DEF IsDepth
<1>3. d[0] = 1 /\ \A i \in 1 .. n : d[i] = d[i - 1] + Delta(q[i])
  BY ONLY <1>2
<1> DEFINE S == {i \in 0 .. n : d[i] \in Int}
<1>4. 0 \in S
  BY <1>3
<1>5. ASSUME NEW k \in 0 .. n, k \in S, k < n
      PROVE  k + 1 \in S
  <2>1. k + 1 \in 1 .. n /\ (k + 1) - 1 = k
    BY <1>5
  <2>2. d[k + 1] = d[k] + Delta(q[k + 1])
    BY <1>3, <2>1
  <2>3. Delta(q[k + 1]) \in Int /\ d[k] \in Int
    BY <1>5 DEF Delta
  <2> QED
    BY <2>1, <2>2, <2>3
<1>6. 0 .. n \subseteq S
  <2> HIDE DEF S
  <2> QED
    BY <1>4, <1>5, CountingTo
<1> QED
  BY <1>1, <1>3, <1>6

Longer(q, o, r) ==
  /\ Len(r) = Len(q) + 1 /\ Len(q) \in Nat /\ IsSeq(r) /\ r[Len(r)] = o
  /\ \A i \in 1 .. Len(q) : r[i] = q[i]

LEMMA AppendLonger ==
  ASSUME NEW q, IsSeq(q), NEW o, NEW r, r = Append(q, o)
  PROVE  Longer(q, o, r)
<1> DEFINE S == {q[i] : i \in 1 .. Len(q)} \cup {o}
<1>1. q \in [1 .. Len(q) -> S] /\ Len(q) \in Nat
  BY DEF IsSeq
<1>2. q \in Seq(S) /\ o \in S
  BY <1>1
<1>3. IsSeq(r)
  BY AppendIsSeq
<1> HIDE DEF S
<1>4. Len(r) = Len(q) + 1 /\ r[Len(q) + 1] = o /\ \A i \in 1 .. Len(q) : r[i] = q[i]
  BY <1>2
<1> QED
  BY <1>1, <1>3, <1>4 DEF Longer

LEMMA AppendReads ==
  ASSUME NEW q, IsSeq(q), NEW o, NEW r, r = Append(q, o)
  PROVE  /\ Len(r) = Len(q) + 1 /\ Len(q) \in Nat /\ IsSeq(r)
         /\ r[Len(q) + 1] = o
         /\ \A i \in 1 .. Len(q) : r[i] = q[i]
<1>1. Longer(q, o, r)
  BY AppendLonger
<1> QED
  BY <1>1 DEF Longer

(* One operator more.                                                       *)
Grown(d, f, n, o) ==
  /\ \A i \in 0 .. n : f[i] = d[i]
  /\ f[n + 1] = d[n] + Delta(o)

LEMMA DepthExtends ==
  ASSUME NEW q, IsSeq(q), NEW o, NEW r, r = Append(q, o),
         NEW d, d = DepthAt(q), NEW f, f = DepthAt(r)
  PROVE  Grown(d, f, Len(q), o)
<1>1. PICK n \in Nat : n = Len(q)
  BY DEF IsSeq
<1>2. Len(r) = n + 1 /\ r[n + 1] = o /\ \A i \in 1 .. n : r[i] = q[i]
  BY <1>1, AppendReads
<1>3. d[0] = 1 /\ \A i \in 1 .. n : d[i] = d[i - 1] + Delta(q[i])
  BY <1>1, DepthSteps
<1>4. f[0] = 1 /\ \A i \in 1 .. n + 1 : f[i] = f[i - 1] + Delta(r[i])
  <2>1. Len(r) \in Nat
    BY <1>2
  <2>2. f[0] = 1 /\ \A i \in 1 .. Len(r) : f[i] = f[i - 1] + Delta(r[i])
    BY <2>1, DepthSteps
  <2> QED
    BY <1>2, <2>2
<1> DEFINE S == {i \in 0 .. n : f[i] = d[i]}
<1>5. 0 \in S
  BY <1>3, <1>4
<1>6. ASSUME NEW k \in 0 .. n, k \in S, k < n
      PROVE  k + 1 \in S
  <2>1. k + 1 \in 1 .. n /\ k + 1 \in 1 .. n + 1 /\ (k + 1) - 1 = k
    BY <1>6
  <2>2. d[k + 1] = d[k] + Delta(q[k + 1]) /\ f[k + 1] = f[k] + Delta(r[k + 1])
    BY <1>3, <1>4, <2>1
  <2> QED
    BY <1>2, <1>6, <2>1, <2>2
<1>7. 0 .. n \subseteq S
  <2> HIDE DEF S
  <2> QED
    BY <1>5, <1>6, CountingTo
<1>8. f[n + 1] = f[n] + Delta(o)
  <2>1. n + 1 \in 1 .. n + 1 /\ (n + 1) - 1 = n
    OBVIOUS
  <2> QED
    BY <1>2, <1>4, <2>1
<1> QED
  BY <1>1, <1>7, <1>8 DEF Grown

(* The label that operator p opened, at level k, is open after operator i;  *)
(* p is 0 for the function.                                                 *)
OpenAt(q, p, i, k) ==
  LET d == DepthAt(q)
  IN  /\ i \in 0 .. Len(q) /\ p \in 0 .. i
      /\ d[p] = k
      /\ p = 0 \/ Opens(q[p])
      /\ \A j \in p .. i : d[j] >= k

(* It closes at operator e.                                                 *)
ClosedAt(q, p, e, k) ==
  /\ e \in 1 .. Len(q)
  /\ OpenAt(q, p, e - 1, k)
  /\ DepthAt(q)[e] = k - 1

LEMMA OpenFacts ==
  ASSUME NEW q, Len(q) \in Nat, NEW d, d = DepthAt(q), NEW p, NEW i, NEW k, OpenAt(q, p, i, k)
  PROVE  /\ i \in 0 .. Len(q) /\ p \in 0 .. i /\ k \in Int
         /\ d[p] = k /\ (p = 0 \/ Opens(q[p]))
         /\ \A j \in p .. i : d[j] >= k /\ d[j] \in Int
<1>1. i \in 0 .. Len(q) /\ p \in 0 .. i
  BY DEF OpenAt
<1>2. p \in 0 .. Len(q) /\ \A j \in p .. i : j \in 0 .. Len(q)
  BY <1>1
<1> QED
  BY <1>1, <1>2, DepthSteps DEF OpenAt

(* At most one label of a level is open.                                    *)
LEMMA OpenNotLater ==
  ASSUME NEW q, Len(q) \in Nat, NEW p, NEW r, NEW i, NEW k,
         OpenAt(q, p, i, k), OpenAt(q, r, i, k), p < r
  PROVE  FALSE
<1>1. PICK d : d = DepthAt(q)
  OBVIOUS
<1>2. /\ i \in 0 .. Len(q) /\ p \in 0 .. i /\ r \in 0 .. i /\ k \in Int
      /\ \A j \in p .. i : d[j] >= k /\ d[j] \in Int
  BY <1>1, OpenFacts
<1>3. d[r] = k /\ Opens(q[r])
  BY <1>1, <1>2, OpenFacts
<1>4. r \in 1 .. Len(q) /\ r - 1 \in p .. i
  BY <1>2
<1>5. d[r] = d[r - 1] + 1
  BY <1>1, <1>3, <1>4, DepthSteps DEF Delta
<1>6. d[r - 1] >= k /\ d[r - 1] \in Int
  BY <1>2, <1>4
<1> QED
  BY <1>2, <1>3, <1>5, <1>6

LEMMA OpenUnique ==
  ASSUME NEW q, Len(q) \in Nat, NEW p, NEW r, NEW i, NEW k,
         OpenAt(q, p, i, k), OpenAt(q, r, i, k)
  PROVE  p = r
<1>1. p \in Nat /\ r \in Nat
  BY OpenFacts
<1>2. ~(p < r)
  BY OpenNotLater
<1>3. ~(r < p)
  BY OpenNotLater
<1> QED
  BY <1>1, <1>2, <1>3

LEMMA OpenEarlier ==
  ASSUME NEW q, Len(q) \in Nat, NEW p, NEW i, NEW k, OpenAt(q, p, i, k), NEW j \in p .. i
  PROVE  OpenAt(q, p, j, k)
<1>1. i \in 0 .. Len(q) /\ p \in 0 .. i
  BY DEF OpenAt
<1>2. j \in 0 .. Len(q) /\ p \in 0 .. j /\ \A m \in p .. j : m \in p .. i
  BY <1>1
<1> QED
  BY <1>2 DEF OpenAt

(* What was open or closed stays so when an operator follows.               *)
LEMMA OpenExtends ==
  ASSUME NEW q, IsSeq(q), NEW o, NEW r, r = Append(q, o),
         NEW p, NEW i, NEW k, OpenAt(q, p, i, k)
  PROVE  OpenAt(r, p, i, k)
<1>1. PICK n \in Nat : n = Len(q)
  BY DEF IsSeq
<1>2. PICK d : d = DepthAt(q)
  OBVIOUS
<1>3. PICK f : f = DepthAt(r)
  OBVIOUS
<1>4. Len(r) = n + 1 /\ \A m \in 1 .. n : r[m] = q[m]
  BY <1>1, AppendReads
<1>5. \A j \in 0 .. n : f[j] = d[j]
  <2>1. Grown(d, f, n, o)
    BY <1>1, <1>2, <1>3, DepthExtends
  <2> QED
    BY <2>1 DEF Grown
<1>6. /\ i \in 0 .. n /\ p \in 0 .. i /\ d[p] = k /\ (p = 0 \/ Opens(q[p]))
      /\ \A j \in p .. i : d[j] >= k
  BY <1>1, <1>2, OpenFacts
<1>7. i \in 0 .. n + 1 /\ p \in 0 .. n /\ \A j \in p .. i : j \in 0 .. n
  BY <1>6
<1>8. p = 0 \/ Opens(r[p])
  <2>1. p # 0 => p \in 1 .. n
    BY <1>7
  <2> QED
    BY <1>4, <1>6, <2>1
<1> QED
  BY <1>3, <1>4, <1>5, <1>6, <1>7, <1>8 DEF OpenAt

LEMMA ClosedExtends ==
  ASSUME NEW q, IsSeq(q), NEW o, NEW r, r = Append(q, o),
         NEW p, NEW e, NEW k, ClosedAt(q, p, e, k)
  PROVE  ClosedAt(r, p, e, k)
<1>1. e \in 1 .. Len(q) /\ OpenAt(q, p, e - 1, k) /\ DepthAt(q)[e] = k - 1
  BY DEF ClosedAt
<1>2. Len(r) = Len(q) + 1 /\ Len(q) \in Nat
  BY AppendReads
<1>3. e \in 1 .. Len(r) /\ e \in 0 .. Len(q)
  BY <1>1, <1>2
<1>4. DepthAt(r)[e] = DepthAt(q)[e]
  <2>1. Grown(DepthAt(q), DepthAt(r), Len(q), o)
    BY DepthExtends
  <2> QED
    BY <1>3, <2>1 DEF Grown
<1>5. OpenAt(r, p, e - 1, k)
  BY <1>1, OpenExtends
<1> QED
  BY <1>1, <1>3, <1>4, <1>5 DEF ClosedAt

(* An open label stays open, or closes, with the operator that follows.     *)
LEMMA OpenGrows ==
  ASSUME NEW q, IsSeq(q), NEW o, NEW r, r = Append(q, o),
         NEW p, NEW k, OpenAt(q, p, Len(q), k)
  PROVE  /\ DepthAt(q)[Len(q)] + Delta(o) >= k => OpenAt(r, p, Len(q) + 1, k)
         /\ DepthAt(q)[Len(q)] = k /\ o.op = "End" => ClosedAt(r, p, Len(q) + 1, k)
<1>1. PICK n \in Nat : n = Len(q)
  BY DEF IsSeq
<1>2. PICK d : d = DepthAt(q)
  OBVIOUS
<1>3. PICK f : f = DepthAt(r)
  OBVIOUS
<1>4. Len(r) = n + 1
  BY <1>1, AppendReads
<1>5. f[n + 1] = d[n] + Delta(o)
  <2>1. Grown(d, f, n, o)
    BY <1>1, <1>2, <1>3, DepthExtends
  <2> QED
    BY <2>1 DEF Grown
<1>6. OpenAt(r, p, n, k)
  BY <1>1, OpenExtends
<1>7. /\ p \in 0 .. n /\ f[p] = k /\ (p = 0 \/ Opens(r[p]))
      /\ \A j \in p .. n : f[j] >= k
  BY <1>3, <1>4, <1>6, OpenFacts
<1>8. f[n + 1] >= k => OpenAt(r, p, n + 1, k)
  <2>1. HAVE f[n + 1] >= k
  <2>2. n + 1 \in 0 .. n + 1 /\ p \in 0 .. n + 1
    BY <1>7
  <2>3. \A j \in p .. n + 1 : f[j] >= k
    <3>1. \A j \in p .. n + 1 : j = n + 1 \/ j \in p .. n
      BY <1>7
    <3> QED
      BY <1>7, <2>1, <3>1
  <2> QED
    BY <1>3, <1>4, <1>7, <2>2, <2>3 DEF OpenAt
<1>9. d[n] = k /\ o.op = "End" => ClosedAt(r, p, n + 1, k)
  <2>1. HAVE d[n] = k /\ o.op = "End"
  <2>2. Delta(o) = -1
    BY <2>1 DEF Delta, Opens, Openers
  <2>3. k \in Int
    BY <1>1, OpenFacts
  <2>4. f[n + 1] = k - 1
    BY <1>5, <2>1, <2>2, <2>3
  <2>5. n + 1 \in 1 .. Len(r) /\ (n + 1) - 1 = n
    BY <1>4
  <2> QED
    BY <1>3, <1>6, <2>4, <2>5 DEF ClosedAt
<1> QED
  BY <1>1, <1>2, <1>5, <1>8, <1>9

(* An operator that closes no label leaves them open.                       *)
LEMMA OpenStill ==
  ASSUME NEW q, IsSeq(q), NEW o, o.op # "End", NEW r, r = Append(q, o),
         NEW p, NEW k, OpenAt(q, p, Len(q), k)
  PROVE  OpenAt(r, p, Len(r), k)
<1>1. PICK n \in Nat : n = Len(q)
  BY DEF IsSeq
<1>2. PICK d : d = DepthAt(q)
  OBVIOUS
<1>3. p \in 0 .. n /\ k \in Int /\ \A j \in p .. n : d[j] >= k /\ d[j] \in Int
  BY <1>1, <1>2, OpenFacts
<1>4. n \in p .. n
  BY <1>3
<1>5. Delta(o) \in {0, 1}
  BY DEF Delta
<1>6. d[n] + Delta(o) >= k
  BY <1>3, <1>4, <1>5
<1>7. OpenAt(r, p, n + 1, k)
  BY <1>1, <1>2, <1>6, OpenGrows
<1> QED
  BY <1>1, <1>7, AppendReads

LEMMA OpensNow ==
  ASSUME NEW q, IsSeq(q), NEW o, Opens(o), NEW r, r = Append(q, o)
  PROVE  OpenAt(r, Len(q) + 1, Len(q) + 1, DepthAt(q)[Len(q)] + 1)
<1>1. PICK n \in Nat : n = Len(q)
  BY DEF IsSeq
<1>2. PICK d : d = DepthAt(q)
  OBVIOUS
<1>3. PICK f : f = DepthAt(r)
  OBVIOUS
<1>4. Len(r) = n + 1 /\ r[n + 1] = o
  BY <1>1, AppendReads
<1>5. f[n + 1] = d[n] + 1
  <2>1. Grown(d, f, n, o)
    BY <1>1, <1>2, <1>3, DepthExtends
  <2> QED
    BY <2>1 DEF Grown, Delta
<1>6. f[n + 1] \in Int
  <2>1. n + 1 \in 0 .. Len(r) /\ Len(r) \in Nat
    BY <1>4
  <2> QED
    BY <1>3, <2>1, DepthSteps
<1>7. \A j \in n + 1 .. n + 1 : j = n + 1
  OBVIOUS
<1>8. \A j \in n + 1 .. n + 1 : f[j] >= f[n + 1]
  BY <1>6, <1>7
<1>9. n + 1 \in 0 .. n + 1
  OBVIOUS
<1>10. OpenAt(r, n + 1, n + 1, f[n + 1])
  BY <1>3, <1>4, <1>8, <1>9 DEF OpenAt
<1> QED
  BY <1>1, <1>2, <1>5, <1>10

(* A label that closed is not open.                                         *)
LEMMA ClosedNotOpen ==
  ASSUME NEW q, Len(q) \in Nat, NEW p, NEW e, NEW k,
         ClosedAt(q, p, e, k), OpenAt(q, p, Len(q), k)
  PROVE  FALSE
<1>1. PICK d : d = DepthAt(q)
  OBVIOUS
<1>2. e \in 1 .. Len(q) /\ OpenAt(q, p, e - 1, k) /\ d[e] = k - 1
  BY <1>1 DEF ClosedAt
<1>3. p \in 0 .. e - 1
  BY <1>2, OpenFacts
<1>4. k \in Int /\ \A j \in p .. Len(q) : d[j] >= k
  BY <1>1, OpenFacts
<1>5. e \in p .. Len(q)
  BY <1>2, <1>3
<1> QED
  BY <1>2, <1>4, <1>5

(* The end of the construct opened at p is the operator that closes it.     *)
LEMMA MatchingEndIs ==
  ASSUME NEW q, Len(q) \in Nat, NEW p, NEW e, NEW k, ClosedAt(q, p, e, k), p # 0
  PROVE  MatchingEnd(q, p) = e
<1>1. PICK d : d = DepthAt(q)
  OBVIOUS
<1>2. e \in 1 .. Len(q) /\ OpenAt(q, p, e - 1, k) /\ d[e] = k - 1
  BY <1>1 DEF ClosedAt
<1>3. /\ p \in 0 .. e - 1 /\ k \in Int /\ d[p] = k
      /\ \A j \in p .. e - 1 : d[j] >= k /\ d[j] \in Int
  BY <1>1, <1>2, OpenFacts
<1> DEFINE P(j) == d[j] = d[p] - 1 /\ \A m \in p + 1 .. j - 1 : d[m] >= d[p]
<1>4. e \in p + 1 .. Len(q) /\ P(e)
  BY <1>2, <1>3
<1>5. ASSUME NEW j \in p + 1 .. Len(q), P(j)
      PROVE  j = e
  <2>1. ~ (j < e)
    BY <1>2, <1>3, <1>5
  <2>2. ~ (e < j)
    BY <1>2, <1>3, <1>5
  <2> QED
    BY <1>2, <1>3, <2>1, <2>2
<1>6. MatchingEnd(q, p) = CHOOSE j \in p + 1 .. Len(q) : P(j)
  BY <1>1 DEF MatchingEnd
<1> HIDE DEF P
<1> QED
  BY <1>4, <1>5, <1>6

(* x + 1 is the else of the if at p, as far as operator e; x is -1 when     *)
(* there is none.                                                           *)
ElseIs(q, p, e, k, x) ==
  /\ x = -1 \/ x \in p .. e - 1
  /\ \A j \in p + 1 .. e : (q[j].op = "Else" /\ DepthAt(q)[j] = k) <=> j = x + 1

LEMMA NoElseYet ==
  ASSUME NEW q, NEW p \in Nat, NEW k
  PROVE  ElseIs(q, p, p, k, -1)
BY DEF ElseIs

LEMMA ElseExtends ==
  ASSUME NEW q, IsSeq(q), NEW o, NEW r, r = Append(q, o),
         NEW p \in Nat, NEW e \in 0 .. Len(q), NEW k, NEW x, ElseIs(q, p, e, k, x)
  PROVE  ElseIs(r, p, e, k, x)
<1>1. PICK d : d = DepthAt(q)
  OBVIOUS
<1>2. PICK f : f = DepthAt(r)
  OBVIOUS
<1>3. PICK n \in Nat : n = Len(q)
  BY DEF IsSeq
<1>4. \A j \in 1 .. n : r[j] = q[j]
  BY <1>3, AppendReads
<1>5. \A j \in 0 .. n : f[j] = d[j]
  <2>1. Grown(d, f, n, o)
    BY <1>1, <1>2, <1>3, DepthExtends
  <2> QED
    BY <2>1 DEF Grown
<1>6. \A j \in p + 1 .. e : j \in 1 .. n /\ j \in 0 .. n
  BY <1>3
<1>7. /\ x = -1 \/ x \in p .. e - 1
      /\ \A j \in p + 1 .. e : (q[j].op = "Else" /\ d[j] = k) <=> j = x + 1
  BY <1>1 DEF ElseIs
<1>8. \A j \in p + 1 .. e : (r[j].op = "Else" /\ f[j] = k) <=> j = x + 1
  BY <1>4, <1>5, <1>6, <1>7
<1> QED
  BY <1>2, <1>7, <1>8 DEF ElseIs

(* An operator that is not the else of this level changes nothing.          *)
LEMMA ElseGrows ==
  ASSUME NEW q, IsSeq(q), NEW o, NEW r, r = Append(q, o),
         NEW p \in 0 .. Len(q), NEW k, NEW x, ElseIs(q, p, Len(q), k, x),
         ~ (o.op = "Else" /\ DepthAt(r)[Len(q) + 1] = k)
  PROVE  ElseIs(r, p, Len(q) + 1, k, x)
<1>1. PICK f : f = DepthAt(r)
  OBVIOUS
<1>2. PICK n \in Nat : n = Len(q)
  BY DEF IsSeq
<1>3. r[n + 1] = o
  BY <1>2, AppendReads
<1>4. p \in Nat /\ n \in 0 .. n
  BY <1>2
<1>5. ElseIs(r, p, n, k, x)
  BY <1>2, <1>4, ElseExtends
<1>6. /\ x = -1 \/ x \in p .. n - 1
      /\ \A j \in p + 1 .. n : (r[j].op = "Else" /\ f[j] = k) <=> j = x + 1
  BY <1>1, <1>5 DEF ElseIs
<1>7. \A j \in p + 1 .. n + 1 : j = n + 1 \/ j \in p + 1 .. n
  BY <1>4
<1>8. n + 1 # x + 1 /\ (x = -1 \/ x \in p .. (n + 1) - 1)
  BY <1>4, <1>6
<1>9. \A j \in p + 1 .. n + 1 : (r[j].op = "Else" /\ f[j] = k) <=> j = x + 1
  BY <1>1, <1>2, <1>3, <1>6, <1>7, <1>8
<1> QED
  BY <1>1, <1>2, <1>8, <1>9 DEF ElseIs

(* This is the else.                                                        *)
LEMMA ElseFound ==
  ASSUME NEW q, IsSeq(q), NEW o, NEW r, r = Append(q, o), o.op = "Else",
         NEW p \in 0 .. Len(q), NEW k, ElseIs(q, p, Len(q), k, -1),
         DepthAt(r)[Len(q) + 1] = k
  PROVE  ElseIs(r, p, Len(q) + 1, k, Len(q))
<1>1. PICK f : f = DepthAt(r)
  OBVIOUS
<1>2. PICK n \in Nat : n = Len(q)
  BY DEF IsSeq
<1>3. r[n + 1] = o
  BY <1>2, AppendReads
<1>4. p \in Nat /\ p <= n /\ n \in 0 .. n
  BY <1>2
<1>5. ElseIs(r, p, n, k, -1)
  BY <1>2, <1>4, ElseExtends
<1>6. \A j \in p + 1 .. n : ~ (r[j].op = "Else" /\ f[j] = k)
  BY <1>1, <1>4, <1>5 DEF ElseIs
<1>7. \A j \in p + 1 .. n + 1 : j = n + 1 \/ (j \in p + 1 .. n /\ j # n + 1)
  BY <1>4
<1>8. n \in p .. (n + 1) - 1
  BY <1>4
<1>9. \A j \in p + 1 .. n + 1 : (r[j].op = "Else" /\ f[j] = k) <=> j = n + 1
  BY <1>1, <1>2, <1>3, <1>6, <1>7
<1> QED
  BY <1>1, <1>2, <1>8, <1>9 DEF ElseIs

(* Where the if at p goes when its condition is false.                      *)
LEMMA FalseArmIs ==
  ASSUME NEW q, Len(q) \in Nat, NEW p, NEW e, NEW k, ClosedAt(q, p, e, k), p # 0,
         NEW x, ElseIs(q, p, e, k, x)
  PROVE  (IF q[FalseArm(q, p)].op = "Else" THEN FalseArm(q, p) - 1 ELSE -1) = x
<1>1. PICK d : d = DepthAt(q)
  OBVIOUS
<1>2. e \in 1 .. Len(q) /\ OpenAt(q, p, e - 1, k) /\ d[e] = k - 1
  BY <1>1 DEF ClosedAt
<1>3. p \in 0 .. e - 1 /\ k \in Int /\ d[p] = k /\ d[e - 1] >= k /\ d[e - 1] \in Int
  <2>1. p \in 0 .. e - 1 /\ k \in Int /\ d[p] = k /\ \A j \in p .. e - 1 : d[j] >= k /\ d[j] \in Int
    BY <1>1, <1>2, OpenFacts
  <2>2. e - 1 \in p .. e - 1
    BY <1>2, <2>1
  <2> QED
    BY <2>1, <2>2
<1>4. MatchingEnd(q, p) = e
  BY MatchingEndIs
<1>5. /\ x = -1 \/ x \in p .. e - 1
      /\ \A j \in p + 1 .. e : (q[j].op = "Else" /\ d[j] = k) <=> j = x + 1
  BY <1>1 DEF ElseIs
<1>6. q[e].op # "Else"
  <2>1. d[e] = d[e - 1] + Delta(q[e])
    BY <1>1, <1>2, DepthSteps
  <2>2. q[e].op = "Else" => Delta(q[e]) = 0
    BY DEF Delta, Opens, Openers
  <2> QED
    BY <1>2, <1>3, <2>1, <2>2
<1> DEFINE E == {j \in p + 1 .. e : q[j].op = "Else" /\ d[j] = d[p]}
<1>7. FalseArm(q, p) = IF E = {} THEN e ELSE CHOOSE j \in E : TRUE
  BY <1>1, <1>4 DEF FalseArm
<1>8. \A j : j \in E <=> j \in p + 1 .. e /\ j = x + 1
  BY <1>3, <1>5
<1> HIDE DEF E
<1>9. CASE x = -1
  <2>1. x + 1 = 0 /\ \A j \in p + 1 .. e : j # 0
    BY <1>3, <1>9
  <2>2. E = {}
    BY <1>8, <2>1
  <2> QED
    BY <1>6, <1>7, <1>9, <2>2
<1>10. CASE x \in p .. e - 1
  <2>1. PICK y : y = x + 1
    OBVIOUS
  <2>2. y \in p + 1 .. e /\ y - 1 = x
    BY <1>2, <1>3, <1>10, <2>1
  <2>3. E = {y}
    BY <1>8, <2>1, <2>2
  <2>4. FalseArm(q, p) = y
    BY <1>7, <2>3
  <2>5. q[y].op = "Else"
    BY <1>5, <2>1, <2>2
  <2> QED
    BY <2>2, <2>4, <2>5
<1> QED
  BY <1>5, <1>9, <1>10

-----------------------------------------------------------------------------
(* The kinds of the labels: an operator keeps those of the labels it leaves *)
(* open, but for Else.                                                      *)

SameKinds(ls, ms) == Len(ms) = Len(ls) /\ \A k \in 1 .. Len(ls) : ms[k].kind = ls[k].kind

LEMMA MarkedKinds ==
  ASSUME NEW v, ReaderInv(v), v.labels # <<>>
  PROVE  SameKinds(v.labels, MarkUnreachable(v).labels)
<1>1. PICK w : w = MarkUnreachable(v)
  OBVIOUS
<1>2. PICK m \in Nat \ {0} : m = Len(v.labels)
  BY InnermostIsLabel
<1>3. Innermost(v) = v.labels[m] /\ Innermost(v) \in ValidatorLabel
  BY <1>2, InnermostIsLabel
<1>4. PICK l : l = [Innermost(v) EXCEPT !.unreachable = TRUE]
  OBVIOUS
<1>5. l.kind = v.labels[m].kind
  BY <1>3, <1>4 DEF ValidatorLabel
<1>6. /\ Len(w.labels) = m /\ w.labels[m] = l
      /\ \A k \in 1 .. m - 1 : w.labels[k] = v.labels[k]
  BY <1>1, <1>2, <1>4, MarkedShape
<1>7. ASSUME NEW k \in 1 .. m
      PROVE  w.labels[k].kind = v.labels[k].kind
  <2>1. CASE k = m
    BY <1>5, <1>6, <2>1
  <2>2. CASE k # m
    BY <1>6, <2>2
  <2> QED
    BY <2>1, <2>2
<1> QED
  BY <1>1, <1>2, <1>6, <1>7 DEF SameKinds

LEMMA ValidatedKinds ==
  ASSUME NEW v, ReaderInv(v), v.labels # <<>>, NEW o, IsOperator(o),
         o.op \notin Openers \cup {"Else", "End"}
  PROVE  SameKinds(v.labels, Validated(v, o).labels)
<1>1. \A h, p : SameKinds(v.labels, Effect(v, h, p).labels)
  <2>1. TAKE h, p
  <2>2. Effect(v, h, p).labels = v.labels
    BY DEF Effect, ReaderInv, Validator
  <2> QED
    BY <2>2 DEF SameKinds
<1>2. SameKinds(v.labels, MarkUnreachable(v).labels)
  BY MarkedKinds
<1>3. Plain(o) \/ IsCall(o) \/ o.op = "BrIf" \/ o.op \in {"Br", "BrTable", "Return", "Unreachable"}
  BY OperatorCases DEF IsCall, Openers
<1> QED
  BY <1>1, <1>2, <1>3, ValidatedCases

LEMMA OpenedKinds ==
  ASSUME NEW v, ReaderInv(v), NEW o, IsOperator(o), o.op \in Openers,
         NEW ms, ms = Validated(v, o).labels
  PROVE  /\ \A k \in 1 .. Len(v.labels) : ms[k].kind = v.labels[k].kind
         /\ ms[Len(v.labels) + 1].kind = o.op
<1>1. PICK ls : ls = v.labels
  OBVIOUS
<1>2. \A i, j : Effect(v, i, j).labels = ls
  BY <1>1 DEF Effect, ReaderInv, Validator
<1>3. PICK l : ms = Append(ls, l) /\ l.kind = o.op
  <2>1. \E i, e : /\ e = Effect(v, i, 0)
                  /\ Validated(v, o) =
                       [height |-> e.height + o.ty[1],
                        labels |-> Append(e.labels, Label(o.op, e.height, o.ty[1], o.ty[2]))]
    BY ValidatedCases DEF Openers
  <2>2. PICK h, e : ms = Append(ls, Label(o.op, h, e, o.ty[2]))
    BY <1>2, <2>1
  <2> QED
    BY <2>2 DEF Label
<1>4. PICK m \in Nat : m = Len(ls)
  BY <1>1 DEF ReaderInv, Validator
<1>5. ls \in Seq(ValidatorLabel)
  BY <1>1 DEF ReaderInv, Validator
<1>6. ms[m + 1] = l /\ \A k \in 1 .. m : ms[k] = ls[k]
  <2>1. IsSeq(ls)
    BY <1>5 DEF IsSeq
  <2>2. Longer(ls, l, ms)
    BY <1>3, <2>1, AppendLonger
  <2> QED
    BY <1>4, <2>2 DEF Longer
<1> QED
  BY <1>1, <1>3, <1>4, <1>6

LEMMA ElseKinds ==
  ASSUME NEW v, ReaderInv(v), v.labels # <<>>, NEW o, IsOperator(o), o.op = "Else",
         Allowed(v, o), NEW m, m = Len(v.labels), NEW ms, ms = Validated(v, o).labels
  PROVE  /\ v.labels[m].kind = "If"
         /\ \A k \in 1 .. m : ms[k].kind = IF k = m THEN "Else" ELSE v.labels[k].kind
<1>1. m \in Nat \ {0} /\ Innermost(v) = v.labels[m] /\ Innermost(v).kind = "If"
  BY InnermostIsLabel, AllowedCases
<1>2. PICK ls \in Seq(ValidatorLabel) : ls = v.labels
  BY DEF ReaderInv, Validator
<1>3. PICK l : l = Label("Else", Innermost(v).height, Innermost(v).params, Innermost(v).results)
  OBVIOUS
<1>4. ms = [ls EXCEPT ![m] = l]
  BY <1>2, <1>3, ValidatedCases
<1>5. l.kind = "Else"
  BY <1>3 DEF Label
<1>6. \A k \in 1 .. m : ms[k] = IF k = m THEN l ELSE ls[k]
  BY <1>2, <1>4
<1> QED
  BY <1>1, <1>2, <1>5, <1>6

-----------------------------------------------------------------------------
(* The validator at every operator of a body.                               *)

CheckedAt(q) ==
  LET v[i \in 0 .. Len(q)] == IF i = 0 THEN NewValidator ELSE Validated(v[i - 1], q[i])
  IN  v

IsChecked(v, q, n) ==
  v = [i \in 0 .. n |-> IF i = 0 THEN NewValidator ELSE Validated(v[i - 1], q[i])]

LEMMA CheckedExists ==
  ASSUME NEW q, NEW n \in Nat
  PROVE  \E v : IsChecked(v, q, n)
<1> DEFINE S == {m \in Nat : \E v : IsChecked(v, q, m)}
<1>1. 0 \in S
  <2>1. IsChecked([i \in 0 .. 0 |-> NewValidator], q, 0)
    BY DEF IsChecked
  <2> QED
    BY <2>1
<1>2. ASSUME NEW m \in Nat, m \in S
      PROVE  m + 1 \in S
  <2>1. PICK d : IsChecked(d, q, m)
    BY <1>2
  <2> DEFINE f == [i \in 0 .. m + 1 |-> IF i \in 0 .. m THEN d[i] ELSE Validated(d[m], q[m + 1])]
  <2>2. \A i \in 0 .. m : f[i] = d[i]
    OBVIOUS
  <2>3. ASSUME NEW i \in 0 .. m + 1
        PROVE  f[i] = IF i = 0 THEN NewValidator ELSE Validated(f[i - 1], q[i])
    <3>1. CASE i = m + 1
      <4>1. i - 1 = m /\ i # 0 /\ i \notin 0 .. m /\ m \in 0 .. m
        BY <3>1
      <4>2. f[i] = Validated(d[m], q[i])
        BY <2>3, <3>1, <4>1
      <4> QED
        BY <2>2, <4>1, <4>2
    <3>2. CASE i \in 0 .. m
      <4>1. d[i] = IF i = 0 THEN NewValidator ELSE Validated(d[i - 1], q[i])
        BY <2>1, <3>2 DEF IsChecked
      <4>2. i # 0 => i - 1 \in 0 .. m
        BY <3>2
      <4> QED
        BY <2>2, <3>2, <4>1, <4>2
    <3> QED
      BY <2>3, <3>1, <3>2
  <2>4. PICK g : g = f
    OBVIOUS
  <2>5. g = [i \in 0 .. m + 1 |-> g[i]]
    BY <2>4
  <2>6. \A i \in 0 .. m + 1 : g[i] = IF i = 0 THEN NewValidator ELSE Validated(g[i - 1], q[i])
    BY <2>3, <2>4
  <2>7. IsChecked(g, q, m + 1)
    BY ONLY <2>5, <2>6 DEF IsChecked
  <2> QED
    BY <2>7
<1>3. Nat \subseteq S
  <2> HIDE DEF S
  <2> QED
    BY <1>1, <1>2, CountingUp
<1> QED
  BY <1>3

LEMMA CheckedSteps ==
  ASSUME NEW q, Len(q) \in Nat, NEW v, v = CheckedAt(q)
  PROVE  /\ v[0] = NewValidator
         /\ \A i \in 1 .. Len(q) : v[i] = Validated(v[i - 1], q[i])
<1> DEFINE c == CHOOSE d : IsChecked(d, q, Len(q))
<1>1. IsChecked(c, q, Len(q))
  BY CheckedExists
<1>2. v = c
  BY DEF CheckedAt, IsChecked
<1>3. PICK n \in Nat : n = Len(q)
  OBVIOUS
<1>4. v = [i \in 0 .. n |-> IF i = 0 THEN NewValidator ELSE Validated(v[i - 1], q[i])]
  BY <1>1, <1>2, <1>3 DEF IsChecked
<1>5. v[0] = NewValidator /\ \A i \in 1 .. n : v[i] = Validated(v[i - 1], q[i])
  BY ONLY <1>4, n \in Nat
<1> QED
  BY <1>3, <1>5

(* One operator more leaves the earlier ones as they were.                  *)
CheckedOn(v, w, n, o) ==
  /\ \A i \in 0 .. n : w[i] = v[i]
  /\ w[n + 1] = Validated(v[n], o)

LEMMA CheckedExtends ==
  ASSUME NEW q, IsSeq(q), NEW o, NEW r, r = Append(q, o),
         NEW v, v = CheckedAt(q), NEW w, w = CheckedAt(r)
  PROVE  CheckedOn(v, w, Len(q), o)
<1>1. PICK n \in Nat : n = Len(q)
  BY DEF IsSeq
<1>2. Len(r) = n + 1 /\ r[n + 1] = o /\ \A i \in 1 .. n : r[i] = q[i]
  BY <1>1, AppendReads
<1>3. v[0] = NewValidator /\ \A i \in 1 .. n : v[i] = Validated(v[i - 1], q[i])
  BY <1>1, CheckedSteps
<1>4. w[0] = NewValidator /\ \A i \in 1 .. n + 1 : w[i] = Validated(w[i - 1], r[i])
  <2>1. Len(r) \in Nat
    BY <1>2
  <2>2. w[0] = NewValidator /\ \A i \in 1 .. Len(r) : w[i] = Validated(w[i - 1], r[i])
    BY <2>1, CheckedSteps
  <2> QED
    BY <1>2, <2>2
<1> DEFINE S == {i \in 0 .. n : w[i] = v[i]}
<1>5. 0 \in S
  BY <1>3, <1>4
<1>6. ASSUME NEW k \in 0 .. n, k \in S, k < n
      PROVE  k + 1 \in S
  <2>1. k + 1 \in 1 .. n /\ k + 1 \in 1 .. n + 1 /\ (k + 1) - 1 = k
    BY <1>6
  <2>2. v[k + 1] = Validated(v[k], q[k + 1]) /\ w[k + 1] = Validated(w[k], r[k + 1])
    BY <1>3, <1>4, <2>1
  <2> QED
    BY <1>2, <1>6, <2>1, <2>2
<1>7. 0 .. n \subseteq S
  <2> HIDE DEF S
  <2> QED
    BY <1>5, <1>6, CountingTo
<1>8. w[n + 1] = Validated(w[n], o)
  <2>1. n + 1 \in 1 .. n + 1 /\ (n + 1) - 1 = n
    OBVIOUS
  <2> QED
    BY <1>2, <1>4, <2>1
<1> QED
  BY <1>1, <1>7, <1>8 DEF CheckedOn

(* A body that the validator has read up to v.                              *)
Reading(v, o) == ReaderInv(v) /\ v.labels # <<>> /\ IsOperator(o) /\ Allowed(v, o)

Traced(q, v) ==
  /\ IsSeq(q) /\ ReaderInv(v) /\ CheckedAt(q)[Len(q)] = v
  /\ \A i \in 1 .. Len(q) : Reading(CheckedAt(q)[i - 1], q[i])

LEMMA TraceStarts == Traced(<<>>, NewValidator)
<1>1. PICK q : q = <<>>
  OBVIOUS
<1>2. IsSeq(q) /\ Len(q) = 0 /\ 1 .. Len(q) = {}
  BY <1>1 DEF IsSeq
<1>3. CheckedAt(q)[0] = NewValidator
  BY <1>2, CheckedSteps
<1>4. Traced(q, NewValidator)
  BY <1>2, <1>3, NewValidatorInv DEF Traced
<1> QED
  BY <1>1, <1>4

LEMMA TraceGrows ==
  ASSUME NEW q, NEW v, Traced(q, v), NEW o, Reading(v, o), NEW r, r = Append(q, o),
         NEW w, w = Validated(v, o)
  PROVE  Traced(r, w)
<1>1. PICK n \in Nat : n = Len(q)
  BY DEF Traced, IsSeq
<1>2. IsSeq(q) /\ CheckedAt(q)[n] = v
  BY <1>1 DEF Traced
<1>3. Len(r) = n + 1 /\ r[n + 1] = o /\ IsSeq(r) /\ \A i \in 1 .. n : r[i] = q[i]
  <2>1. Longer(q, o, r)
    BY <1>2, AppendLonger
  <2> QED
    BY <1>1, <2>1 DEF Longer
<1>4. PICK vs : vs = CheckedAt(q)
  OBVIOUS
<1>5. PICK ws : ws = CheckedAt(r)
  OBVIOUS
<1>6. (\A i \in 0 .. n : ws[i] = vs[i]) /\ ws[n + 1] = Validated(vs[n], o)
  <2>1. CheckedOn(vs, ws, n, o)
    BY <1>1, <1>2, <1>4, <1>5, CheckedExtends
  <2> QED
    BY <2>1 DEF CheckedOn
<1>7. ReaderInv(w) /\ ws[n + 1] = w
  BY <1>2, <1>4, <1>6, ValidatedInv DEF Reading
<1>8. ASSUME NEW i \in 1 .. n + 1
      PROVE  Reading(ws[i - 1], r[i])
  <2>1. CASE i = n + 1
    <3>1. i - 1 = n /\ n \in 0 .. n
      BY <2>1
    <3>2. ws[i - 1] = v /\ r[i] = o
      BY <1>2, <1>3, <1>4, <1>6, <2>1, <3>1
    <3> QED
      BY <3>2
  <2>2. CASE i \in 1 .. n
    <3>1. i - 1 \in 0 .. n
      BY <2>2
    <3>2. ws[i - 1] = vs[i - 1] /\ r[i] = q[i]
      BY <1>3, <1>6, <2>2, <3>1
    <3> QED
      BY <1>1, <1>4, <2>2, <3>2 DEF Traced
  <2>3. i = n + 1 \/ i \in 1 .. n
    OBVIOUS
  <2> QED
    BY <2>1, <2>2, <2>3
<1> QED
  BY <1>3, <1>5, <1>7, <1>8 DEF Traced

LEMMA TraceReads ==
  ASSUME NEW q, NEW v, Traced(q, v), NEW i \in 1 .. Len(q), NEW vs, vs = CheckedAt(q)
  PROVE  Reading(vs[i - 1], q[i]) /\ vs[i] = Validated(vs[i - 1], q[i])
<1>1. Len(q) \in Nat
  BY DEF Traced, IsSeq
<1> QED
  BY <1>1, CheckedSteps DEF Traced

LEMMA TraceInv ==
  ASSUME NEW q, NEW v, Traced(q, v), NEW i \in 0 .. Len(q), NEW vs, vs = CheckedAt(q)
  PROVE  ReaderInv(vs[i])
<1>1. PICK n \in Nat : n = Len(q)
  BY DEF Traced, IsSeq
<1>2. CASE i = n
  BY <1>1, <1>2 DEF Traced
<1>3. CASE i # n
  <2>1. i + 1 \in 1 .. n /\ (i + 1) - 1 = i
    BY <1>1, <1>3
  <2>2. Reading(vs[(i + 1) - 1], q[i + 1])
    BY <1>1, <2>1, TraceReads
  <2> QED
    BY <2>1, <2>2 DEF Reading
<1> QED
  BY <1>2, <1>3

-----------------------------------------------------------------------------
(* What an operator does to the labels: it opens one, closes one, or keeps  *)
(* them, and then only the innermost may change, and not where it stands.   *)

Transfers == {"Br", "BrTable", "Return", "Unreachable"}

SameEnds(l, m) == m.height = l.height /\ m.params = l.params /\ m.results = l.results

(* The first n labels of v are those of w.                                  *)
Within(v, w, n) == \A k \in 1 .. n : w.labels[k] = v.labels[k]

Relabels(v, w, n) ==
  /\ Len(w.labels) = n /\ Within(v, w, n - 1)
  /\ SameEnds(v.labels[n], w.labels[n])

LabelOpened(v, w, o, n) ==
  /\ Len(w.labels) = n + 1 /\ Within(v, w, n)
  /\ w.labels[n + 1].kind = o.op /\ w.labels[n + 1].params = o.ty[1]
  /\ w.labels[n + 1].results = o.ty[2] /\ w.labels[n + 1].unreachable = FALSE
  /\ w.height = w.labels[n + 1].height + o.ty[1]
  /\ LET popped == o.ty[1] + (IF o.op = "If" THEN 1 ELSE 0)
     IN  w.labels[n + 1].height = Effect(v, popped, 0).height

LabelRestarted(v, w, n) ==
  /\ Relabels(v, w, n)
  /\ v.labels[n].kind = "If" /\ w.labels[n].kind = "Else"
  /\ w.labels[n].unreachable = FALSE
  /\ w.height = v.labels[n].height + v.labels[n].params

LabelLeft(v, w, n) ==
  /\ Relabels(v, w, n) /\ w.labels[n].kind = v.labels[n].kind
  /\ w.labels[n].unreachable = TRUE

LabelClosed(v, w, n) ==
  /\ Len(w.labels) = n - 1 /\ Within(v, w, n - 1)
  /\ w.height = v.labels[n].height + v.labels[n].results

LEMMA EffectReads ==
  ASSUME NEW v, NEW o, Reading(v, o),
         o.op \notin Openers \cup {"Else", "End"} \cup Transfers, NEW w, w = Validated(v, o)
  PROVE  w.labels = v.labels
<1>1. \A i, j : Effect(v, i, j).labels = v.labels
  BY DEF Effect, Reading, ReaderInv, Validator
<1>2. \E i, j : w = Effect(v, i, j)
  BY ValidatedCases, OperatorCases DEF Reading, Openers, Transfers, IsCall
<1> QED
  BY <1>1, <1>2

LEMMA OpenerReads ==
  ASSUME NEW v, NEW o, Reading(v, o), o.op \in Openers, NEW w, w = Validated(v, o),
         NEW n, n = Len(v.labels)
  PROVE  LabelOpened(v, w, o, n)
<1>1. PICK ls \in Seq(ValidatorLabel) : ls = v.labels
  BY DEF Reading, ReaderInv, Validator
<1>2. PICK p : p = o.ty[1] + (IF o.op = "If" THEN 1 ELSE 0)
  OBVIOUS
<1>3. o.ty[1] \in Nat /\ IsOperator(o)
  BY OperatorCases DEF Reading
<1>4. o.op # "If" => p = o.ty[1]
  BY <1>2, <1>3
<1>5. o.op = "If" => p = o.ty[1] + 1
  BY <1>2, <1>3
<1>6. PICK e : e = Effect(v, p, 0)
  OBVIOUS
<1>7. e.labels = ls
  BY <1>1, <1>6 DEF Effect, Reading, ReaderInv, Validator
<1>8. PICK l : l = Label(o.op, e.height, o.ty[1], o.ty[2])
  OBVIOUS
<1>9. w = [height |-> e.height + o.ty[1], labels |-> Append(e.labels, l)]
  <2>1. CASE o.op \in {"Block", "Loop"}
    BY ZenonT(30), <1>3, <1>4, <1>6, <1>8, <2>1, ValidatedCases
  <2>2. CASE o.op = "If"
    BY ZenonT(30), <1>3, <1>5, <1>6, <1>8, <2>2, ValidatedCases
  <2> QED
    BY <2>1, <2>2 DEF Openers
<1>10. w.height = e.height + o.ty[1] /\ w.labels = Append(ls, l)
  BY <1>7, <1>9
<1>11. Longer(ls, l, w.labels)
  <2>1. IsSeq(ls)
    BY <1>1 DEF IsSeq
  <2> QED
    BY <1>10, <2>1, AppendLonger
<1>12. Len(w.labels) = n + 1 /\ w.labels[n + 1] = l /\ Within(v, w, n)
  BY <1>1, <1>11 DEF Longer, Within
<1>13. /\ l.kind = o.op /\ l.params = o.ty[1] /\ l.results = o.ty[2] /\ l.unreachable = FALSE
       /\ l.height = e.height
  BY <1>8 DEF Label
<1> QED
  BY <1>2, <1>6, <1>10, <1>12, <1>13 DEF LabelOpened

LEMMA ElseReads ==
  ASSUME NEW v, NEW o, Reading(v, o), o.op = "Else", NEW w, w = Validated(v, o),
         NEW n, n = Len(v.labels)
  PROVE  LabelRestarted(v, w, n)
<1>1. PICK ls \in Seq(ValidatorLabel) : ls = v.labels
  BY DEF Reading, ReaderInv, Validator
<1>2. n \in Nat \ {0} /\ Innermost(v) = v.labels[n] /\ Innermost(v).kind = "If"
  BY InnermostIsLabel, AllowedCases DEF Reading
<1>3. PICK t : t = ls[n] /\ t = Innermost(v)
  BY <1>1, <1>2
<1>4. PICK l : l = Label("Else", t.height, t.params, t.results)
  OBVIOUS
<1>5. w = [height |-> t.height + t.params, labels |-> [ls EXCEPT ![n] = l]]
  BY <1>1, <1>3, <1>4, ValidatedCases DEF Reading
<1>6. w.height = t.height + t.params /\ w.labels = [ls EXCEPT ![n] = l]
  BY <1>5
<1>7. Len(w.labels) = n /\ w.labels[n] = l /\ \A k \in 1 .. n - 1 : w.labels[k] = ls[k]
  BY <1>1, <1>2, <1>6
<1>8. SameEnds(t, l) /\ l.kind = "Else" /\ l.unreachable = FALSE
  BY <1>4 DEF Label, SameEnds
<1> QED
  BY <1>1, <1>2, <1>3, <1>6, <1>7, <1>8 DEF Relabels, Within, LabelRestarted

LEMMA TransferReads ==
  ASSUME NEW v, NEW o, Reading(v, o), o.op \in Transfers, NEW w, w = Validated(v, o),
         NEW n, n = Len(v.labels)
  PROVE  LabelLeft(v, w, n)
<1>1. w = MarkUnreachable(v)
  BY ValidatedCases DEF Reading, Transfers
<1>2. PICK t : t = Innermost(v)
  OBVIOUS
<1>3. t \in ValidatorLabel /\ t = v.labels[n] /\ n # 0
  BY <1>2, InnermostIsLabel DEF Reading
<1>4. PICK l : l = [t EXCEPT !.unreachable = TRUE]
  OBVIOUS
<1>5. SameEnds(t, l) /\ l.kind = t.kind /\ l.unreachable = TRUE
  BY <1>3, <1>4 DEF ValidatorLabel, SameEnds
<1>6. Len(w.labels) = n /\ w.labels[n] = l /\ \A k \in 1 .. n - 1 : w.labels[k] = v.labels[k]
  BY <1>1, <1>2, <1>4, MarkedShape DEF Reading
<1> QED
  BY <1>3, <1>5, <1>6 DEF Relabels, Within, LabelLeft

LEMMA EndReads ==
  ASSUME NEW v, NEW o, Reading(v, o), o.op = "End", NEW w, w = Validated(v, o),
         NEW n, n = Len(v.labels)
  PROVE  LabelClosed(v, w, n)
<1>1. w = [height |-> Innermost(v).height + Innermost(v).results,
           labels |-> SubSeq(v.labels, 1, Len(v.labels) - 1)]
  BY ValidatedCases DEF Reading
<1>2. Len(w.labels) = n - 1 /\ \A k \in 1 .. n - 1 : w.labels[k] = v.labels[k]
  BY <1>1, ClosedInv DEF Reading
<1>3. n \in Nat \ {0} /\ Innermost(v) = v.labels[n]
  BY InnermostIsLabel DEF Reading
<1> QED
  BY <1>1, <1>2, <1>3 DEF Within, LabelClosed

(* The levels follow the depths.                                            *)
LEMMA ReadLevels ==
  ASSUME NEW v, NEW o, Reading(v, o), NEW w, w = Validated(v, o)
  PROVE  Len(w.labels) = Len(v.labels) + Delta(o) /\ Len(v.labels) \in Nat \ {0}
<1>1. PICK n \in Nat \ {0} : n = Len(v.labels)
  BY InnermostIsLabel DEF Reading
<1>2. CASE o.op \in Openers
  <2>1. Delta(o) = 1
    BY <1>2 DEF Delta, Opens
  <2>2. Len(w.labels) = n + 1
    <3>1. LabelOpened(v, w, o, n)
      BY <1>1, <1>2, OpenerReads
    <3> QED
      BY <3>1, <1>1 DEF LabelOpened
  <2> QED
    BY <1>1, <2>1, <2>2
<1>3. CASE o.op = "End"
  <2>1. Delta(o) = -1
    BY <1>3 DEF Delta, Opens, Openers
  <2>2. Len(w.labels) = n - 1
    <3>1. LabelClosed(v, w, n)
      BY <1>1, <1>3, EndReads
    <3> QED
      BY <3>1, <1>1 DEF LabelClosed
  <2> QED
    BY <1>1, <2>1, <2>2
<1>4. CASE o.op \notin Openers \cup {"End"}
  <2>1. Delta(o) = 0
    BY <1>4 DEF Delta, Opens
  <2>2. Len(w.labels) = n
    <3>1. CASE o.op = "Else"
      <4>1. LabelRestarted(v, w, n)
        BY <1>1, <3>1, ElseReads
      <4> QED
        BY <4>1, <1>1 DEF LabelRestarted, Relabels
    <3>2. CASE o.op \in Transfers
      <4>1. LabelLeft(v, w, n)
        BY <1>1, <3>2, TransferReads
      <4> QED
        BY <4>1, <1>1 DEF LabelLeft, Relabels
    <3>3. CASE o.op \notin Transfers \cup {"Else"}
      BY <1>1, <1>4, <3>3, EffectReads
    <3> QED
      BY <3>1, <3>2, <3>3
  <2> QED
    BY <1>1, <2>1, <2>2
<1> QED
  BY <1>2, <1>3, <1>4

(* A label that stays open stays where it is, and the labels around it are  *)
(* untouched.                                                               *)
Stays(v, w, k) ==
  /\ Within(v, w, k - 1) /\ SameEnds(v.labels[k], w.labels[k])
  /\ v.labels[k].kind = "Loop" <=> w.labels[k].kind = "Loop"

LEMMA ReadStays ==
  ASSUME NEW v, NEW o, Reading(v, o), NEW w, w = Validated(v, o),
         NEW k \in Nat \ {0}, k <= Len(v.labels), k <= Len(w.labels)
  PROVE  /\ Stays(v, w, k)
         /\ (o.op = "Else" /\ k = Len(w.labels)) \/ w.labels[k].kind = v.labels[k].kind
<1>1. PICK n \in Nat \ {0} : n = Len(v.labels)
  BY InnermostIsLabel DEF Reading
<1>2. ASSUME NEW m, Within(v, w, m), m \in Nat, k <= m
      PROVE  Stays(v, w, k) /\ w.labels[k].kind = v.labels[k].kind
  <2>1. k \in 1 .. m /\ \A j \in 1 .. k - 1 : j \in 1 .. m
    BY <1>2
  <2>2. w.labels[k] = v.labels[k] /\ Within(v, w, k - 1)
    BY <1>2, <2>1 DEF Within
  <2> QED
    BY <2>2 DEF Stays, SameEnds
<1>3. CASE o.op \in Openers
  <2>1. Within(v, w, n)
    <3>1. LabelOpened(v, w, o, n)
      BY <1>1, <1>3, OpenerReads
    <3> QED
      BY <3>1, <1>1 DEF LabelOpened
  <2> QED
    BY <1>1, <1>2, <2>1
<1>4. CASE o.op = "End"
  <2>1. n - 1 \in Nat /\ Within(v, w, n - 1) /\ k <= n - 1
    <3>1. LabelClosed(v, w, n)
      BY <1>1, <1>4, EndReads
    <3> QED
      BY <1>1, <3>1 DEF LabelClosed
  <2> QED
    BY <1>2, <2>1
<1>5. CASE o.op \in Transfers \cup {"Else"}
  <2>1. Relabels(v, w, n)
    <3>1. o.op = "Else" => LabelRestarted(v, w, n)
      BY <1>1, ElseReads
    <3>2. o.op \in Transfers => LabelLeft(v, w, n)
      BY <1>1, TransferReads
    <3> QED
      BY <1>5, <3>1, <3>2 DEF LabelRestarted, LabelLeft
  <2>2. Len(w.labels) = n /\ Within(v, w, n - 1) /\ SameEnds(v.labels[n], w.labels[n])
    BY <2>1 DEF Relabels
  <2>3. CASE k = n
    <3>1. CASE o.op = "Else"
      <4>1. v.labels[n].kind = "If" /\ w.labels[n].kind = "Else"
        <5>1. LabelRestarted(v, w, n)
          BY <1>1, <3>1, ElseReads
        <5> QED
          BY <5>1, <1>1 DEF LabelRestarted
      <4> QED
        BY <2>2, <2>3, <3>1, <4>1 DEF Stays
    <3>2. CASE o.op \in Transfers
      <4>1. w.labels[n].kind = v.labels[n].kind
        <5>1. LabelLeft(v, w, n)
          BY <1>1, <3>2, TransferReads
        <5> QED
          BY <5>1, <1>1 DEF LabelLeft
      <4> QED
        BY <2>2, <2>3, <4>1 DEF Stays
    <3> QED
      BY <1>5, <3>1, <3>2
  <2>4. CASE k # n
    <3>1. n - 1 \in Nat /\ k <= n - 1
      BY <1>1, <2>4
    <3> QED
      BY <1>2, <2>2, <3>1
  <2> QED
    BY <2>3, <2>4
<1>6. CASE o.op \notin Openers \cup {"Else", "End"} \cup Transfers
  <2>1. w.labels = v.labels
    BY <1>6, EffectReads
  <2>2. Within(v, w, n)
    BY <2>1 DEF Within
  <2> QED
    BY <1>1, <1>2, <2>2
<1> QED
  BY <1>3, <1>4, <1>5, <1>6

LEMMA TraceLevels ==
  ASSUME NEW q, NEW v, Traced(q, v), NEW vs, vs = CheckedAt(q), NEW d, d = DepthAt(q)
  PROVE  \A i \in 0 .. Len(q) : Len(vs[i].labels) = d[i]
<1>1. PICK n \in Nat : n = Len(q)
  BY DEF Traced, IsSeq
<1> DEFINE S == {i \in 0 .. n : Len(vs[i].labels) = d[i]}
<1>2. 0 \in S
  <2>1. vs[0] = NewValidator /\ d[0] = 1
    BY <1>1, CheckedSteps, DepthSteps
  <2>2. Len(NewValidator.labels) = 1
    BY DEF NewValidator
  <2>3. Len(vs[0].labels) = d[0]
    BY ONLY <2>1, <2>2
  <2>4. 0 \in 0 .. n
    OBVIOUS
  <2> QED
    BY <2>3, <2>4
<1>3. ASSUME NEW k \in 0 .. n, k \in S, k < n
      PROVE  k + 1 \in S
  <2>1. PICK i : i = k + 1
    OBVIOUS
  <2>2. i \in 1 .. n /\ i - 1 = k /\ i \in 0 .. n
    BY <1>3, <2>1
  <2>3. Reading(vs[i - 1], q[i]) /\ vs[i] = Validated(vs[i - 1], q[i])
    BY <1>1, <2>2, TraceReads
  <2>4. Len(vs[i].labels) = Len(vs[k].labels) + Delta(q[i])
    BY <2>2, <2>3, ReadLevels
  <2>5. d[i] = d[k] + Delta(q[i])
    BY <1>1, <2>2, DepthSteps
  <2> QED
    BY <1>3, <2>1, <2>2, <2>4, <2>5
<1>4. 0 .. n \subseteq S
  <2> HIDE DEF S
  <2> QED
    BY <1>2, <1>3, CountingTo
<1> QED
  BY <1>1, <1>4

(* No else of that level comes between.                                     *)
NoElse(q, p, i, k) == \A j \in p + 1 .. i : ~ (q[j].op = "Else" /\ DepthAt(q)[j] = k)

LEMMA StaysChain ==
  ASSUME NEW u, NEW v, NEW w, NEW k \in Nat \ {0}, Stays(u, v, k), Stays(v, w, k)
  PROVE  Stays(u, w, k)
BY DEF Stays, Within, SameEnds

(* From where it opened to wherever it is open.                             *)
LEMMA TraceStays ==
  ASSUME NEW q, NEW v, Traced(q, v), NEW vs, vs = CheckedAt(q),
         NEW p, NEW i, NEW k, OpenAt(q, p, i, k)
  PROVE  /\ k \in Nat \ {0} /\ Len(vs[p].labels) = k /\ k <= Len(vs[i].labels)
         /\ Stays(vs[p], vs[i], k)
         /\ NoElse(q, p, i, k) => vs[i].labels[k].kind = vs[p].labels[k].kind
<1>1. PICK n \in Nat : n = Len(q)
  BY DEF Traced, IsSeq
<1>2. PICK d : d = DepthAt(q)
  OBVIOUS
<1>3. /\ i \in 0 .. n /\ p \in 0 .. i /\ k \in Int /\ d[p] = k /\ (p = 0 \/ Opens(q[p]))
      /\ \A j \in p .. i : d[j] >= k /\ d[j] \in Int
  BY <1>1, <1>2, OpenFacts
<1>4. \A j \in 0 .. n : Len(vs[j].labels) = d[j]
  BY ZenonT(30), <1>1, <1>2, TraceLevels
<1>5. k \in Nat \ {0}
  <2>1. CASE p = 0
    <3>1. d[0] = 1
      BY <1>1, <1>2, DepthSteps
    <3> QED
      BY <1>3, <2>1, <3>1
  <2>2. CASE p # 0
    <3>1. p \in 1 .. n
      BY <1>3, <2>2
    <3>2. Reading(vs[p - 1], q[p]) /\ vs[p] = Validated(vs[p - 1], q[p])
      BY <1>1, <3>1, TraceReads
    <3>3. LabelOpened(vs[p - 1], vs[p], q[p], Len(vs[p - 1].labels))
      BY <1>3, <2>2, <3>2, OpenerReads DEF Opens
    <3>4. Len(vs[p - 1].labels) \in Nat
      BY <3>2, ReadLevels
    <3>5. p \in 0 .. n
      BY <3>1
    <3> QED
      BY <1>3, <1>4, <3>3, <3>4, <3>5 DEF LabelOpened
  <2> QED
    BY <2>1, <2>2
<1> DEFINE Same(j) == /\ Stays(vs[p], vs[j], k)
                      /\ NoElse(q, p, j, k) => vs[j].labels[k].kind = vs[p].labels[k].kind
           S == {m \in 0 .. i - p : Same(p + m)}
<1>6. 0 \in S
  <2>1. Stays(vs[p], vs[p], k)
    BY DEF Stays, Within, SameEnds
  <2>2. p + 0 = p /\ 0 \in 0 .. i - p
    BY <1>3
  <2> QED
    BY <2>1, <2>2
<1>7. ASSUME NEW m \in 0 .. i - p, m \in S, m < i - p
      PROVE  m + 1 \in S
  <2>1. PICK h : h = p + m
    OBVIOUS
  <2>2. PICK j : j = h + 1
    OBVIOUS
  <2>3. /\ j \in 1 .. n /\ j - 1 = h /\ j = p + (m + 1) /\ h \in p .. i /\ j \in p .. i
        /\ j \in 0 .. n /\ h \in 0 .. n /\ m + 1 \in 0 .. i - p /\ j \in p + 1 .. j
        /\ \A x \in p + 1 .. h : x \in p + 1 .. j
    BY <1>3, <1>7, <2>1, <2>2
  <2>4. Reading(vs[h], q[j]) /\ vs[j] = Validated(vs[h], q[j])
    BY <1>1, <2>3, TraceReads
  <2>5. k <= Len(vs[h].labels) /\ k <= Len(vs[j].labels)
    BY <1>3, <1>4, <2>3
  <2>6. /\ Stays(vs[h], vs[j], k)
        /\ (q[j].op = "Else" /\ k = Len(vs[j].labels)) \/ vs[j].labels[k].kind = vs[h].labels[k].kind
    BY <1>5, <2>4, <2>5, ReadStays
  <2>7. Stays(vs[p], vs[h], k) /\ (NoElse(q, p, h, k) => vs[h].labels[k].kind = vs[p].labels[k].kind)
    BY <1>7, <2>1
  <2>8. Stays(vs[p], vs[j], k)
    BY <1>5, <2>6, <2>7, StaysChain
  <2>9. NoElse(q, p, j, k) => vs[j].labels[k].kind = vs[p].labels[k].kind
    <3>1. HAVE NoElse(q, p, j, k)
    <3>2. NoElse(q, p, h, k)
      BY <2>3, <3>1 DEF NoElse
    <3>3. ~ (q[j].op = "Else" /\ d[j] = k)
      BY <1>2, <2>3, <3>1 DEF NoElse
    <3>4. Len(vs[j].labels) = d[j]
      BY <1>4, <2>3
    <3> QED
      BY <2>6, <2>7, <3>2, <3>3, <3>4
  <2> QED
    BY <2>3, <2>8, <2>9
<1>8. 0 .. i - p \subseteq S
  <2>1. i - p \in Nat
    BY <1>3
  <2> HIDE DEF S
  <2> QED
    BY <1>6, <1>7, <2>1, CountingTo
<1>9. Same(i)
  <2>1. i - p \in 0 .. i - p /\ p + (i - p) = i
    BY <1>3
  <2> QED
    BY <1>8, <2>1
<1>10. p \in 0 .. n /\ i \in p .. i /\ i \in 0 .. n
  BY <1>3
<1> QED
  BY <1>3, <1>4, <1>5, <1>9, <1>10

-----------------------------------------------------------------------------
(* Code that can run.                                                       *)
CanRun(v) == \A k \in 1 .. Len(v.labels) : ~v.labels[k].unreachable

(* A run stands before operator i + 1 with h operands, having read i: the   *)
(* height is the validator's there, or behind an End, which a branch may    *)
(* reach from code that cannot fall into it.                                *)
Comes(q, i) == IF i < Len(q) /\ q[i + 1].op = "End" THEN i + 1 ELSE i

Position(q, i, h) ==
  /\ i \in 0 .. Len(q)
  /\ CanRun(CheckedAt(q)[Comes(q, i)])
  /\ h = CheckedAt(q)[Comes(q, i)].height

LEMMA LiveInnermost ==
  ASSUME NEW v, ReaderInv(v), v.labels # <<>>, CanRun(v)
  PROVE  ~Innermost(v).unreachable
<1>1. Len(v.labels) \in Nat \ {0} /\ Innermost(v) = v.labels[Len(v.labels)]
  BY InnermostIsLabel
<1> QED
  BY <1>1 DEF CanRun

(* What live code may pop is there, and is popped.                          *)
LEMMA LivePops ==
  ASSUME NEW v, ReaderInv(v), v.labels # <<>>, CanRun(v), NEW i \in Nat, NEW j \in Nat,
         CanPop(v, i), NEW w, w = Effect(v, i, j)
  PROVE  /\ CanRun(w) /\ w.height = v.height - i + j
         /\ v.height - i >= Innermost(v).height /\ v.height - i \in Nat
<1>1. ~Innermost(v).unreachable
  BY LiveInnermost
<1>2. w.labels = v.labels /\ w.height = v.height - i + j /\ Innermost(v).height <= v.height - i
  BY <1>1, EffectShape
<1>3. Innermost(v).height \in Nat /\ v.height \in Nat
  BY InnermostIsLabel
<1>4. CanRun(w)
  BY <1>2 DEF CanRun
<1> QED
  BY <1>2, <1>3, <1>4

(* A label of live code that closes leaves exactly its results.             *)
LEMMA LiveCloses ==
  ASSUME NEW v, ReaderInv(v), v.labels # <<>>, CanRun(v), NEW n \in Nat, CanPop(v, n),
         Effect(v, n, 0).height = Innermost(v).height
  PROVE  v.height = Innermost(v).height + n
<1>1. PICK e : e = Effect(v, n, 0)
  OBVIOUS
<1>2. e.height = v.height - n + 0
  BY <1>1, LivePops
<1>3. Innermost(v).height \in Nat /\ v.height \in Nat
  BY InnermostIsLabel
<1> QED
  BY <1>1, <1>2, <1>3

(* Reaching live code puts a run there.                                     *)
LEMMA Arrives ==
  ASSUME NEW q, NEW v, Traced(q, v), NEW vs, vs = CheckedAt(q), NEW i \in 0 .. Len(q),
         CanRun(vs[i])
  PROVE  Position(q, i, vs[i].height)
<1>1. CASE ~ (i < Len(q) /\ q[i + 1].op = "End")
  BY <1>1 DEF Position, Comes
<1>2. CASE i < Len(q) /\ q[i + 1].op = "End"
  <2>1. PICK j : j = i + 1
    OBVIOUS
  <2>2. j \in 1 .. Len(q) /\ j - 1 = i
    <3>1. Len(q) \in Nat
      BY DEF Traced, IsSeq
    <3> QED
      BY <1>2, <2>1, <3>1
  <2>3. Reading(vs[i], q[j]) /\ vs[j] = Validated(vs[i], q[j]) /\ q[j].op = "End"
    BY <1>2, <2>1, <2>2, TraceReads
  <2>4. PICK u : u = vs[i]
    OBVIOUS
  <2>5. PICK w : w = vs[j]
    OBVIOUS
  <2>6. ReaderInv(u) /\ u.labels # <<>> /\ IsOperator(q[j]) /\ Allowed(u, q[j])
    BY <2>3, <2>4 DEF Reading
  <2>7. PICK n \in Nat \ {0} : n = Len(u.labels) /\ Innermost(u) = u.labels[n]
    BY <2>6, InnermostIsLabel
  <2>8. Len(w.labels) = n - 1 /\ Within(u, w, n - 1)
        /\ w.height = Innermost(u).height + Innermost(u).results
    <3>1. LabelClosed(u, w, n)
      BY <2>3, <2>4, <2>5, <2>7, EndReads
    <3> QED
      BY <2>7, <3>1 DEF LabelClosed
  <2>9. CanRun(w)
    <3>1. \A k \in 1 .. n - 1 : k \in 1 .. n
      OBVIOUS
    <3> QED
      BY <2>4, <2>7, <2>8, <3>1 DEF CanRun, Within
  <2>10. u.height = w.height
    <3>1. /\ CanPop(u, Innermost(u).results)
          /\ Effect(u, Innermost(u).results, 0).height = Innermost(u).height
      BY <2>3, <2>6, AllowedCases
    <3>2. Innermost(u).results \in Nat
      BY <2>6, InnermostIsLabel
    <3>3. u.height = Innermost(u).height + Innermost(u).results
      BY <2>4, <2>6, <3>1, <3>2, LiveCloses
    <3> QED
      BY <2>8, <3>3
  <2>11. Comes(q, i) = j
    BY <1>2, <2>1 DEF Comes
  <2> QED
    BY <2>4, <2>5, <2>9, <2>10, <2>11 DEF Position
<1> QED
  BY <1>1, <1>2

(* While a label stays open, what is around it stays, and if it could run   *)
(* at one operator it can at another.                                       *)
Around(v, w, k) == Stays(v, w, k) /\ \A m \in 1 .. k - 1 : ~w.labels[m].unreachable

LEMMA LiveAround ==
  ASSUME NEW q, NEW v, Traced(q, v), NEW vs, vs = CheckedAt(q), NEW p, NEW i, NEW j, NEW k,
         OpenAt(q, p, i, k), OpenAt(q, p, j, k), CanRun(vs[i])
  PROVE  Around(vs[i], vs[j], k)
<1>1. k \in Nat \ {0} /\ k <= Len(vs[i].labels) /\ Stays(vs[p], vs[i], k)
  BY TraceStays
<1>2. Stays(vs[p], vs[j], k)
  BY TraceStays
<1>3. PICK u : u = vs[p]
  OBVIOUS
<1>4. PICK x : x = vs[i]
  OBVIOUS
<1>5. PICK y : y = vs[j]
  OBVIOUS
<1>6. Stays(x, y, k)
  <2>1. Stays(u, x, k) /\ Stays(u, y, k)
    BY <1>1, <1>2, <1>3, <1>4, <1>5
  <2> QED
    BY ONLY <2>1 DEF Stays, Within, SameEnds
<1>7. \A m \in 1 .. k - 1 : ~y.labels[m].unreachable
  <2>1. Len(x.labels) \in Nat
    <3>1. x \in Validator
      <4>1. i \in 0 .. Len(q)
        BY DEF OpenAt
      <4> QED
        BY <1>4, <4>1, TraceInv DEF ReaderInv
    <3> QED
      BY <3>1 DEF Validator
  <2>2. \A m \in 1 .. k - 1 : m \in 1 .. Len(x.labels)
    BY <1>1, <1>4, <2>1
  <2>3. \A m \in 1 .. k - 1 : y.labels[m] = x.labels[m]
    BY <1>6 DEF Stays, Within
  <2> QED
    BY <1>4, <2>2, <2>3 DEF CanRun
<1> QED
  BY <1>4, <1>5, <1>6, <1>7 DEF Around

(* Where a label closes, with what was open around it.                      *)
LEMMA ClosesLive ==
  ASSUME NEW q, NEW v, Traced(q, v), NEW vs, vs = CheckedAt(q), NEW p, NEW i, NEW e, NEW k,
         OpenAt(q, p, i, k), ClosedAt(q, p, e, k), CanRun(vs[i]),
         NEW l, l = vs[i].labels[k]
  PROVE  Position(q, e - 1, l.height + l.results)
<1>1. PICK n \in Nat : n = Len(q)
  BY DEF Traced, IsSeq
<1>2. e \in 1 .. n /\ OpenAt(q, p, e - 1, k) /\ DepthAt(q)[e] = k - 1
  BY <1>1 DEF ClosedAt
<1>3. Reading(vs[e - 1], q[e]) /\ vs[e] = Validated(vs[e - 1], q[e])
  BY <1>1, <1>2, TraceReads
<1>4. PICK u : u = vs[e - 1]
  OBVIOUS
<1>5. PICK w : w = vs[e]
  OBVIOUS
<1>6. Around(vs[i], u, k)
  BY <1>2, <1>4, LiveAround
<1>7. k \in Nat \ {0} /\ k <= Len(u.labels) /\ Len(u.labels) \in Nat
  <2>1. k \in Nat \ {0} /\ k <= Len(u.labels)
    BY <1>2, <1>4, TraceStays
  <2>2. Len(u.labels) \in Nat
    BY <1>3, <1>4, ReadLevels
  <2> QED
    BY <2>1, <2>2
<1>8. Len(w.labels) = Len(u.labels) + Delta(q[e])
  BY <1>3, <1>4, <1>5, ReadLevels
<1>9. Len(w.labels) = k - 1
  <2>1. e \in 0 .. Len(q)
    BY <1>1, <1>2
  <2>2. Len(vs[e].labels) = DepthAt(q)[e]
    BY ZenonT(30), <2>1, TraceLevels
  <2> QED
    BY <1>2, <1>5, <2>2
<1>10. q[e].op = "End" /\ Len(u.labels) = k
  <2>1. PICK m \in Nat : m = Len(u.labels) /\ k <= m
    BY <1>7
  <2>2. PICK c : c = Delta(q[e])
    OBVIOUS
  <2>3. c \in {0, 1, -1} /\ (c = -1 => q[e].op = "End")
    BY <2>2 DEF Delta
  <2>4. k - 1 = m + c
    BY <1>8, <1>9, <2>1, <2>2
  <2> QED
    BY <1>7, <2>1, <2>3, <2>4
<1>11. LabelClosed(u, w, k)
  BY <1>3, <1>4, <1>5, <1>10, EndReads
<1>12. /\ Len(w.labels) = k - 1 /\ \A m \in 1 .. k - 1 : w.labels[m] = u.labels[m]
       /\ w.height = u.labels[k].height + u.labels[k].results
  BY <1>11 DEF LabelClosed, Within
<1>13. CanRun(w)
  BY <1>6, <1>12 DEF CanRun, Around
<1>14. w.height = l.height + l.results
  BY <1>6, <1>12 DEF Around, Stays, SameEnds
<1>15. Comes(q, e - 1) = e /\ e - 1 \in 0 .. n
  <2>1. e - 1 < Len(q) /\ (e - 1) + 1 = e /\ e - 1 \in 0 .. n
    BY <1>1, <1>2
  <2> QED
    BY <1>10, <2>1 DEF Comes
<1> QED
  BY <1>1, <1>5, <1>13, <1>14, <1>15 DEF Position

(* Where a label opens.                                                     *)
LEMMA OpensLive ==
  ASSUME NEW q, NEW v, Traced(q, v), NEW vs, vs = CheckedAt(q), NEW p, NEW i, NEW k,
         OpenAt(q, p, i, k), p # 0, q[p].op = "Loop", CanRun(vs[i]),
         NEW l, l = vs[i].labels[k]
  PROVE  Position(q, p - 1, l.height + l.params)
<1>1. PICK n \in Nat : n = Len(q)
  BY DEF Traced, IsSeq
<1>2. p \in 1 .. n /\ OpenAt(q, p, p, k)
  <2>1. i \in 0 .. n /\ p \in 0 .. i /\ p \in p .. i
    BY <1>1 DEF OpenAt
  <2> QED
    BY <1>1, <2>1, OpenEarlier
<1>3. Reading(vs[p - 1], q[p]) /\ vs[p] = Validated(vs[p - 1], q[p])
  BY <1>1, <1>2, TraceReads
<1>4. PICK u : u = vs[p - 1]
  OBVIOUS
<1>5. PICK w : w = vs[p]
  OBVIOUS
<1>6. Around(vs[i], w, k) /\ k \in Nat \ {0} /\ Len(w.labels) = k
  BY <1>2, <1>5, LiveAround, TraceStays
<1>7. PICK m \in Nat \ {0} : m = Len(u.labels)
  BY <1>3, <1>4, ReadLevels
<1>8. LabelOpened(u, w, q[p], m)
  BY <1>3, <1>4, <1>5, <1>7, OpenerReads DEF Openers
<1>9. /\ k = m + 1 /\ \A j \in 1 .. m : w.labels[j] = u.labels[j]
      /\ w.labels[k].params = q[p].ty[1]
  BY <1>6, <1>7, <1>8 DEF LabelOpened, Within
<1>10. CanRun(u)
  BY <1>6, <1>7, <1>9 DEF CanRun, Around
<1>11. PICK t \in Nat : t = q[p].ty[1] /\ CanPop(u, t)
  BY <1>3, <1>4, OperatorCases, AllowedCases DEF Reading
<1>12. w.labels[k].height = u.height - t
  <2>1. PICK f : f = Effect(u, t, 0)
    OBVIOUS
  <2>2. f.height = u.height - t + 0 /\ u.height \in Nat
    <3>1. ReaderInv(u) /\ u.labels # <<>>
      BY <1>3, <1>4 DEF Reading
    <3>2. u.height \in Nat
      BY <3>1, InnermostIsLabel
    <3>3. f.height = u.height - t + 0
      BY <1>10, <1>11, <2>1, <3>1, LivePops
    <3> QED
      BY <3>2, <3>3
  <2>3. w.labels[k].height = Effect(u, t + 0, 0).height
    BY <1>8, <1>9, <1>11 DEF LabelOpened
  <2> QED
    BY <1>11, <2>1, <2>2, <2>3
<1>13. u.height = l.height + l.params
  <2>1. l.height = w.labels[k].height /\ l.params = w.labels[k].params
    BY <1>6 DEF Around, Stays, SameEnds
  <2>2. u.height \in Nat
    BY <1>3, <1>4, InnermostIsLabel DEF Reading
  <2> QED
    BY <1>9, <1>11, <1>12, <2>1, <2>2
<1>14. Position(q, p - 1, u.height)
  <2>1. p - 1 \in 0 .. Len(q)
    BY <1>1, <1>2
  <2> QED
    BY <1>4, <1>10, <2>1, Arrives
<1> QED
  BY <1>13, <1>14

(* The function's own label is open until the last operator.                *)
LEMMA FunctionStays ==
  ASSUME NEW q, NEW v, Traced(q, v), NEW vs, vs = CheckedAt(q), NEW i \in 0 .. Len(q), i < Len(q)
  PROVE  OpenAt(q, 0, i, 1)
<1>1. PICK n \in Nat : n = Len(q)
  BY DEF Traced, IsSeq
<1>2. PICK d : d = DepthAt(q)
  OBVIOUS
<1>3. d[0] = 1 /\ \A j \in 0 .. n : d[j] \in Int
  BY <1>1, <1>2, DepthSteps
<1>4. ASSUME NEW j \in 0 .. i
      PROVE  d[j] >= 1
  <2>1. j + 1 \in 1 .. n /\ (j + 1) - 1 = j /\ j \in 0 .. n
    BY <1>1
  <2>2. Reading(vs[j], q[j + 1])
    BY <1>1, <2>1, TraceReads
  <2>3. Len(vs[j].labels) \in Nat \ {0}
    BY <2>2, ReadLevels
  <2>4. \A m \in 0 .. Len(q) : Len(vs[m].labels) = d[m]
    BY ZenonT(30), <1>2, TraceLevels
  <2>5. Len(vs[j].labels) = d[j]
    BY <1>1, <2>1, <2>4
  <2> QED
    BY <2>3, <2>5
<1>5. 0 \in 0 .. i /\ i \in 0 .. n
  BY <1>1
<1> QED
  BY <1>1, <1>2, <1>3, <1>4, <1>5 DEF OpenAt

LEMMA FunctionLabel ==
  ASSUME NEW q, NEW v, Traced(q, v), NEW vs, vs = CheckedAt(q), NEW i \in 0 .. Len(q), i < Len(q),
         NEW l, l = vs[i].labels[1]
  PROVE  l.height = 0 /\ l.results = ResultsCount /\ l.kind # "Loop"
<1>1. OpenAt(q, 0, i, 1)
  BY FunctionStays
<1>2. Stays(vs[0], vs[i], 1)
  BY <1>1, TraceStays
<1>3. vs[0] = NewValidator
  BY CheckedSteps DEF Traced, IsSeq
<1>4. PICK f : f = vs[0].labels[1]
  OBVIOUS
<1>5. f.height = 0 /\ f.results = ResultsCount /\ f.kind # "Loop"
  BY <1>3, <1>4 DEF NewValidator, Label
<1> QED
  BY <1>2, <1>4, <1>5 DEF Stays, SameEnds

(* The last operator leaves the results of the function.                    *)
LEMMA EndsWithResults ==
  ASSUME NEW q, NEW v, Traced(q, v), v.labels = <<>>, NEW h, Position(q, Len(q), h)
  PROVE  h = ResultsCount
<1>1. PICK n \in Nat : n = Len(q)
  BY DEF Traced, IsSeq
<1>2. PICK vs : vs = CheckedAt(q)
  OBVIOUS
<1>3. vs[n] = v
  BY <1>1, <1>2 DEF Traced
<1>4. h = v.height
  <2>1. Comes(q, n) = n
    BY <1>1 DEF Comes
  <2> QED
    BY <1>1, <1>2, <1>3, <2>1 DEF Position
<1>5. n # 0
  <2>1. SUFFICES ASSUME n = 0 PROVE FALSE
    OBVIOUS
  <2>2. v = NewValidator
    BY <1>1, <1>2, <1>3, <2>1, CheckedSteps
  <2>3. Len(v.labels) = 1
    BY <2>2 DEF NewValidator
  <2>4. Len(v.labels) = 0
    OBVIOUS
  <2> QED
    BY <2>3, <2>4
<1>6. n \in 1 .. n /\ n - 1 \in 0 .. n /\ n - 1 < n
  BY <1>5
<1>7. PICK u : u = vs[n - 1]
  OBVIOUS
<1>8. Reading(u, q[n]) /\ v = Validated(u, q[n])
  BY <1>1, <1>2, <1>3, <1>6, <1>7, TraceReads
<1>9. PICK m \in Nat \ {0} : m = Len(u.labels)
  BY <1>8, ReadLevels
<1>10. q[n].op = "End" /\ m = 1
  <2>1. Len(v.labels) = 0
    OBVIOUS
  <2>2. PICK c : c = Delta(q[n])
    OBVIOUS
  <2>3. 0 = m + c
    BY <1>8, <1>9, <2>1, <2>2, ReadLevels
  <2>4. c \in {0, 1, -1} /\ (c = -1 => q[n].op = "End")
    BY <2>2 DEF Delta
  <2> QED
    BY <2>3, <2>4
<1>11. LabelClosed(u, v, 1)
  BY <1>8, <1>9, <1>10, EndReads
<1>12. PICK l : l = u.labels[1]
  OBVIOUS
<1>13. l.height = 0 /\ l.results = ResultsCount
  BY <1>1, <1>2, <1>6, <1>7, <1>12, FunctionLabel
<1>14. v.height = l.height + l.results
  BY <1>11, <1>12 DEF LabelClosed
<1> QED
  BY <1>4, <1>13, <1>14, ResultsAssumption

(* What a branch carries is above the height of its label.                  *)
Fitting(u, l, c) == l \in ValidatorLabel /\ l.height + BranchArity(l) <= u.height - c

LEMMA LabelBelow ==
  ASSUME NEW u, ReaderInv(u), u.labels # <<>>, NEW k \in 1 .. Len(u.labels), NEW l, l = u.labels[k]
  PROVE  l \in ValidatorLabel /\ l.height <= Innermost(u).height
<1>1. PICK n \in Nat \ {0} : n = Len(u.labels) /\ Innermost(u) = u.labels[n]
  BY InnermostIsLabel
<1>2. u.labels \in Seq(ValidatorLabel)
  BY DEF ReaderInv, Validator
<1>3. n \in 1 .. n /\ k <= n
  BY <1>1
<1> QED
  BY <1>1, <1>2, <1>3 DEF ReaderInv, Nested

LEMMA AboveLabel ==
  ASSUME NEW u, ReaderInv(u), u.labels # <<>>, CanRun(u), NEW k \in 1 .. Len(u.labels),
         NEW l, l = u.labels[k], NEW c \in Nat, NEW n \in Nat, n = BranchArity(l),
         NEW m \in Nat, m = n + c, CanPop(u, m)
  PROVE  Fitting(u, l, c)
<1>1. l \in ValidatorLabel /\ l.height <= Innermost(u).height
  BY LabelBelow
<1>2. u.height - m >= Innermost(u).height
  BY LivePops
<1>3. Innermost(u).height \in Nat /\ u.height \in Nat
  BY InnermostIsLabel
<1>4. l.height \in Nat
  BY <1>1, LabelFields
<1>5. l.height + n <= u.height - c
  <2>1. PICK x \in Nat : x = l.height
    BY <1>4
  <2>2. PICK y \in Nat : y = Innermost(u).height
    BY <1>3
  <2>3. PICK z \in Nat : z = u.height
    BY <1>3
  <2>4. x <= y /\ z - m >= y
    BY <1>1, <1>2, <2>1, <2>2, <2>3
  <2>5. x + n <= z - c
    BY SMTT(30), <2>4
  <2> QED
    BY <2>1, <2>3, <2>5
<1> QED
  BY <1>1, <1>5 DEF Fitting

LEMMA BranchFits ==
  ASSUME NEW u, NEW o, Reading(u, o), CanRun(u), o.op \in {"Br", "BrIf", "BrTable"},
         NEW dep \in Depths(o), dep \in Nat,
         NEW k, k = Len(u.labels) - dep, NEW l, l = u.labels[k]
  PROVE  k \in 1 .. Len(u.labels) /\ Fitting(u, l, IF o.op = "Br" THEN 0 ELSE 1)
<1>1. ReaderInv(u) /\ u.labels # <<>> /\ IsOperator(o) /\ Allowed(u, o)
  BY DEF Reading
<1>2. PICK n \in {0, 1, 2} : /\ dep < Len(u.labels) /\ BranchArity(Target(u, dep)) = n
                              /\ CanPop(u, n + IF o.op = "Br" THEN 0 ELSE 1)
  BY <1>1, AllowedCases
<1>3. PICK c \in {0, 1} : c = IF o.op = "Br" THEN 0 ELSE 1
  OBVIOUS
<1>4. PICK m \in Nat : m = n + c /\ CanPop(u, m)
  BY <1>2, <1>3
<1>5. Len(u.labels) \in Nat \ {0}
  BY <1>1, InnermostIsLabel
<1>6. k \in 1 .. Len(u.labels)
  BY <1>2, <1>5
<1>7. Target(u, dep) = l
  BY DEF Target
<1>8. n \in Nat /\ c \in Nat
  OBVIOUS
<1>9. Fitting(u, l, c)
  BY <1>1, <1>2, <1>4, <1>6, <1>7, <1>8, AboveLabel
<1> QED
  BY <1>3, <1>6, <1>9

LEMMA ReturnFits ==
  ASSUME NEW q, NEW v, Traced(q, v), NEW vs, vs = CheckedAt(q), NEW i \in 1 .. Len(q),
         q[i].op = "Return", NEW u, u = vs[i - 1], CanRun(u), NEW l, l = u.labels[1]
  PROVE  1 \in 1 .. Len(u.labels) /\ Fitting(u, l, 0)
<1>1. PICK n \in Nat : n = Len(q)
  BY DEF Traced, IsSeq
<1>2. Reading(u, q[i])
  BY TraceReads
<1>3. ReaderInv(u) /\ u.labels # <<>> /\ IsOperator(q[i]) /\ Allowed(u, q[i])
  BY <1>2 DEF Reading
<1>4. 1 \in 1 .. Len(u.labels)
  BY <1>3, InnermostIsLabel
<1>5. l.results = ResultsCount /\ l.kind # "Loop"
  <2>1. i - 1 \in 0 .. Len(q) /\ i - 1 < Len(q)
    BY <1>1
  <2> QED
    BY <2>1, FunctionLabel
<1>6. BranchArity(l) = ResultsCount /\ CanPop(u, ResultsCount)
  BY <1>3, <1>5, AllowedCases DEF BranchArity
<1>7. PICK z \in Nat : z = 0
  OBVIOUS
<1>8. PICK n1 \in Nat : n1 = ResultsCount
  BY ResultsAssumption
<1>9. n1 = n1 + z
  BY <1>7
<1>10. Fitting(u, l, z)
  BY <1>3, <1>4, <1>6, <1>8, <1>9, AboveLabel
<1> QED
  BY <1>4, <1>7, <1>10

-----------------------------------------------------------------------------
(* Where a run of live code goes, by operator.                              *)

LEMMA StandsAt ==
  ASSUME NEW q, NEW i, NEW h, Position(q, i, h), i < Len(q), NEW vs, vs = CheckedAt(q)
  PROVE  /\ q[i + 1].op # "End" => CanRun(vs[i]) /\ h = vs[i].height
         /\ q[i + 1].op = "End" => CanRun(vs[i + 1]) /\ h = vs[i + 1].height
BY DEF Position, Comes

(* Operator i, met by live code, moves the height by so much.               *)
Runs(q, i, popped, pushed) ==
  LET u == CheckedAt(q)[i - 1] IN
  /\ u.height - popped \in Nat
  /\ Position(q, i, u.height - popped + pushed)

LEMMA RunsEffect ==
  ASSUME NEW q, NEW v, Traced(q, v), NEW vs, vs = CheckedAt(q), NEW i \in 1 .. Len(q),
         CanRun(vs[i - 1]), NEW j \in Nat, NEW m \in Nat,
         CanPop(vs[i - 1], j), vs[i] = Effect(vs[i - 1], j, m)
  PROVE  Runs(q, i, j, m)
<1>1. PICK u : u = vs[i - 1]
  OBVIOUS
<1>2. PICK w : w = vs[i]
  OBVIOUS
<1>3. ReaderInv(u) /\ u.labels # <<>>
  BY <1>1, TraceReads DEF Reading
<1>4. CanRun(w) /\ w.height = u.height - j + m /\ u.height - j \in Nat
  BY <1>1, <1>2, <1>3, LivePops
<1>5. i \in 0 .. Len(q)
  BY DEF Traced, IsSeq
<1>6. Position(q, i, w.height)
  BY <1>2, <1>4, <1>5, Arrives
<1> QED
  BY <1>1, <1>4, <1>6 DEF Runs

LEMMA RunsOn ==
  ASSUME NEW q, NEW v, Traced(q, v), NEW vs, vs = CheckedAt(q), NEW i \in 1 .. Len(q),
         CanRun(vs[i - 1]), NEW o, o = q[i]
  PROVE  /\ Plain(o) => Runs(q, i, Arity[o.op][1], Arity[o.op][2])
         /\ IsCall(o) => Runs(q, i, CallPops(o), o.ty[2])
         /\ o.op = "BrIf" => Runs(q, i, 1, 0)
<1>1. PICK u : u = vs[i - 1]
  OBVIOUS
<1>2. PICK w : w = vs[i]
  OBVIOUS
<1>3. IsOperator(o) /\ Allowed(u, o) /\ w = Validated(u, o) /\ ReaderInv(u) /\ u.labels # <<>>
  BY <1>1, <1>2, TraceReads DEF Reading
<1>4. CASE Plain(o)
  <2>1. PICK j : j = Arity[o.op][1]
    OBVIOUS
  <2>2. PICK m : m = Arity[o.op][2]
    OBVIOUS
  <2>3. j \in Nat /\ m \in Nat
    BY <1>4, <2>1, <2>2, ArityShape DEF Plain
  <2>4. CanPop(u, j)
    BY <1>3, <1>4, <2>1, AllowedCases
  <2>5. w = Effect(u, j, m)
    BY <1>3, <1>4, <2>1, <2>2, ValidatedCases
  <2>6. Runs(q, i, j, m)
    BY <1>1, <1>2, <2>3, <2>4, <2>5, RunsEffect
  <2>7. ~IsCall(o) /\ o.op # "BrIf"
    BY <1>3, <1>4, OperatorCases DEF IsCall
  <2> QED
    BY <2>1, <2>2, <2>6, <2>7
<1>5. CASE IsCall(o)
  <2>1. PICK j : j = CallPops(o)
    OBVIOUS
  <2>2. PICK m : m = o.ty[2]
    OBVIOUS
  <2>3. j \in Nat /\ m \in Nat
    BY <1>3, <1>5, <2>1, <2>2, OperatorCases
  <2>4. CanPop(u, j)
    BY <1>3, <1>5, <2>1, AllowedCases
  <2>5. w = Effect(u, j, m)
    BY <1>3, <1>5, <2>1, <2>2, ValidatedCases
  <2>6. Runs(q, i, j, m)
    BY <1>1, <1>2, <2>3, <2>4, <2>5, RunsEffect
  <2>7. ~Plain(o) /\ o.op # "BrIf"
    BY <1>3, <1>5, OperatorCases DEF IsCall
  <2> QED
    BY <2>1, <2>2, <2>6, <2>7
<1>6. CASE o.op = "BrIf"
  <2>1. PICK j \in Nat : j = 1
    OBVIOUS
  <2>2. PICK m \in Nat : m = 0
    OBVIOUS
  <2>3. w = Effect(u, j, m)
    BY <1>3, <1>6, <2>1, <2>2, ValidatedCases
  <2>4. \E n \in {0, 1, 2} : CanPop(u, n + 1)
    <3>1. \E dep : dep \in Depths(o)
      BY <1>6 DEF Depths
    <3>2. \E n \in {0, 1, 2} : \A d \in Depths(o) : CanPop(u, n + IF o.op = "Br" THEN 0 ELSE 1)
      BY <1>3, <1>6, AllowedCases
    <3> QED
      BY <1>6, <3>1, <3>2
  <2>5. CanPop(u, j)
    <3>1. u.height \in Nat /\ Innermost(u).height \in Nat
      BY <1>3, InnermostIsLabel
    <3>2. PICK n \in {0, 1, 2} : CanPop(u, n + 1)
      BY <2>4
    <3> QED
      BY SMTT(30), <2>1, <3>1, <3>2 DEF CanPop
  <2>6. Runs(q, i, j, m)
    BY <1>1, <1>2, <2>3, <2>5, RunsEffect
  <2>7. ~Plain(o) /\ ~IsCall(o)
    BY <1>3, <1>6, OperatorCases DEF IsCall
  <2> QED
    BY <1>6, <2>1, <2>2, <2>6, <2>7
<1> QED
  BY <1>4, <1>5, <1>6

LEMMA RunsIn ==
  ASSUME NEW q, NEW v, Traced(q, v), NEW vs, vs = CheckedAt(q), NEW i \in 1 .. Len(q),
         CanRun(vs[i - 1]), q[i].op \in Openers
  PROVE  CanRun(vs[i]) /\ Runs(q, i, IF q[i].op = "If" THEN 1 ELSE 0, 0)
<1>1. PICK u : u = vs[i - 1]
  OBVIOUS
<1>2. PICK w : w = vs[i]
  OBVIOUS
<1>3. PICK o : o = q[i]
  OBVIOUS
<1>4. /\ Reading(u, o) /\ IsOperator(o) /\ Allowed(u, o) /\ w = Validated(u, o)
      /\ ReaderInv(u) /\ u.labels # <<>>
  BY <1>1, <1>2, <1>3, TraceReads DEF Reading
<1>5. PICK n \in Nat \ {0} : n = Len(u.labels)
  BY <1>4, InnermostIsLabel
<1>6. LabelOpened(u, w, o, n)
  BY <1>3, <1>4, <1>5, OpenerReads
<1>7. PICK c \in Nat : c = IF o.op = "If" THEN 1 ELSE 0
  OBVIOUS
<1>8. PICK t \in Nat : t = o.ty[1]
  BY <1>4, OperatorCases
<1>9. CanPop(u, t + c)
  <2>1. o.op = "If" => CanPop(u, o.ty[1] + 1)
    BY <1>4, AllowedCases
  <2>2. o.op # "If" => CanPop(u, o.ty[1])
    BY <1>3, <1>4, AllowedCases DEF Openers
  <2>3. o.op # "If" => t + c = t
    BY <1>7
  <2>4. o.op = "If" => t + c = t + 1
    BY <1>7
  <2> QED
    BY <1>8, <2>1, <2>2, <2>3, <2>4
<1>10. PICK f : f = Effect(u, t + c, 0)
  OBVIOUS
<1>11. PICK h \in Nat : h = u.height
  BY <1>4, InnermostIsLabel
<1>12. f.height = h - (t + c) + 0 /\ h - (t + c) \in Nat
  <2>1. PICK j \in Nat : j = t + c
    OBVIOUS
  <2>2. PICK z \in Nat : z = 0
    OBVIOUS
  <2>3. f = Effect(u, j, z) /\ CanPop(u, j) /\ CanRun(u)
    BY <1>1, <1>9, <1>10, <2>1, <2>2
  <2>4. ReaderInv(u) /\ u.labels # <<>> /\ CanRun(u) /\ CanPop(u, j) /\ f = Effect(u, j, z)
    BY <1>4, <2>3
  <2>5. f.height = u.height - j + z /\ u.height - j \in Nat
    BY ONLY SMTT(30), <2>4, j \in Nat, z \in Nat, LivePops
  <2> QED
    BY <1>11, <2>1, <2>2, <2>5
<1>13. w.height = w.labels[n + 1].height + t /\ w.labels[n + 1].height = f.height
  BY <1>6, <1>7, <1>8, <1>10 DEF LabelOpened
<1>14. w.height = h - c + 0 /\ h - c \in Nat
  BY <1>12, <1>13
<1>15. CanRun(w)
  <2>1. Len(w.labels) = n + 1 /\ w.labels[n + 1].unreachable = FALSE
        /\ \A k \in 1 .. n : w.labels[k] = u.labels[k]
    BY <1>6 DEF LabelOpened, Within
  <2>2. \A k \in 1 .. n + 1 : k = n + 1 \/ k \in 1 .. n
    OBVIOUS
  <2> QED
    BY <1>1, <1>5, <2>1, <2>2 DEF CanRun
<1>16. i \in 0 .. Len(q)
  BY DEF Traced, IsSeq
<1>17. Position(q, i, w.height)
  BY <1>2, <1>15, <1>16, Arrives
<1> QED
  BY <1>1, <1>2, <1>3, <1>7, <1>11, <1>14, <1>15, <1>17 DEF Runs

(* A false if goes behind its else.                                         *)
LEMMA RunsToElse ==
  ASSUME NEW q, NEW v, Traced(q, v), NEW vs, vs = CheckedAt(q), NEW i \in 1 .. Len(q),
         CanRun(vs[i]), Opens(q[i]), NEW k, NEW e, ClosedAt(q, i, e, k),
         NEW x, x # -1, ElseIs(q, i, e, k, x)
  PROVE  Position(q, x + 1, vs[i].height)
<1>1. PICK n \in Nat : n = Len(q)
  BY DEF Traced, IsSeq
<1>2. PICK y : y = x + 1
  OBVIOUS
<1>3. e \in 1 .. n /\ OpenAt(q, i, e - 1, k)
  BY <1>1 DEF ClosedAt
<1>4. x \in i .. e - 1 /\ y \in i + 1 .. e /\ y - 1 = x
  BY <1>2, <1>3 DEF ElseIs
<1>5. q[y].op = "Else" /\ DepthAt(q)[y] = k
  BY <1>2, <1>4 DEF ElseIs
<1>6. Len(q) \in Nat /\ i \in i .. e - 1 /\ x \in i .. e - 1 /\ y \in 1 .. n /\ y \in 0 .. n
  BY <1>1, <1>3, <1>4
<1>7. OpenAt(q, i, i, k) /\ OpenAt(q, i, x, k)
  BY <1>3, <1>6, OpenEarlier
<1>8. PICK u : u = vs[x]
  OBVIOUS
<1>9. PICK w : w = vs[y]
  OBVIOUS
<1>10. PICK z : z = vs[i]
  OBVIOUS
<1>11. Reading(u, q[y]) /\ w = Validated(u, q[y])
  BY <1>1, <1>4, <1>6, <1>8, <1>9, TraceReads
<1>12. Around(z, u, k) /\ k \in Nat \ {0} /\ Len(z.labels) = k
  BY <1>7, <1>8, <1>10, LiveAround, TraceStays
<1>13. Len(w.labels) = k /\ Len(u.labels) = k
  <2>1. Len(w.labels) = k
    <3>1. y \in 0 .. Len(q)
      BY <1>1, <1>6
    <3>2. Len(vs[y].labels) = DepthAt(q)[y]
      BY <3>1, TraceLevels
    <3> QED
      BY <1>5, <1>9, <3>2
  <2>2. Delta(q[y]) = 0
    BY <1>5 DEF Delta, Opens, Openers
  <2>3. Len(w.labels) = Len(u.labels) + Delta(q[y]) /\ Len(u.labels) \in Nat
    BY <1>11, ReadLevels
  <2> QED
    BY <2>1, <2>2, <2>3
<1>14. LabelRestarted(u, w, k)
  BY <1>5, <1>11, <1>13, ElseReads
<1>15. /\ \A j \in 1 .. k - 1 : w.labels[j] = u.labels[j]
       /\ w.labels[k].unreachable = FALSE
       /\ w.height = u.labels[k].height + u.labels[k].params
  BY <1>14 DEF LabelRestarted, Relabels, Within
<1>16. CanRun(w)
  <2>1. \A j \in 1 .. k : j = k \/ j \in 1 .. k - 1
    BY <1>12
  <2> QED
    BY <1>12, <1>13, <1>15, <2>1 DEF CanRun, Around
<1>17. w.height = z.height
  <2>1. w.height = z.labels[k].height + z.labels[k].params
    BY <1>12, <1>15 DEF Around, Stays, SameEnds
  <2>2. Reading(vs[i - 1], q[i]) /\ z = Validated(vs[i - 1], q[i])
    BY <1>10, TraceReads
  <2>3. PICK m : m = Len(vs[i - 1].labels)
    OBVIOUS
  <2>4. LabelOpened(vs[i - 1], z, q[i], m)
    BY <2>2, <2>3, OpenerReads DEF Opens
  <2>5. m + 1 = k
    BY <1>12, <2>4 DEF LabelOpened
  <2>6. z.height = z.labels[k].height + z.labels[k].params
    BY <2>4, <2>5 DEF LabelOpened
  <2> QED
    BY <2>1, <2>6
<1>18. Position(q, y, w.height)
  BY <1>1, <1>6, <1>9, <1>16, Arrives
<1> QED
  BY <1>2, <1>10, <1>17, <1>18

(* Without one it goes to its end, where its params are its results.        *)
LEMMA RunsToEnd ==
  ASSUME NEW q, NEW v, Traced(q, v), NEW vs, vs = CheckedAt(q), NEW i \in 1 .. Len(q),
         CanRun(vs[i]), q[i].op = "If", NEW k, NEW e, ClosedAt(q, i, e, k),
         ElseIs(q, i, e, k, -1)
  PROVE  Position(q, e - 1, vs[i].height)
<1>1. PICK n \in Nat : n = Len(q)
  BY DEF Traced, IsSeq
<1>2. e \in 1 .. n /\ OpenAt(q, i, e - 1, k) /\ DepthAt(q)[e] = k - 1 /\ i <= e - 1
  BY <1>1 DEF ClosedAt, OpenAt
<1>3. OpenAt(q, i, i, k)
  <2>1. i \in i .. e - 1
    BY <1>2
  <2> QED
    BY <1>1, <1>2, <2>1, OpenEarlier
<1>4. PICK z : z = vs[i]
  OBVIOUS
<1>5. PICK u : u = vs[e - 1]
  OBVIOUS
<1>6. k \in Nat \ {0} /\ Len(z.labels) = k /\ k <= Len(u.labels)
  BY <1>2, <1>3, <1>4, <1>5, TraceStays
<1>7. NoElse(q, i, e - 1, k)
  <2>1. ASSUME NEW j \in i + 1 .. e - 1
        PROVE  ~ (q[j].op = "Else" /\ DepthAt(q)[j] = k)
    <3>1. j \in i + 1 .. e /\ j # -1 + 1
      BY <1>2
    <3> QED
      BY <3>1 DEF ElseIs
  <2> QED
    BY <2>1 DEF NoElse
<1>8. u.labels[k].kind = z.labels[k].kind /\ SameEnds(z.labels[k], u.labels[k])
  <2>1. Stays(vs[i], vs[e - 1], k) /\ vs[e - 1].labels[k].kind = vs[i].labels[k].kind
    BY SMTT(30), <1>2, <1>7, TraceStays
  <2> QED
    BY <1>4, <1>5, <2>1 DEF Stays
<1>9. /\ z.labels[k].kind = "If" /\ z.height = z.labels[k].height + z.labels[k].params
  <2>1. Reading(vs[i - 1], q[i]) /\ z = Validated(vs[i - 1], q[i])
    BY <1>4, TraceReads
  <2>2. PICK m : m = Len(vs[i - 1].labels)
    OBVIOUS
  <2>3. LabelOpened(vs[i - 1], z, q[i], m)
    BY <2>1, <2>2, OpenerReads DEF Openers
  <2>4. m + 1 = k
    BY <1>6, <2>3 DEF LabelOpened
  <2> QED
    BY <2>3, <2>4 DEF LabelOpened
<1>10. Reading(u, q[e])
  BY <1>1, <1>2, <1>5, TraceReads
<1>11. Len(u.labels) = k /\ q[e].op = "End"
  <2>1. PICK m \in Nat : m = Len(u.labels)
    BY <1>10, ReadLevels
  <2>2. PICK c : c = Delta(q[e])
    OBVIOUS
  <2>3. c \in {0, 1, -1} /\ (c = -1 => q[e].op = "End")
    BY <2>2 DEF Delta
  <2>4. e \in 0 .. n
    BY <1>2
  <2>5. Len(vs[e].labels) = k - 1
    BY ZenonT(30), <1>1, <1>2, <2>4, TraceLevels
  <2>6. Len(vs[e].labels) = m + c
    BY SMTT(30), <1>1, <1>2, <1>5, <2>1, <2>2, TraceReads, ReadLevels
  <2> QED
    BY SMTT(30), <1>6, <2>1, <2>3, <2>5, <2>6
<1>12. u.labels[k].params = u.labels[k].results
  <2>1. Innermost(u) = u.labels[k]
    BY <1>11 DEF Innermost
  <2>2. Innermost(u).kind = "If" => Innermost(u).params = Innermost(u).results
    BY <1>10, <1>11, AllowedCases DEF Reading
  <2> QED
    BY <1>8, <1>9, <2>1, <2>2
<1>13. z.height = z.labels[k].height + z.labels[k].results
  BY <1>8, <1>9, <1>12 DEF SameEnds
<1>14. Position(q, e - 1, z.labels[k].height + z.labels[k].results)
  BY <1>3, <1>4, ClosesLive
<1> QED
  BY <1>4, <1>13, <1>14

(* The first arm of an if goes behind the second.                           *)
LEMMA RunsPastElse ==
  ASSUME NEW q, NEW v, Traced(q, v), NEW vs, vs = CheckedAt(q), NEW i \in 1 .. Len(q),
         CanRun(vs[i - 1]), q[i].op = "Else", NEW k, k = DepthAt(q)[i],
         NEW p, OpenAt(q, p, i - 1, k), NEW e, ClosedAt(q, p, e, k)
  PROVE  Position(q, e - 1, vs[i - 1].height)
<1>1. PICK n \in Nat : n = Len(q)
  BY DEF Traced, IsSeq
<1>2. PICK u : u = vs[i - 1]
  OBVIOUS
<1>3. Reading(u, q[i]) /\ vs[i] = Validated(u, q[i])
  BY <1>2, TraceReads
<1>4. Len(u.labels) = k
  <2>1. i \in 0 .. n
    BY <1>1
  <2>2. \A j \in 0 .. Len(q) : Len(vs[j].labels) = DepthAt(q)[j]
    BY ZenonT(30), TraceLevels
  <2>3. Len(vs[i].labels) = k
    BY <1>1, <2>1, <2>2
  <2>4. Delta(q[i]) = 0
    BY DEF Delta, Opens, Openers
  <2>5. Len(vs[i].labels) = Len(u.labels) + Delta(q[i]) /\ Len(u.labels) \in Nat
    BY <1>3, ReadLevels
  <2> QED
    BY <2>3, <2>4, <2>5
<1>5. PICK l : l = u.labels[k]
  OBVIOUS
<1>6. Innermost(u) = l
  BY <1>4, <1>5 DEF Innermost
<1>7. u.height = l.height + l.results
  <2>1. CanPop(u, l.results) /\ Effect(u, l.results, 0).height = Innermost(u).height
    BY <1>3, <1>6, AllowedCases DEF Reading
  <2>2. ReaderInv(u) /\ u.labels # <<>>
    BY <1>3 DEF Reading
  <2>3. l.results \in Nat
    BY <1>6, <2>2, InnermostIsLabel
  <2> QED
    BY <1>2, <1>6, <2>1, <2>2, <2>3, LiveCloses
<1>8. Position(q, e - 1, l.height + l.results)
  BY <1>2, <1>5, ClosesLive
<1> QED
  BY <1>2, <1>7, <1>8

-----------------------------------------------------------------------------
(* A whole body: every label has closed.                                    *)

IsLoop(q, p) == p # 0 /\ q[p].op = "Loop"

LEMMA LoopExtends ==
  ASSUME NEW q, IsSeq(q), NEW o, NEW r, r = Append(q, o), NEW p \in 0 .. Len(q)
  PROVE  IsLoop(r, p) = IsLoop(q, p)
<1>1. p # 0 => p \in 1 .. Len(q)
  BY DEF IsSeq
<1>2. p # 0 => r[p] = q[p]
  BY <1>1, AppendReads
<1> QED
  BY <1>2 DEF IsLoop

Whole ==
  /\ IsSeq(ops) /\ Len(ops) \in Nat \ {0} /\ DepthAt(ops)[Len(ops)] = 0
  /\ \A j \in 0 .. Len(ops) - 1 : DepthAt(ops)[j] >= 1

LEMMA TracedIsWhole ==
  ASSUME NEW v, Traced(ops, v), v.labels = <<>>
  PROVE  Whole
<1>1. PICK n \in Nat : n = Len(ops)
  BY DEF Traced, IsSeq
<1>2. PICK vs, d : vs = CheckedAt(ops) /\ d = DepthAt(ops)
  OBVIOUS
<1>3. \A i \in 0 .. n : Len(vs[i].labels) = d[i]
  BY <1>1, <1>2, TraceLevels
<1>4. vs[n] = v /\ Len(v.labels) = 0
  BY <1>1, <1>2 DEF Traced
<1>5. d[n] = 0 /\ d[0] = 1
  BY <1>1, <1>2, <1>3, <1>4, DepthSteps
<1>6. ASSUME NEW j \in 0 .. n - 1
      PROVE  d[j] >= 1
  <2>1. PICK i \in 1 .. n : i = j + 1 /\ j = i - 1
    BY <1>1
  <2>2. Reading(vs[i - 1], ops[i])
    BY <1>1, <1>2, <2>1, TraceReads
  <2>3. Len(vs[j].labels) \in Nat \ {0}
    BY <2>1, <2>2, InnermostIsLabel DEF Reading
  <2>4. j \in 0 .. n
    BY <1>1
  <2> QED
    BY <1>3, <2>3, <2>4
<1>7. n # 0
  BY <1>5
<1> QED
  BY <1>1, <1>2, <1>5, <1>6, <1>7 DEF Traced, Whole

LEMMA NothingOpen ==
  ASSUME Whole, NEW p \in 0 .. Len(ops) - 1, NEW k, OpenAt(ops, p, Len(ops), k)
  PROVE  FALSE
<1>1. PICK d : d = DepthAt(ops)
  OBVIOUS
<1>2. PICK n \in Nat : n = Len(ops) /\ n # 0
  BY DEF Whole
<1>3. d[p] >= 1 /\ d[n] = 0
  BY <1>1, <1>2 DEF Whole
<1>4. k \in Int /\ d[p] = k /\ \A j \in p .. n : d[j] >= k
  BY <1>1, <1>2, OpenFacts
<1>5. n \in p .. n
  BY <1>2
<1> QED
  BY <1>3, <1>4, <1>5

(* The label that depth names is the one open at its level.                 *)
LEMMA OpenerIs ==
  ASSUME Whole, NEW i \in 1 .. Len(ops), NEW p, NEW k, OpenAt(ops, p, i - 1, k),
         NEW depth, k = DepthAt(ops)[i - 1] - depth
  PROVE  OpenerAt(i, depth) = p
<1>1. PICK d : d = DepthAt(ops)
  OBVIOUS
<1>2. PICK h : h = i - 1
  OBVIOUS
<1>3. Len(ops) \in Nat /\ h \in Nat /\ h \in 0 .. Len(ops) /\ p \in 0 .. h
  <2>1. Len(ops) \in Nat
    BY DEF Whole
  <2>2. h \in Nat /\ h \in 0 .. Len(ops)
    BY <1>2, <2>1
  <2>3. OpenAt(ops, p, h, k)
    BY <1>2
  <2> QED
    BY <2>1, <2>2, <2>3 DEF OpenAt
<1> DEFINE outer == {j \in 1 .. h : /\ Opens(ops[j]) /\ d[j] = d[h] - depth
                                    /\ \A m \in j .. h : d[m] >= d[j]}
<1>4. OpenerAt(i, depth) = IF outer = {} THEN 0 ELSE CHOOSE j \in outer : TRUE
  BY <1>1, <1>2 DEF OpenerAt
<1>5. OpenAt(ops, p, h, k) /\ k = d[h] - depth
  BY <1>1, <1>2
<1>6. ASSUME NEW j \in outer
      PROVE  j = p
  <2>1. j \in 1 .. h /\ Opens(ops[j]) /\ d[j] = k /\ \A m \in j .. h : d[m] >= k
    BY <1>5
  <2>2. j \in 0 .. h
    BY <1>3, <2>1
  <2>3. OpenAt(ops, j, h, k)
    BY <1>1, <1>3, <2>1, <2>2 DEF OpenAt
  <2> QED
    BY <1>3, <1>5, <2>3, OpenUnique
<1>7. p # 0 => p \in outer
  <2>1. d[p] = k /\ (p = 0 \/ Opens(ops[p])) /\ \A j \in p .. h : d[j] >= k
    BY <1>1, <1>5 DEF OpenAt
  <2>2. p # 0 => p \in 1 .. h
    BY <1>3
  <2> QED
    BY <1>5, <2>1, <2>2
<1>8. \A j \in outer : j # 0
  BY <1>3
<1> HIDE DEF outer
<1>9. CASE p = 0
  <2>1. outer = {}
    BY <1>6, <1>8, <1>9
  <2> QED
    BY <1>4, <1>9, <2>1
<1>10. CASE p # 0
  <2>1. outer = {p}
    BY <1>6, <1>7, <1>10
  <2> QED
    BY <1>4, <2>1
<1> QED
  BY <1>9, <1>10

LEMMA LandingIs ==
  ASSUME Whole, NEW p, NEW e, NEW k, ClosedAt(ops, p, e, k), ~IsLoop(ops, p)
  PROVE  LandingOf(p) = e - 1
<1>1. CASE p # 0
  <2>1. MatchingEnd(ops, p) = e
    BY <1>1, MatchingEndIs DEF Whole
  <2> QED
    BY <1>1, <2>1 DEF LandingOf, IsLoop
<1>2. CASE p = 0
  <2>1. PICK d : d = DepthAt(ops)
    OBVIOUS
  <2>2. PICK n \in Nat : n = Len(ops)
    BY DEF Whole
  <2>3. e \in 1 .. n /\ d[e] = k - 1 /\ d[0] = k
    BY <1>2, <2>1, <2>2 DEF ClosedAt, OpenAt
  <2>4. d[0] = 1
    BY <2>1, <2>2, DepthSteps
  <2>5. d[e] = 0
    BY <2>3, <2>4
  <2>6. e \notin 0 .. n - 1
    BY <2>1, <2>2, <2>5 DEF Whole
  <2>7. e = n
    BY <2>3, <2>6
  <2> QED
    BY <1>2, <2>2, <2>7 DEF LandingOf
<1> QED
  BY <1>1, <1>2

(* The function is open up to the end.                                      *)
LEMMA FunctionOpen ==
  ASSUME Whole, NEW i \in 1 .. Len(ops), NEW p, OpenAt(ops, p, i - 1, 1)
  PROVE  p = 0
<1>1. PICK d : d = DepthAt(ops)
  OBVIOUS
<1>2. Len(ops) \in Nat
  BY DEF Whole
<1>3. d[0] = 1
  BY <1>1, <1>2, DepthSteps
<1>4. PICK h \in Nat : h = i - 1 /\ h \in 0 .. Len(ops) - 1 /\ h \in 0 .. Len(ops)
  <2>1. i - 1 \in Nat /\ i - 1 \in 0 .. Len(ops) - 1 /\ i - 1 \in 0 .. Len(ops)
    BY <1>2
  <2> QED
    BY <2>1
<1>5. \A j \in 0 .. h : d[j] >= 1
  BY <1>1, <1>2, <1>4 DEF Whole
<1>6. OpenAt(ops, 0, h, 1)
  BY <1>1, <1>3, <1>4, <1>5 DEF OpenAt
<1> QED
  BY <1>2, <1>4, <1>6, OpenUnique
=============================================================================
