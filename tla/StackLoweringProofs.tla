-------------------------- MODULE StackLoweringProofs --------------------------
(***************************************************************************)
(* What the stack lowering knows, for every body.                          *)
(*                                                                         *)
(* The height it computes is the validator's, in code that can run and for *)
(* every block that was opened in code that can run.  The lowering keeps a *)
(* block dead in two ways: by an unconditional transfer inside it, which   *)
(* its else takes back, and by birth in code that was dead already, which  *)
(* nothing takes back.  Fits says how the two flags follow the validator's *)
(* labels; Tracks adds the height, and every rule of the lowering is shown *)
(* to keep it.                                                             *)
(*                                                                         *)
(* Every branch goes to its own label.  Stands says which operator opened  *)
(* each open block; Resolves says of each jump emitted so far that it      *)
(* knows its target, or that one open block, the right one, waits to fill  *)
(* it in.  Targets is both, and every rule is shown to keep it.            *)
(***************************************************************************)
EXTENDS StackExecution, BodyReaderProofs, SequenceTheorems

-----------------------------------------------------------------------------
(* The invariant.                                                           *)

StackBlock ==
  [kind : LabelKinds, index : Nat, else_index : Int, recorded_height : Int,
   params : Nat, results : Nat, is_unreachable_traversing : BOOLEAN,
   has_inherited : BOOLEAN, attached_breaks : Seq(Nat \X Int)]

Formed(L) ==
  /\ DOMAIN L = {"inner", "curr_height", "max_height", "instructions", "br_targets"}
  /\ L.inner \in Seq(StackBlock)
  /\ L.curr_height \in Int /\ L.max_height \in Int /\ L.curr_height <= L.max_height
  /\ IsSeq(L.instructions) /\ IsSeq(L.br_targets)

(* Block k of bs stands for label l of the validator.                       *)
FitsAt(bs, l, k) ==
  /\ bs[k].params = l.params /\ bs[k].results = l.results
  /\ ~bs[k].has_inherited => bs[k].recorded_height = l.height
  /\ bs[k].has_inherited <=> \E j \in 1 .. k - 1 : bs[j].is_unreachable_traversing
  /\ bs[k].is_unreachable_traversing = (bs[k].has_inherited \/ l.unreachable)

Fits(bs, ls) ==
  /\ Len(bs) = Len(ls)
  /\ \A k \in 1 .. Len(bs) : FitsAt(bs, ls[k], k)

Tracks(L, v) ==
  /\ Formed(L)
  /\ Fits(L.inner, v.labels)
  /\ L.inner # <<>> /\ ~curr_block(L).is_unreachable_traversing => L.curr_height = v.height

HeightInv ==
  /\ alphabet \in DOMAIN Alphabets
  /\ ReaderInv(valid)
  /\ Tracks(lowering, valid)

-----------------------------------------------------------------------------
(* The blocks and the labels, one step at a time.                           *)

(* Only what Fits reads counts.                                             *)
SameBlocks(bs, cs) ==
  /\ Len(cs) = Len(bs)
  /\ \A k \in 1 .. Len(bs) :
       /\ cs[k].params = bs[k].params /\ cs[k].results = bs[k].results
       /\ cs[k].recorded_height = bs[k].recorded_height
       /\ cs[k].has_inherited = bs[k].has_inherited
       /\ cs[k].is_unreachable_traversing = bs[k].is_unreachable_traversing

LEMMA FitsSame ==
  ASSUME NEW bs, NEW cs, NEW ls, Fits(bs, ls), SameBlocks(bs, cs), Len(bs) \in Nat
  PROVE  Fits(cs, ls)
<1>1. Len(cs) = Len(ls) /\ Len(cs) = Len(bs)
  BY DEF Fits, SameBlocks
<1>2. ASSUME NEW k \in 1 .. Len(bs)
      PROVE  FitsAt(cs, ls[k], k)
  <2>1. FitsAt(bs, ls[k], k)
    BY <1>2 DEF Fits
  <2>2. \A j \in 1 .. k - 1 : j \in 1 .. Len(bs)
    BY <1>2
  <2> QED
    BY <1>2, <2>1, <2>2 DEF FitsAt, SameBlocks
<1> QED
  BY <1>1, <1>2 DEF Fits

(* The innermost block and its label change together.                       *)
Relabelling(bs, cs, ls, ms, n) ==
  /\ Fits(bs, ls) /\ Len(bs) = n /\ Len(cs) = n /\ Len(ms) = n
  /\ \A k \in 1 .. n - 1 : cs[k] = bs[k] /\ ms[k] = ls[k]
  /\ cs[n].params = bs[n].params /\ cs[n].results = bs[n].results
  /\ cs[n].recorded_height = bs[n].recorded_height
  /\ cs[n].has_inherited = bs[n].has_inherited
  /\ ms[n].params = ls[n].params /\ ms[n].results = ls[n].results
  /\ ms[n].height = ls[n].height
  /\ cs[n].is_unreachable_traversing = (cs[n].has_inherited \/ ms[n].unreachable)

LEMMA FitsRelabelled ==
  ASSUME NEW bs, NEW cs, NEW ls, NEW ms, NEW n \in Nat \ {0},
         Relabelling(bs, cs, ls, ms, n)
  PROVE  Fits(cs, ms)
<1> USE DEF Relabelling
<1>1. ASSUME NEW k \in 1 .. n
      PROVE  FitsAt(cs, ms[k], k)
  <2>1. FitsAt(bs, ls[k], k)
    BY <1>1 DEF Fits
  <2>2. \A j \in 1 .. k - 1 : cs[j] = bs[j]
    BY <1>1
  <2>3. (\E j \in 1 .. k - 1 : cs[j].is_unreachable_traversing)
          <=> (\E j \in 1 .. k - 1 : bs[j].is_unreachable_traversing)
    BY ONLY <2>2
  <2>4. CASE k = n
    BY <2>1, <2>3, <2>4 DEF FitsAt
  <2>5. CASE k \in 1 .. n - 1
    BY <2>1, <2>3, <2>5 DEF FitsAt
  <2> QED
    BY <1>1, <2>4, <2>5
<1> QED
  BY <1>1 DEF Fits

(* A block is dead when one around it is.                                   *)
LEMMA DeadWithin ==
  ASSUME NEW bs, NEW ls, NEW n \in Nat \ {0}, Fits(bs, ls), Len(bs) = n,
         NEW j \in 1 .. n, bs[j].is_unreachable_traversing,
         NEW k \in j .. n
  PROVE  bs[k].is_unreachable_traversing
<1>1. CASE k = j
  BY <1>1
<1>2. CASE k # j
  <2>1. FitsAt(bs, ls[k], k) /\ j \in 1 .. k - 1
    BY <1>2 DEF Fits
  <2> QED
    BY <2>1 DEF FitsAt
<1> QED
  BY <1>1, <1>2

(* Block b opened after the n of bs, for label l: live in live code, and    *)
(* then at the label's height, dead in dead code.                           *)
Opening(bs, cs, ls, ms, n, b, l) ==
  /\ Fits(bs, ls) /\ Len(bs) = n /\ Len(cs) = n + 1 /\ Len(ms) = n + 1
  /\ \A k \in 1 .. n : cs[k] = bs[k] /\ ms[k] = ls[k]
  /\ cs[n + 1] = b /\ ms[n + 1] = l
  /\ b.params = l.params /\ b.results = l.results
  /\ b.has_inherited = bs[n].is_unreachable_traversing
  /\ b.is_unreachable_traversing = bs[n].is_unreachable_traversing
  /\ bs[n].is_unreachable_traversing \in BOOLEAN
  /\ ~b.has_inherited => b.recorded_height = l.height
  /\ l.unreachable = FALSE

LEMMA FitsOpened ==
  ASSUME NEW bs, NEW cs, NEW ls, NEW ms, NEW n \in Nat \ {0}, NEW b, NEW l,
         Opening(bs, cs, ls, ms, n, b, l)
  PROVE  Fits(cs, ms)
<1> USE DEF Opening
<1>0. PICK m \in Nat : m = n + 1
  OBVIOUS
<1>1. ASSUME NEW k \in 1 .. n
      PROVE  FitsAt(cs, ms[k], k)
  <2>1. FitsAt(bs, ls[k], k)
    BY <1>1 DEF Fits
  <2>2. cs[k] = bs[k] /\ ms[k] = ls[k] /\ \A j \in 1 .. k - 1 : cs[j] = bs[j]
    BY <1>1
  <2> QED
    BY ONLY <2>1, <2>2 DEF FitsAt
<1>2. FitsAt(cs, l, m)
  <2>1. m - 1 = n
    BY <1>0
  <2>2. (\E j \in 1 .. n : bs[j].is_unreachable_traversing) => bs[n].is_unreachable_traversing
    BY DeadWithin
  <2>3. n \in 1 .. n
    OBVIOUS
  <2>4. (\E j \in 1 .. n : cs[j].is_unreachable_traversing) <=> bs[n].is_unreachable_traversing
    BY <2>2, <2>3
  <2>5. b.has_inherited <=> \E j \in 1 .. m - 1 : cs[j].is_unreachable_traversing
    BY <2>1, <2>4
  <2>6. cs[m] = b
    BY <1>0
  <2> QED
    BY <2>5, <2>6 DEF FitsAt
<1>3. \A k \in 1 .. Len(cs) : FitsAt(cs, ms[k], k)
  <2>1. \A k \in 1 .. Len(cs) : k \in 1 .. n \/ k = m
    BY <1>0
  <2>2. ms[m] = l
    BY <1>0
  <2> QED
    BY <1>1, <1>2, <2>1, <2>2
<1> QED
  BY <1>3 DEF Fits

LEMMA FitsClosed ==
  ASSUME NEW bs, NEW cs, NEW ls, NEW ms, NEW n \in Nat \ {0},
         Fits(bs, ls), Len(bs) = n, Len(cs) = n - 1, Len(ms) = n - 1,
         \A k \in 1 .. n - 1 : cs[k] = bs[k] /\ ms[k] = ls[k]
  PROVE  Fits(cs, ms)
<1>1. ASSUME NEW k \in 1 .. n - 1
      PROVE  FitsAt(cs, ms[k], k)
  <2>1. FitsAt(bs, ls[k], k)
    BY <1>1 DEF Fits
  <2>2. cs[k] = bs[k] /\ ms[k] = ls[k] /\ \A j \in 1 .. k - 1 : cs[j] = bs[j]
    BY <1>1
  <2> QED
    BY ONLY <2>1, <2>2 DEF FitsAt
<1> QED
  BY <1>1 DEF Fits


-----------------------------------------------------------------------------
(* The lowering's record, one field at a time.                              *)

LEMMA Blocks ==
  ASSUME NEW L, Formed(L), L.inner # <<>>
  PROVE  /\ Len(L.inner) \in Nat \ {0}
         /\ curr_block(L) = L.inner[Len(L.inner)]
         /\ curr_block(L) \in StackBlock
BY DEF Formed, curr_block, current

LEMMA BlockFields ==
  ASSUME NEW b \in StackBlock
  PROVE  /\ b.kind \in LabelKinds /\ b.index \in Nat /\ b.else_index \in Int
         /\ b.recorded_height \in Int /\ b.params \in Nat /\ b.results \in Nat
         /\ b.is_unreachable_traversing \in BOOLEAN /\ b.has_inherited \in BOOLEAN
         /\ b.attached_breaks \in Seq(Nat \X Int)
BY DEF StackBlock

(* Emitting an instruction changes no block and no height.                  *)
SameHeights(L, M) ==
  /\ Formed(M)
  /\ M.inner = L.inner /\ M.curr_height = L.curr_height

LEMMA PushKeeps ==
  ASSUME NEW L, Formed(L), NEW x, NEW M, M = push(L, x)
  PROVE  SameHeights(L, M)
<1>1. /\ DOMAIN M = DOMAIN L
      /\ M.inner = L.inner /\ M.curr_height = L.curr_height /\ M.max_height = L.max_height
      /\ M.br_targets = L.br_targets /\ M.instructions = Append(L.instructions, x)
  BY DEF push, Formed
<1>2. IsSeq(M.instructions)
  BY <1>1, AppendIsSeq DEF Formed
<1> QED
  BY <1>1, <1>2 DEF Formed, SameHeights

LEMMA SameHeightsTracks ==
  ASSUME NEW L, NEW M, NEW v, Tracks(L, v), SameHeights(L, M)
  PROVE  Tracks(M, v)
BY DEF Tracks, SameHeights, curr_block, current

LEMMA PushTracks ==
  ASSUME NEW L, NEW v, Tracks(L, v), NEW x
  PROVE  Tracks(push(L, x), v)
<1>1. PICK M : M = push(L, x)
  OBVIOUS
<1>2. SameHeights(L, M)
  BY <1>1, PushKeeps DEF Tracks
<1> QED
  BY <1>1, <1>2, SameHeightsTracks

(* note_height is the one place where the height changes.                   *)
LEMMA NoteShape ==
  ASSUME NEW L, Formed(L), NEW h \in Int, NEW M, M = note_height(L, h)
  PROVE  Formed(M) /\ M.inner = L.inner /\ M.curr_height = h
<1>1. PICK m \in Int : m = (IF h > L.max_height THEN h ELSE L.max_height) /\ h <= m
  BY DEF Formed
<1>2. /\ DOMAIN M = DOMAIN L
      /\ M.inner = L.inner /\ M.curr_height = h /\ M.max_height = m
      /\ M.br_targets = L.br_targets /\ M.instructions = L.instructions
  BY <1>1 DEF note_height, Formed
<1> QED
  BY <1>1, <1>2 DEF Formed

(* set_height, when it is the height the validator has next.                *)
LEMMA SetTracks ==
  ASSUME NEW L, NEW v, Formed(L), Fits(L.inner, v.labels), NEW h \in Int,
         L.inner # <<>> /\ ~curr_block(L).is_unreachable_traversing => h = v.height
  PROVE  Tracks(set_height(L, h), v)
<1>1. CASE L.inner # <<>> /\ curr_block(L).is_unreachable_traversing
  BY <1>1 DEF set_height, Tracks
<1>2. CASE ~(L.inner # <<>> /\ curr_block(L).is_unreachable_traversing)
  <2>1. PICK M : M = note_height(L, h)
    OBVIOUS
  <2>2. Formed(M) /\ M.inner = L.inner /\ M.curr_height = h
    BY <2>1, NoteShape
  <2>3. set_height(L, h) = M
    BY <1>2, <2>1 DEF set_height
  <2> QED
    BY <2>2, <2>3 DEF Tracks, curr_block, current
<1> QED
  BY <1>1, <1>2

(* An operator's effect on the operands.                                    *)
LEMMA EffectTracks ==
  ASSUME NEW L, NEW v, Tracks(L, v), ReaderInv(v), v.labels # <<>>,
         NEW popped \in Nat, NEW pushed \in Nat, CanPop(v, popped)
  PROVE  Tracks(apply_stack_effects_to_height(L, popped, pushed), Effect(v, popped, pushed))
<1>1. PICK e : e = Effect(v, popped, pushed)
  OBVIOUS
<1>2. /\ e.labels = v.labels
      /\ ~Innermost(v).unreachable => e.height = v.height - popped + pushed
  BY <1>1, EffectShape
<1>3. Formed(L) /\ Fits(L.inner, e.labels)
  BY <1>2 DEF Tracks
<1>4. CASE L.inner = <<>> \/ curr_block(L).is_unreachable_traversing
  <2>1. apply_stack_effects_to_height(L, popped, pushed) = L
    BY <1>4 DEF apply_stack_effects_to_height
  <2> QED
    BY <1>1, <1>3, <1>4, <2>1 DEF Tracks
<1>5. CASE ~(L.inner = <<>> \/ curr_block(L).is_unreachable_traversing)
  <2>1. Len(L.inner) \in Nat \ {0} /\ curr_block(L) = L.inner[Len(L.inner)]
    BY <1>3, <1>5, Blocks
  <2>2. FitsAt(L.inner, v.labels[Len(L.inner)], Len(L.inner)) /\ Len(L.inner) = Len(v.labels)
    BY <2>1 DEF Tracks, Fits
  <2>3. ~Innermost(v).unreachable
    BY <1>5, <2>1, <2>2 DEF FitsAt, Innermost
  <2>4. L.curr_height = v.height
    BY <1>5 DEF Tracks
  <2>5. PICK h \in Int : h = L.curr_height - popped + pushed
    BY <1>3 DEF Formed
  <2>6. h = e.height
    BY <1>2, <2>3, <2>4, <2>5
  <2>7. PICK M : M = note_height(L, h)
    OBVIOUS
  <2>8. Formed(M) /\ M.inner = L.inner /\ M.curr_height = h
    BY <1>3, <2>7, NoteShape
  <2>9. apply_stack_effects_to_height(L, popped, pushed) = M
    BY <1>5, <2>5, <2>7 DEF apply_stack_effects_to_height
  <2> QED
    BY <1>1, <1>3, <2>6, <2>8, <2>9 DEF Tracks
<1> QED
  BY <1>4, <1>5


-----------------------------------------------------------------------------
(* The blocks, one operation of the control stack at a time.                *)

(* The record with its innermost block rewritten.                           *)
with_curr_block(L, b) == [L EXCEPT !.inner[current(L)] = b]

BlockRewritten(L, M, b) ==
  /\ Formed(M) /\ M.curr_height = L.curr_height
  /\ M.instructions = L.instructions /\ M.br_targets = L.br_targets
  /\ Len(M.inner) = Len(L.inner) /\ M.inner[Len(L.inner)] = b /\ M.inner # <<>>
  /\ \A k \in 1 .. Len(L.inner) - 1 : M.inner[k] = L.inner[k]

LEMMA Rewritten ==
  ASSUME NEW L, Formed(L), L.inner # <<>>, NEW b \in StackBlock,
         NEW M, M = with_curr_block(L, b)
  PROVE  BlockRewritten(L, M, b)
<1> DEFINE n == Len(L.inner)
<1>1. PICK bs \in Seq(StackBlock) : bs = L.inner
  BY DEF Formed
<1>2. n \in Nat \ {0} /\ n = Len(bs) /\ n = current(L)
  BY <1>1, Blocks DEF current
<1>3. PICK cs : cs = [bs EXCEPT ![n] = b]
  OBVIOUS
<1>4. /\ cs \in Seq(StackBlock) /\ Len(cs) = n /\ cs[n] = b /\ cs # <<>>
      /\ \A k \in 1 .. n - 1 : cs[k] = bs[k]
  <2>1. b \in StackBlock /\ bs \in Seq(StackBlock)
    OBVIOUS
  <2> QED
    <3>1. PICK S : S = StackBlock
      OBVIOUS
    <3>2. PICK m \in Nat \ {0} : m = n /\ m = Len(bs)
      BY <1>2
    <3>3. b \in S /\ bs \in Seq(S) /\ cs = [bs EXCEPT ![m] = b]
      BY ONLY <2>1, <3>1, <3>2, <1>3
    <3>4. cs \in Seq(S) /\ Len(cs) = m /\ cs # <<>>
      BY ONLY <3>2, <3>3
    <3>5. cs[m] = b
      BY ONLY <3>2, <3>3
    <3>6. \A k \in 1 .. m - 1 : cs[k] = bs[k]
      BY ONLY <3>2, <3>3
    <3> QED
      BY ONLY <3>1, <3>2, <3>4, <3>5, <3>6
<1>5. M = [L EXCEPT !.inner = cs]
  BY <1>1, <1>2, <1>3 DEF with_curr_block
<1>6. /\ DOMAIN M = DOMAIN L
      /\ M.inner = cs /\ M.curr_height = L.curr_height /\ M.max_height = L.max_height
      /\ M.br_targets = L.br_targets /\ M.instructions = L.instructions
  BY <1>5 DEF Formed
<1> QED
  BY <1>1, <1>4, <1>6 DEF Formed, BlockRewritten

(* After an unconditional transfer the innermost block and label are both   *)
(* dead.                                                                    *)
LEMMA MarkTracks ==
  ASSUME NEW L, NEW v, Tracks(L, v), ReaderInv(v), v.labels # <<>>
  PROVE  Tracks(set_unreachable_traversing(L), MarkUnreachable(v))
<1>1. PICK M : M = set_unreachable_traversing(L)
  OBVIOUS
<1>2. PICK w : w = MarkUnreachable(v)
  OBVIOUS
<1>3. PICK n : n = Len(L.inner)
  OBVIOUS
<1>4. Formed(L) /\ Fits(L.inner, v.labels) /\ n = Len(v.labels)
  BY <1>3 DEF Tracks, Fits
<1>5. n \in Nat \ {0} /\ Innermost(v) \in ValidatorLabel /\ Innermost(v) = v.labels[n]
  BY <1>4, InnermostIsLabel
<1>6. L.inner # <<>>
  BY <1>3, <1>5
<1>7. L.inner[n] \in StackBlock
  BY <1>3, <1>4, <1>6, Blocks
<1>8. PICK b : b = [L.inner[n] EXCEPT !.is_unreachable_traversing = TRUE]
  OBVIOUS
<1>9. /\ b \in StackBlock /\ b.is_unreachable_traversing = TRUE
      /\ b.params = L.inner[n].params /\ b.results = L.inner[n].results
      /\ b.recorded_height = L.inner[n].recorded_height
      /\ b.has_inherited = L.inner[n].has_inherited
  BY <1>7, <1>8 DEF StackBlock
<1>10. M = with_curr_block(L, b)
  BY <1>1, <1>3, <1>8 DEF set_unreachable_traversing, current, with_curr_block
<1>11. /\ Formed(M) /\ Len(M.inner) = n /\ M.inner[n] = b
       /\ \A k \in 1 .. n - 1 : M.inner[k] = L.inner[k]
  <2>1. BlockRewritten(L, M, b)
    BY <1>4, <1>6, <1>9, <1>10, Rewritten
  <2> QED
    BY <1>3, <2>1 DEF BlockRewritten
<1>12. PICK l : l = [Innermost(v) EXCEPT !.unreachable = TRUE]
  OBVIOUS
<1>13. /\ l.unreachable = TRUE /\ l.params = v.labels[n].params
       /\ l.results = v.labels[n].results /\ l.height = v.labels[n].height
  BY <1>5, <1>12 DEF ValidatorLabel
<1>14. /\ Len(w.labels) = n /\ w.labels[n] = l
       /\ \A k \in 1 .. n - 1 : w.labels[k] = v.labels[k]
  BY <1>2, <1>4, <1>12, MarkedShape
<1>15. b.is_unreachable_traversing = (b.has_inherited \/ l.unreachable)
  BY <1>9, <1>13
<1>16. Fits(M.inner, w.labels)
  <2>1. PICK bs : bs = L.inner
    OBVIOUS
  <2>2. PICK cs : cs = M.inner
    OBVIOUS
  <2>3. PICK ls : ls = v.labels
    OBVIOUS
  <2>4. PICK ms : ms = w.labels
    OBVIOUS
  <2>5. /\ Fits(bs, ls) /\ Len(bs) = n /\ Len(cs) = n /\ Len(ms) = n
        /\ \A k \in 1 .. n - 1 : cs[k] = bs[k] /\ ms[k] = ls[k]
        /\ cs[n] = b /\ ms[n] = l
    BY <1>3, <1>4, <1>11, <1>14, <2>1, <2>2, <2>3, <2>4
  <2>6. Relabelling(bs, cs, ls, ms, n)
    BY ONLY <1>9, <1>13, <1>15, <2>1, <2>3, <2>5 DEF Relabelling
  <2>7. Fits(cs, ms)
    BY ONLY <1>5, <2>6, FitsRelabelled
  <2> QED
    BY <2>2, <2>4, <2>7
<1>17. curr_block(M).is_unreachable_traversing
  BY <1>9, <1>11 DEF curr_block, current
<1> QED
  BY <1>1, <1>2, <1>11, <1>16, <1>17 DEF Tracks

(* Remembering a branch changes nothing that Fits reads.                    *)
AlikeBlocks(L, M) ==
  /\ Formed(M)
  /\ SameBlocks(L.inner, M.inner)
  /\ M.curr_height = L.curr_height
  /\ M.instructions = L.instructions /\ M.br_targets = L.br_targets

LEMMA AlikeTracks ==
  ASSUME NEW L, NEW M, NEW v, Tracks(L, v), AlikeBlocks(L, M)
  PROVE  Tracks(M, v)
<1>1. Formed(L) /\ Formed(M) /\ SameBlocks(L.inner, M.inner) /\ M.curr_height = L.curr_height
  BY DEF Tracks, AlikeBlocks
<1>2. Len(L.inner) \in Nat /\ Len(M.inner) = Len(L.inner)
  BY <1>1 DEF Formed, SameBlocks
<1>3. Fits(M.inner, v.labels)
  BY <1>1, <1>2, FitsSame DEF Tracks
<1>4. M.inner # <<>> => L.inner # <<>>
  BY <1>1, <1>2 DEF Formed
<1>5. M.inner # <<>> =>
        curr_block(M).is_unreachable_traversing = curr_block(L).is_unreachable_traversing
  <2>1. HAVE M.inner # <<>>
  <2>2. PICK n \in Nat : n = Len(L.inner)
    BY <1>2
  <2>3. n \in 1 .. n
    BY <1>1, <1>4, <2>1, <2>2, Blocks
  <2> QED
    BY <1>1, <1>2, <2>2, <2>3 DEF SameBlocks, curr_block, current
<1> QED
  BY <1>1, <1>3, <1>4, <1>5 DEF Tracks

LEMMA AttachAlike ==
  ASSUME NEW L, Formed(L), NEW k \in 1 .. Len(L.inner), NEW slot \in Int,
         NEW M, M = attach(L, k, slot)
  PROVE  AlikeBlocks(L, M)
<1>1. PICK bs \in Seq(StackBlock) : bs = L.inner
  BY DEF Formed
<1>2. bs[k] \in StackBlock /\ Len(bs) \in Nat
  BY <1>1
<1>3. CASE L.inner[k].kind = "Loop"
  BY <1>1, <1>3 DEF attach, AlikeBlocks, SameBlocks
<1>4. CASE L.inner[k].kind # "Loop"
  <2>1. PICK p \in Nat \X Int : p = <<len(L), slot>>
    BY DEF len, Formed, IsSeq
  <2>2. PICK q : q = Append(bs[k].attached_breaks, p)
    OBVIOUS
  <2>3. q \in Seq(Nat \X Int)
    BY <1>2, <2>2, BlockFields
  <2>11. PICK b : b = [bs[k] EXCEPT !.attached_breaks = q]
    OBVIOUS
  <2>4. /\ b \in StackBlock
        /\ b.params = bs[k].params /\ b.results = bs[k].results
        /\ b.recorded_height = bs[k].recorded_height
        /\ b.has_inherited = bs[k].has_inherited
        /\ b.is_unreachable_traversing = bs[k].is_unreachable_traversing
    BY <1>2, <2>3, <2>11 DEF StackBlock
  <2>5. PICK cs : cs = [bs EXCEPT ![k] = b]
    OBVIOUS
  <2>6. M = [L EXCEPT !.inner = cs]
    BY <1>1, <1>4, <2>1, <2>2, <2>5, <2>11 DEF attach
  <2>7. /\ DOMAIN M = DOMAIN L
        /\ M.inner = cs /\ M.curr_height = L.curr_height /\ M.max_height = L.max_height
        /\ M.br_targets = L.br_targets /\ M.instructions = L.instructions
    BY <2>6 DEF Formed
  <2>8. cs \in Seq(StackBlock) /\ Len(cs) = Len(bs)
    BY <1>1, <2>4, <2>5
  <2>9. \A j \in 1 .. Len(bs) : cs[j] = IF j = k THEN b ELSE bs[j]
    BY <1>1, <2>5
  <2>10. SameBlocks(bs, cs)
    BY ONLY <2>4, <2>8, <2>9 DEF SameBlocks
  <2> QED
    BY <1>1, <2>7, <2>8, <2>10 DEF Formed, AlikeBlocks
<1> QED
  BY <1>3, <1>4


(* The innermost block and the innermost label, side by side.               *)
LEMMA Innermosts ==
  ASSUME NEW L, NEW v, Tracks(L, v), ReaderInv(v), v.labels # <<>>
  PROVE  /\ Len(L.inner) = Len(v.labels) /\ Len(L.inner) \in Nat \ {0} /\ L.inner # <<>>
         /\ curr_block(L) = L.inner[Len(L.inner)] /\ curr_block(L) \in StackBlock
         /\ curr_block(L).params = Innermost(v).params
         /\ curr_block(L).results = Innermost(v).results
         /\ ~curr_block(L).has_inherited =>
              curr_block(L).recorded_height = Innermost(v).height
         /\ curr_block(L).is_unreachable_traversing
              = (curr_block(L).has_inherited \/ Innermost(v).unreachable)
         /\ ~curr_block(L).is_unreachable_traversing =>
              L.curr_height = v.height /\ ~Innermost(v).unreachable
<1>1. Len(v.labels) \in Nat \ {0} /\ Innermost(v) = v.labels[Len(v.labels)]
  BY InnermostIsLabel
<1>2. Len(L.inner) = Len(v.labels) /\ Formed(L)
  BY DEF Tracks, Fits
<1>3. L.inner # <<>>
  BY <1>1, <1>2
<1>4. curr_block(L) = L.inner[Len(L.inner)] /\ curr_block(L) \in StackBlock
  BY <1>2, <1>3, Blocks
<1>5. FitsAt(L.inner, Innermost(v), Len(L.inner))
  BY <1>1, <1>2 DEF Tracks, Fits
<1>6. ~curr_block(L).is_unreachable_traversing => L.curr_height = v.height
  BY SMTT(30), <1>3 DEF Tracks
<1> QED
  BY <1>1, <1>2, <1>3, <1>4, <1>5, <1>6 DEF FitsAt

(* A block opens at the height of its label, or dead; c operands more than  *)
(* the label's params are still booked, the condition of an if.             *)
OpenedFor(L, M, w, c) ==
  /\ Formed(M) /\ M.inner # <<>> /\ Fits(M.inner, w.labels)
  /\ M.curr_height = L.curr_height
  /\ curr_block(M).is_unreachable_traversing = curr_block(L).is_unreachable_traversing
  /\ ~curr_block(L).is_unreachable_traversing => L.curr_height = w.height + c

LEMMA AddOpens ==
  ASSUME NEW L, NEW v, Tracks(L, v), ReaderInv(v), v.labels # <<>>,
         NEW o, IsOperator(o), o.op \in Openers,
         NEW c, c = (IF o.op = "If" THEN 1 ELSE 0),
         NEW popped \in Nat, popped = o.ty[1] + c, CanPop(v, popped),
         NEW e, e = Effect(v, popped, 0),
         NEW w, w = [height |-> e.height + o.ty[1],
                     labels |-> Append(e.labels, Label(o.op, e.height, o.ty[1], o.ty[2]))],
         NEW M, M = add_block(L, o)
  PROVE  OpenedFor(L, M, w, c)
<1>1. o.ty[1] \in Nat /\ o.ty[2] \in Nat /\ o.op \in LabelKinds /\ c \in {0, 1}
  BY OperatorCases DEF LabelKinds, Openers
<1>2. /\ e.labels = v.labels /\ e.height \in Nat
      /\ ~Innermost(v).unreachable => e.height = v.height - popped
  <2>1. PICK z \in Nat : z = 0
    OBVIOUS
  <2>2. e = Effect(v, popped, z)
    BY <2>1
  <2>3. /\ e \in Validator /\ e.labels = v.labels
        /\ ~Innermost(v).unreachable => e.height = v.height - popped + z
    BY <2>2, EffectShape
  <2>4. v.height \in Nat
    BY DEF ReaderInv, Validator
  <2> QED
    BY <2>1, <2>3, <2>4 DEF Validator
<1>3. PICK bs \in Seq(StackBlock) : bs = L.inner
  BY DEF Tracks, Formed
<1>4. PICK n \in Nat \ {0} : n = Len(bs) /\ n = Len(v.labels)
  BY <1>3, Innermosts
<1>5. PICK d \in BOOLEAN : d = bs[n].is_unreachable_traversing /\ d = curr_block(L).is_unreachable_traversing
  BY <1>3, <1>4, Innermosts, BlockFields
<1>6. ~d => L.curr_height = v.height /\ ~Innermost(v).unreachable
  BY <1>5, Innermosts
<1>7. PICK h \in Int : h = IF d THEN 0 ELSE L.curr_height - o.ty[1] - c
  BY SMTT(30), <1>1 DEF Tracks, Formed
<1>8. v.height \in Nat /\ v.labels \in Seq(ValidatorLabel)
  BY DEF ReaderInv, Validator
<1>9. ~d => h = e.height /\ L.curr_height = e.height + o.ty[1] + c
  <2>1. HAVE ~d
  <2>2. PICK p \in Nat : p = o.ty[1]
    BY <1>1
  <2>3. PICK x \in Nat : x = v.height
    BY <1>8
  <2>4. PICK y \in Nat : y = e.height
    BY <1>2
  <2>5. L.curr_height = x /\ y = x - popped /\ popped = p + c /\ h = x - p - c
    BY <1>2, <1>6, <1>7, <2>1, <2>2, <2>3, <2>4
  <2>6. c \in Int
    BY <1>1
  <2>7. h = y /\ x = y + p + c
    BY ONLY <2>5, <2>6
  <2> QED
    BY <2>2, <2>4, <2>5, <2>7
<1>10. PICK i \in Nat : i = len(L)
  BY DEF len, Tracks, Formed, IsSeq
<1>11. PICK b : b = NewBlock(o.op, i, h, o.ty[1], o.ty[2], d)
  OBVIOUS
<1>12. /\ b \in StackBlock
       /\ b.params = o.ty[1] /\ b.results = o.ty[2] /\ b.recorded_height = h
       /\ b.has_inherited = d /\ b.is_unreachable_traversing = d
  <2>1. <<>> \in Seq(Nat \X Int) /\ Unset \in Int
    BY DEF Unset
  <2> QED
    BY <1>1, <1>5, <1>7, <1>10, <1>11, <2>1 DEF NewBlock, StackBlock
<1>13. PICK l \in ValidatorLabel : l = Label(o.op, e.height, o.ty[1], o.ty[2])
  BY ZenonT(30), <1>1, <1>2, NewLabel
<1>14. /\ l.params = o.ty[1] /\ l.results = o.ty[2] /\ l.height = e.height
       /\ l.unreachable = FALSE
  BY ONLY <1>13 DEF Label
<1>15. PICK cs : cs = Append(bs, b)
  OBVIOUS
<1>16. /\ cs \in Seq(StackBlock) /\ Len(cs) = n + 1 /\ cs[n + 1] = b /\ cs # <<>>
       /\ \A k \in 1 .. n : cs[k] = bs[k]
  <2>1. PICK S : S = StackBlock
    OBVIOUS
  <2>2. b \in S /\ bs \in Seq(S) /\ n = Len(bs)
    BY <1>4, <1>12, <2>1
  <2>3. cs \in Seq(S) /\ Len(cs) = n + 1 /\ cs # <<>>
    BY ONLY <1>15, <2>2
  <2>4. cs[n + 1] = b
    BY ONLY <1>15, <2>2
  <2>5. \A k \in 1 .. n : cs[k] = bs[k]
    BY ONLY <1>15, <2>2
  <2> QED
    BY ONLY <2>1, <2>3, <2>4, <2>5
<1>17. M = [L EXCEPT !.inner = cs]
  BY <1>3, <1>5, <1>7, <1>10, <1>11, <1>15 DEF add_block
<1>18. Formed(M) /\ M.inner = cs /\ M.curr_height = L.curr_height
  <2>1. /\ DOMAIN M = DOMAIN L
        /\ M.inner = cs /\ M.curr_height = L.curr_height /\ M.max_height = L.max_height
        /\ M.br_targets = L.br_targets /\ M.instructions = L.instructions
    BY <1>17 DEF Tracks, Formed
  <2> QED
    BY <1>16, <2>1 DEF Tracks, Formed
<1>19. PICK ms : ms = w.labels
  OBVIOUS
<1>20. /\ Len(ms) = n + 1 /\ ms[n + 1] = l
       /\ \A k \in 1 .. n : ms[k] = v.labels[k]
  <2>1. ms = Append(v.labels, l)
    BY <1>2, <1>13, <1>19
  <2> QED
    BY SMTT(30), <1>4, <1>8, <2>1
<1>21. Fits(cs, ms)
  <2>1. PICK ls : ls = v.labels
    OBVIOUS
  <2>2. Fits(bs, ls)
    BY <1>3, <2>1 DEF Tracks
  <2>3. \A k \in 1 .. n : cs[k] = bs[k] /\ ms[k] = ls[k]
    BY ONLY <1>16, <1>20, <2>1
  <2>4. ~b.has_inherited => b.recorded_height = l.height
    BY <1>9, <1>12, <1>14
  <2>5. /\ b.params = l.params /\ b.results = l.results
        /\ b.has_inherited = bs[n].is_unreachable_traversing
        /\ b.is_unreachable_traversing = bs[n].is_unreachable_traversing
        /\ bs[n].is_unreachable_traversing \in BOOLEAN
    BY <1>5, <1>12, <1>14
  <2>6. n \in Nat \ {0} /\ Len(bs) = n /\ Len(cs) = n + 1 /\ Len(ms) = n + 1
        /\ cs[n + 1] = b /\ ms[n + 1] = l /\ l.unreachable = FALSE
    BY <1>4, <1>14, <1>16, <1>20
  <2>7. Opening(bs, cs, ls, ms, n, b, l)
    BY ONLY <2>2, <2>3, <2>4, <2>5, <2>6 DEF Opening
  <2> QED
    BY ONLY <2>6, <2>7, FitsOpened
<1>22. curr_block(M).is_unreachable_traversing = d
  BY <1>4, <1>12, <1>16, <1>18 DEF curr_block, current
<1>23. ~d => L.curr_height = w.height + c
  BY <1>1, <1>2, <1>9
<1> QED
  BY <1>5, <1>16, <1>18, <1>19, <1>21, <1>22, <1>23 DEF OpenedFor


-----------------------------------------------------------------------------
(* The rules that open, turn and close blocks.                              *)

LEMMA BlockTracks ==
  ASSUME NEW L, NEW v, Tracks(L, v), ReaderInv(v), v.labels # <<>>,
         NEW o, IsOperator(o), o.op \in {"Block", "Loop"}, Allowed(v, o)
  PROVE  Tracks(LowerBlock(L, o), Validated(v, o))
<1>1. o.ty[1] \in Nat /\ o.op \in Openers /\ o.op # "If"
  BY OperatorCases DEF Openers
<1>2. PICK c \in Nat : c = 0 /\ c = (IF o.op = "If" THEN 1 ELSE 0)
  BY <1>1
<1>3. PICK popped \in Nat : popped = o.ty[1] /\ popped = o.ty[1] + c
  BY <1>1, <1>2
<1>4. CanPop(v, popped)
  BY <1>3, AllowedCases
<1>5. PICK e : e = Effect(v, popped, 0)
  OBVIOUS
<1>6. PICK w : w = [height |-> e.height + o.ty[1],
                    labels |-> Append(e.labels, Label(o.op, e.height, o.ty[1], o.ty[2]))]
  OBVIOUS
<1>7. w = Validated(v, o)
  BY <1>3, <1>5, <1>6, ValidatedCases
<1>8. PICK M : M = add_block(L, o)
  OBVIOUS
<1>9. OpenedFor(L, M, w, c)
  BY <1>1, <1>2, <1>3, <1>4, <1>5, <1>6, <1>8, AddOpens
<1>10. w.height \in Nat
  BY <1>7, ValidatedInv DEF ReaderInv, Validator
<1>11. Tracks(M, w)
  BY <1>2, <1>9, <1>10 DEF OpenedFor, Tracks
<1> QED
  BY <1>7, <1>8, <1>11, PushTracks DEF LowerBlock

LEMMA IfTracks ==
  ASSUME NEW L, NEW v, Tracks(L, v), ReaderInv(v), v.labels # <<>>,
         NEW o, IsOperator(o), o.op = "If", Allowed(v, o)
  PROVE  Tracks(LowerIf(L, o), Validated(v, o))
<1>1. o.ty[1] \in Nat /\ o.op \in Openers
  BY OperatorCases DEF Openers
<1>2. PICK c \in Nat : c = 1 /\ c = (IF o.op = "If" THEN 1 ELSE 0)
  OBVIOUS
<1>3. PICK popped \in Nat : popped = o.ty[1] + 1 /\ popped = o.ty[1] + c
  BY <1>1, <1>2
<1>4. CanPop(v, popped)
  BY <1>3, AllowedCases
<1>5. PICK e : e = Effect(v, popped, 0)
  OBVIOUS
<1>6. PICK w : w = [height |-> e.height + o.ty[1],
                    labels |-> Append(e.labels, Label(o.op, e.height, o.ty[1], o.ty[2]))]
  OBVIOUS
<1>7. w = Validated(v, o)
  BY SMTT(30), <1>3, <1>5, <1>6, ValidatedCases
<1>8. PICK M : M = add_block(L, o)
  OBVIOUS
<1>9. OpenedFor(L, M, w, c)
  BY <1>1, <1>2, <1>3, <1>4, <1>5, <1>6, <1>8, AddOpens
<1>10. w.height \in Nat
  BY <1>7, ValidatedInv DEF ReaderInv, Validator
<1>11. PICK N : N = apply_stack_effects_to_height(M, 1, 0)
  OBVIOUS
<1>12. Tracks(N, w)
  <2>1. CASE curr_block(M).is_unreachable_traversing
    <3>1. N = M
      BY <1>11, <2>1 DEF apply_stack_effects_to_height
    <3> QED
      BY <1>9, <2>1, <3>1 DEF OpenedFor, Tracks
  <2>2. CASE ~curr_block(M).is_unreachable_traversing
    <3>1. M.curr_height = w.height + 1
      BY <1>2, <1>9, <2>2 DEF OpenedFor
    <3>2. PICK h \in Int : h = w.height /\ h = M.curr_height - 1 + 0
      BY <1>10, <3>1
    <3>3. N = note_height(M, h)
      BY <1>9, <1>11, <2>2, <3>2 DEF apply_stack_effects_to_height, OpenedFor
    <3>4. Formed(N) /\ N.inner = M.inner /\ N.curr_height = h
      BY <1>9, <3>3, NoteShape DEF OpenedFor
    <3> QED
      BY <1>9, <3>2, <3>4 DEF OpenedFor, Tracks
  <2> QED
    BY <2>1, <2>2
<1> QED
  BY <1>7, <1>8, <1>11, <1>12, PushTracks DEF LowerIf

(* The second arm starts where the label did, with the params: live, unless *)
(* the block was born dead.                                                 *)
LEMMA ElseTracks ==
  ASSUME NEW L, NEW v, Tracks(L, v), ReaderInv(v), v.labels # <<>>,
         NEW o, IsOperator(o), o.op = "Else", Allowed(v, o)
  PROVE  Tracks(LowerElse(L), Validated(v, o))
<1>1. PICK n \in Nat \ {0} : n = Len(L.inner) /\ n = Len(v.labels)
  BY Innermosts
<1>2. PICK b \in StackBlock : b = curr_block(L) /\ b = L.inner[n]
  BY <1>1, Innermosts
<1>3. PICK t \in ValidatorLabel : t = Innermost(v) /\ t = v.labels[n]
  BY <1>1, InnermostIsLabel
<1>4. /\ b.params = t.params /\ b.results = t.results
      /\ ~b.has_inherited => b.recorded_height = t.height
      /\ b.is_unreachable_traversing = (b.has_inherited \/ t.unreachable)
  <2>1. /\ curr_block(L).params = Innermost(v).params
        /\ curr_block(L).results = Innermost(v).results
        /\ ~curr_block(L).has_inherited =>
             curr_block(L).recorded_height = Innermost(v).height
        /\ curr_block(L).is_unreachable_traversing
             = (curr_block(L).has_inherited \/ Innermost(v).unreachable)
    BY Innermosts
  <2> QED
    BY ONLY <1>2, <1>3, <2>1
<1>5. PICK i \in Nat : i = len(L)
  BY DEF len, Tracks, Formed, IsSeq
<1>6. PICK f : f = [b EXCEPT !.else_index = i]
  OBVIOUS
<1>7. PICK c : c = IF b.has_inherited THEN f
                   ELSE [f EXCEPT !.is_unreachable_traversing = FALSE]
  OBVIOUS
<1>8. /\ f \in StackBlock /\ f.params = b.params /\ f.results = b.results
      /\ f.recorded_height = b.recorded_height /\ f.has_inherited = b.has_inherited
      /\ f.is_unreachable_traversing = b.is_unreachable_traversing
  <2>1. i \in Int /\ b \in StackBlock
    OBVIOUS
  <2> QED
    BY ONLY <1>6, <2>1 DEF StackBlock
<1>10. /\ c \in StackBlock /\ c.params = b.params /\ c.results = b.results
       /\ c.recorded_height = b.recorded_height /\ c.has_inherited = b.has_inherited
       /\ c.is_unreachable_traversing = b.has_inherited
  <2>1. b.has_inherited \in BOOLEAN /\ b.is_unreachable_traversing \in BOOLEAN
    BY BlockFields
  <2>2. CASE b.has_inherited = TRUE
    BY <1>4, <1>7, <1>8, <2>2
  <2>3. CASE b.has_inherited = FALSE
    BY <1>7, <1>8, <2>3 DEF StackBlock
  <2> QED
    BY <2>1, <2>2, <2>3
<1>11. PICK E : E = with_curr_block(L, f)
  OBVIOUS
<1>12. /\ Formed(E) /\ Len(E.inner) = n /\ E.inner[n] = f /\ E.inner # <<>>
       /\ \A k \in 1 .. n - 1 : E.inner[k] = L.inner[k]
  <2>1. BlockRewritten(L, E, f)
    BY <1>8, <1>11, Innermosts, Rewritten DEF Tracks
  <2> QED
    BY <1>1, <2>1 DEF BlockRewritten
<1>13. curr_block(E) = f /\ current(E) = n
  BY <1>12 DEF curr_block, current
<1>14. PICK M : M = end_unreachable_traversing(E)
  OBVIOUS
<1>15. /\ Formed(M) /\ Len(M.inner) = n /\ M.inner[n] = c /\ M.inner # <<>>
       /\ \A k \in 1 .. n - 1 : M.inner[k] = L.inner[k]
  <2>1. CASE b.has_inherited
    <3>1. M = E
      BY <1>8, <1>13, <1>14, <2>1 DEF end_unreachable_traversing
    <3> QED
      BY <1>7, <1>12, <2>1, <3>1
  <2>2. CASE ~b.has_inherited
    <3>1. M = with_curr_block(E, c)
      BY <1>7, <1>8, <1>12, <1>13, <1>14, <2>2
         DEF end_unreachable_traversing, with_curr_block, current
    <3>2. BlockRewritten(E, M, c)
      BY <1>10, <1>12, <3>1, Rewritten
    <3> QED
      BY <1>12, <3>2 DEF BlockRewritten
  <2> QED
    BY <2>1, <2>2
<1>16. PICK l \in ValidatorLabel : l = Label("Else", t.height, t.params, t.results)
  <2>1. "Else" \in LabelKinds
    BY DEF LabelKinds
  <2> QED
    BY <2>1, NewLabel, LabelFields
<1>17. /\ l.params = t.params /\ l.results = t.results /\ l.height = t.height
       /\ l.unreachable = FALSE
  BY ONLY <1>16 DEF Label
<1>18. PICK w : w = Validated(v, o)
  OBVIOUS
<1>19. /\ w.height = t.height + t.params
       /\ w.labels = [v.labels EXCEPT ![n] = l]
  <2>1. Validated(v, o) =
          [height |-> Innermost(v).height + Innermost(v).params,
           labels |-> [v.labels EXCEPT ![Len(v.labels)] =
             Label("Else", Innermost(v).height, Innermost(v).params, Innermost(v).results)]]
    BY ValidatedCases
  <2>2. w = [height |-> t.height + t.params, labels |-> [v.labels EXCEPT ![n] = l]]
    BY ONLY <1>1, <1>3, <1>16, <1>18, <2>1
  <2> QED
    BY ONLY <2>2
<1>20. /\ Len(w.labels) = n /\ w.labels[n] = l
       /\ \A k \in 1 .. n - 1 : w.labels[k] = v.labels[k]
  <2>1. v.labels \in Seq(ValidatorLabel)
    BY DEF ReaderInv, Validator
  <2> QED
    BY <1>1, <1>19, <2>1
<1>21. Fits(M.inner, w.labels)
  <2>1. PICK bs : bs = L.inner
    OBVIOUS
  <2>2. PICK cs : cs = M.inner
    OBVIOUS
  <2>3. PICK ls : ls = v.labels
    OBVIOUS
  <2>4. PICK ms : ms = w.labels
    OBVIOUS
  <2>5. /\ Fits(bs, ls) /\ Len(bs) = n /\ Len(cs) = n /\ Len(ms) = n
        /\ \A k \in 1 .. n - 1 : cs[k] = bs[k] /\ ms[k] = ls[k]
        /\ cs[n] = c /\ ms[n] = l /\ bs[n] = b /\ ls[n] = t
    BY <1>1, <1>2, <1>3, <1>15, <1>20, <2>1, <2>2, <2>3, <2>4 DEF Tracks
  <2>6. c.is_unreachable_traversing = (c.has_inherited \/ l.unreachable)
    <3>1. b.has_inherited \in BOOLEAN
      BY BlockFields
    <3> QED
      BY <1>10, <1>17, <3>1
  <2>8. Relabelling(bs, cs, ls, ms, n)
    BY ONLY <1>10, <1>17, <2>5, <2>6 DEF Relabelling
  <2>7. Fits(cs, ms)
    BY <2>8, FitsRelabelled
  <2> QED
    BY <2>2, <2>4, <2>7
<1>22. PICK h \in Int : h = b.recorded_height + b.params
  BY BlockFields
<1>23. M.inner # <<>> /\ ~curr_block(M).is_unreachable_traversing => h = w.height
  <2>1. curr_block(M) = c
    BY <1>15 DEF curr_block, current
  <2> QED
    BY <1>4, <1>10, <1>19, <1>22, <2>1
<1>24. Tracks(set_height(M, h), w)
  BY <1>15, <1>21, <1>23, SetTracks
<1>25. LowerElse(L) = push(set_height(M, h), ElseInstr)
  <2>1. E = [L EXCEPT !.inner[current(L)].else_index = len(L)]
    BY <1>2, <1>5, <1>6, <1>11 DEF with_curr_block, curr_block
  <2> QED
    BY <1>2, <1>14, <1>22, <2>1 DEF LowerElse
<1> QED
  BY <1>18, <1>24, <1>25, PushTracks


(* End drops the innermost block and leaves its results where it began.     *)
LEMMA EndTracks ==
  ASSUME NEW L, NEW v, Tracks(L, v), ReaderInv(v), v.labels # <<>>,
         NEW o, IsOperator(o), o.op = "End"
  PROVE  Tracks(LowerEnd(L), Validated(v, o))
<1>1. PICK n \in Nat \ {0} : n = Len(L.inner) /\ n = Len(v.labels)
  BY Innermosts
<1>2. PICK b \in StackBlock : b = curr_block(L) /\ b = L.inner[n]
  BY <1>1, Innermosts
<1>3. PICK t \in ValidatorLabel : t = Innermost(v) /\ t = v.labels[n]
  BY <1>1, InnermostIsLabel
<1>4. /\ b.results = t.results
      /\ ~b.has_inherited => b.recorded_height = t.height
  <2>1. /\ curr_block(L).results = Innermost(v).results
        /\ ~curr_block(L).has_inherited =>
             curr_block(L).recorded_height = Innermost(v).height
    BY Innermosts
  <2> QED
    BY ONLY <1>2, <1>3, <2>1
<1>5. PICK w : w = Validated(v, o)
  OBVIOUS
<1>6. w = [height |-> t.height + t.results, labels |-> SubSeq(v.labels, 1, n - 1)]
  <2>1. Validated(v, o) = [height |-> Innermost(v).height + Innermost(v).results,
                           labels |-> SubSeq(v.labels, 1, Len(v.labels) - 1)]
    BY ValidatedCases
  <2> QED
    BY ONLY <1>1, <1>3, <1>5, <2>1
<1>7. PICK bs \in Seq(StackBlock) : bs = L.inner
  BY DEF Tracks, Formed
<1>8. PICK cs : cs = SubSeq(bs, 1, n - 1)
  OBVIOUS
<1>9. /\ cs \in Seq(StackBlock) /\ Len(cs) = n - 1
      /\ \A k \in 1 .. n - 1 : cs[k] = bs[k]
  <2>1. PICK S : S = StackBlock
    OBVIOUS
  <2>2. bs \in Seq(S) /\ n = Len(bs)
    BY <1>1, <1>7, <2>1
  <2>3. cs \in Seq(S) /\ Len(cs) = n - 1
    BY ONLY <1>8, <2>2
  <2>4. \A k \in 1 .. n - 1 : cs[k] = bs[k]
    BY ONLY <1>8, <2>2
  <2> QED
    BY ONLY <2>1, <2>3, <2>4
<1>10. PICK ms : ms = w.labels
  OBVIOUS
<1>11. Len(ms) = n - 1 /\ \A k \in 1 .. n - 1 : ms[k] = v.labels[k]
  <2>1. v.labels \in Seq(ValidatorLabel) /\ ms = SubSeq(v.labels, 1, n - 1)
    BY <1>6, <1>10 DEF ReaderInv, Validator
  <2> QED
    BY <1>1, <2>1
<1>12. Fits(cs, ms)
  <2>1. PICK ls : ls = v.labels
    OBVIOUS
  <2>2. Fits(bs, ls) /\ Len(bs) = n
    BY <1>1, <1>7, <2>1 DEF Tracks
  <2>3. \A k \in 1 .. n - 1 : cs[k] = bs[k] /\ ms[k] = ls[k]
    BY ONLY <1>9, <1>11, <2>1
  <2> QED
    BY ONLY <1>9, <1>11, <2>2, <2>3, <1>1, FitsClosed
<1>13. PICK is : is = [i \in DOMAIN L.instructions |->
                         patched(L.instructions[i], i - 1, b, len(L))]
  OBVIOUS
<1>14. PICK bt : bt = [i \in DOMAIN L.br_targets |->
                         patched_arm(L.br_targets[i], i - 1, b, len(L))]
  OBVIOUS
<1>15. IsSeq(is) /\ IsSeq(bt)
  <2>1. /\ DOMAIN L.instructions = 1 .. Len(L.instructions) /\ Len(L.instructions) \in Nat
        /\ DOMAIN L.br_targets = 1 .. Len(L.br_targets) /\ Len(L.br_targets) \in Nat
    BY DEF Tracks, Formed, IsSeq
  <2> QED
    BY <1>13, <1>14, <2>1, MappedIsSeq
<1>16. PICK P : P = [L EXCEPT !.inner = cs, !.instructions = is, !.br_targets = bt]
  OBVIOUS
<1>17. Formed(P) /\ P.inner = cs
  <2>1. /\ DOMAIN P = DOMAIN L
        /\ P.inner = cs /\ P.curr_height = L.curr_height /\ P.max_height = L.max_height
        /\ P.br_targets = bt /\ P.instructions = is
    BY <1>16 DEF Tracks, Formed
  <2> QED
    BY <1>9, <1>15, <2>1 DEF Tracks, Formed
<1>18. PICK h \in Int : h = b.recorded_height + b.results
  BY BlockFields
<1>19. ASSUME P.inner # <<>>, ~curr_block(P).is_unreachable_traversing
       PROVE  h = w.height
  <2>1. n - 1 \in Nat \ {0}
    BY <1>9, <1>17, <1>19
  <2>2. curr_block(P) = bs[n - 1]
    BY <1>9, <1>17, <2>1 DEF curr_block, current
  <2>3. ~bs[n].has_inherited
    <3>1. SUFFICES ASSUME bs[n].has_inherited
                   PROVE  FALSE
      OBVIOUS
    <3>2. Fits(bs, v.labels) /\ Len(bs) = n
      BY <1>1, <1>7 DEF Tracks
    <3>3. PICK m \in Nat \ {0} : m = n - 1
      BY <2>1
    <3>4. FitsAt(bs, v.labels[n], n)
      BY <3>2 DEF Fits
    <3>5. PICK j \in 1 .. m : bs[j].is_unreachable_traversing
      BY <3>1, <3>3, <3>4 DEF FitsAt
    <3>6. m \in j .. n /\ j \in 1 .. n
      BY <3>3
    <3>7. bs[m].is_unreachable_traversing
      BY <3>2, <3>5, <3>6, DeadWithin
    <3> QED
      BY <1>19, <2>2, <3>3, <3>7
  <2>4. b.recorded_height = t.height
    BY <1>2, <1>4, <1>7, <2>3
  <2> QED
    BY <1>4, <1>6, <1>18, <2>4
<1>20. Tracks(set_height(P, h), w)
  <2>1. Fits(P.inner, w.labels)
    BY <1>10, <1>12, <1>17
  <2> QED
    BY <1>17, <1>19, <2>1, SetTracks
<1>21. LowerEnd(L) = push(set_height(P, h), EndInstr(b))
  <2>1. current(L) = n /\ curr_block(L) = b
    BY <1>1, <1>2 DEF current
  <2> QED
    BY <1>7, <1>8, <1>13, <1>14, <1>16, <1>18, <2>1 DEF LowerEnd
<1> QED
  BY <1>5, <1>20, <1>21, PushTracks

-----------------------------------------------------------------------------
(* The branches.                                                            *)

LEMMA JumpTracks ==
  ASSUME NEW L, NEW v, Tracks(L, v), NEW k \in 1 .. Len(L.inner), NEW op
  PROVE  Tracks(JumpTo(L, op, k), v)
<1>1. PICK A : A = attach(L, k, Unset)
  OBVIOUS
<1>2. Unset \in Int /\ Formed(L)
  BY DEF Unset, Tracks
<1>3. Tracks(A, v)
  BY <1>1, <1>2, AttachAlike, AlikeTracks
<1> QED
  BY <1>1, <1>3, PushTracks DEF JumpTo

(* The label a branch names is open.                                        *)
LEMMA BranchDepth ==
  ASSUME NEW L, NEW v, Tracks(L, v), ReaderInv(v), v.labels # <<>>,
         NEW d \in Nat, d < Len(v.labels)
  PROVE  block_at(L, d) \in 1 .. Len(L.inner)
<1>1. PICK n \in Nat : n = Len(L.inner) /\ n = Len(v.labels)
  BY Innermosts
<1> QED
  BY <1>1 DEF block_at, current

LEMMA BrTracks ==
  ASSUME NEW L, NEW v, Tracks(L, v), ReaderInv(v), v.labels # <<>>,
         NEW o, IsOperator(o), o.op = "Br", Allowed(v, o)
  PROVE  Tracks(LowerBr(L, o.x), Validated(v, o))
<1>1. o.x \in Nat /\ o.x < Len(v.labels)
  BY AllowedCases DEF IsOperator, Depths
<1>2. Tracks(JumpTo(L, "Br", block_at(L, o.x)), v)
  BY <1>1, BranchDepth, JumpTracks
<1> QED
  BY <1>2, MarkTracks, ValidatedCases DEF LowerBr

LEMMA BrIfTracks ==
  ASSUME NEW L, NEW v, Tracks(L, v), ReaderInv(v), v.labels # <<>>,
         NEW o, IsOperator(o), o.op = "BrIf", Allowed(v, o)
  PROVE  Tracks(LowerBrIf(L, o.x), Validated(v, o))
<1>1. PICK d \in Nat : d = o.x
  BY DEF IsOperator
<1>2. d < Len(v.labels)
  BY <1>1, AllowedCases DEF Depths
<1>3. Tracks(JumpTo(L, "BrIf", block_at(L, d)), v)
  BY <1>2, BranchDepth, JumpTracks
<1>4. PICK i \in Nat : i = 1
  OBVIOUS
<1>5. PICK z \in Nat : z = 0
  OBVIOUS
<1>6. CanPop(v, i)
  <2>1. PICK a \in {0, 1, 2} : CanPop(v, a + 1)
    <3>1. \E a \in {0, 1, 2} : \A x \in Depths(o) :
            CanPop(v, a + IF o.op = "Br" THEN 0 ELSE 1)
      BY AllowedCases
    <3>2. d \in Depths(o)
      BY <1>1 DEF Depths
    <3> QED
      BY <3>1, <3>2
  <2>2. v.height \in Nat /\ Innermost(v).height \in Nat
    BY InnermostIsLabel
  <2> QED
    BY <1>4, <2>1, <2>2 DEF CanPop
<1>7. Tracks(apply_stack_effects_to_height(JumpTo(L, "BrIf", block_at(L, d)), i, z),
             Effect(v, i, z))
  BY <1>3, <1>6, EffectTracks
<1> QED
  BY <1>1, <1>4, <1>5, <1>7, ValidatedCases DEF LowerBrIf

LEMMA ReturnTracks ==
  ASSUME NEW L, NEW v, Tracks(L, v), ReaderInv(v), v.labels # <<>>,
         NEW o, IsOperator(o), o.op = "Return"
  PROVE  Tracks(LowerReturn(L), Validated(v, o))
<1>1. 1 \in 1 .. Len(L.inner)
  BY Innermosts
<1>2. Tracks(JumpTo(L, "Return", 1), v)
  BY <1>1, JumpTracks
<1> QED
  BY <1>2, MarkTracks, ValidatedCases DEF LowerReturn

LEMMA TrapTracks ==
  ASSUME NEW L, NEW v, Tracks(L, v), ReaderInv(v), v.labels # <<>>,
         NEW o, IsOperator(o), o.op = "Unreachable"
  PROVE  Tracks(LowerUnreachable(L), Validated(v, o))
<1>1. Tracks(set_unreachable_traversing(L), MarkUnreachable(v))
  BY MarkTracks
<1> QED
  BY <1>1, PushTracks, ValidatedCases DEF LowerUnreachable


-----------------------------------------------------------------------------
(* br_table: its arms are attached one after another.                       *)

ArmAttached(A, L, depths, i) ==
  attach(A, block_at(L, depths[i]), Len(L.br_targets) + i - 1)

IsArms(f, L, depths, n) ==
  f = [k \in 0 .. n |-> IF k = 0 THEN L ELSE ArmAttached(f[k - 1], L, depths, k)]

LEMMA ArmsExist ==
  ASSUME NEW L, NEW depths, NEW n \in Nat
  PROVE  \E f : IsArms(f, L, depths, n)
<1> DEFINE S == {m \in Nat : \E f : IsArms(f, L, depths, m)}
<1>1. 0 \in S
  <2>1. IsArms([k \in 0 .. 0 |-> L], L, depths, 0)
    BY DEF IsArms
  <2> QED
    BY <2>1
<1>2. ASSUME NEW m \in Nat, m \in S
      PROVE  m + 1 \in S
  <2>1. PICK f : IsArms(f, L, depths, m)
    BY <1>2
  <2> DEFINE g == [k \in 0 .. m + 1 |->
                     IF k \in 0 .. m THEN f[k] ELSE ArmAttached(f[m], L, depths, m + 1)]
  <2>2. \A k \in 0 .. m : g[k] = f[k]
    OBVIOUS
  <2>3. \A k \in 0 .. m + 1 : g[k] = IF k = 0 THEN L ELSE ArmAttached(g[k - 1], L, depths, k)
    <3>1. SUFFICES ASSUME NEW k \in 0 .. m + 1
                   PROVE  g[k] = IF k = 0 THEN L ELSE ArmAttached(g[k - 1], L, depths, k)
      OBVIOUS
    <3>2. CASE k = m + 1
      <4>1. k - 1 = m /\ k # 0 /\ k \notin 0 .. m /\ m \in 0 .. m
        BY <3>2
      <4>2. g[k] = ArmAttached(f[m], L, depths, m + 1)
        BY <3>1, <4>1
      <4> QED
        BY <2>2, <4>1, <4>2
    <3>3. CASE k \in 0 .. m
      <4>1. f[k] = IF k = 0 THEN L ELSE ArmAttached(f[k - 1], L, depths, k)
        BY <2>1, <3>3 DEF IsArms
      <4>2. k # 0 => k - 1 \in 0 .. m
        BY <3>3
      <4> QED
        BY <2>2, <3>3, <4>1, <4>2
    <3> QED
      BY <3>1, <3>2, <3>3
  <2>4. PICK h : h = g
    OBVIOUS
  <2>5. IsArms(h, L, depths, m + 1)
    <3>1. h = [k \in 0 .. m + 1 |-> h[k]]
      BY <2>4
    <3>2. \A k \in 0 .. m + 1 : h[k] = IF k = 0 THEN L ELSE ArmAttached(h[k - 1], L, depths, k)
      BY <2>3, <2>4
    <3> QED
      BY <3>1, <3>2 DEF IsArms
  <2> QED
    BY <2>5
<1>3. Nat \subseteq S
  <2> HIDE DEF S
  <2> QED
    BY <1>1, <1>2, CountingUp
<1> QED
  BY <1>3

LEMMA AlikeChain ==
  ASSUME NEW L, NEW A, NEW M, AlikeBlocks(L, A), AlikeBlocks(A, M)
  PROVE  AlikeBlocks(L, M)
BY DEF AlikeBlocks, SameBlocks

LEMMA ArmsAlike ==
  ASSUME NEW L, Formed(L), NEW depths, NEW n \in Nat,
         \A i \in 1 .. n : block_at(L, depths[i]) \in 1 .. Len(L.inner),
         NEW f, IsArms(f, L, depths, n)
  PROVE  AlikeBlocks(L, f[n])
<1> DEFINE S == {k \in 0 .. n : AlikeBlocks(L, f[k])}
<1>1. 0 \in S
  BY DEF IsArms, AlikeBlocks, SameBlocks
<1>2. ASSUME NEW k \in 0 .. n, k \in S, k < n
      PROVE  k + 1 \in S
  <2>1. PICK i \in Nat : i = k + 1
    OBVIOUS
  <2>2. i \in 1 .. n /\ i \in 0 .. n /\ f[i] = ArmAttached(f[k], L, depths, i)
    BY <1>2, <2>1 DEF IsArms
  <2>3. AlikeBlocks(L, f[k])
    BY <1>2
  <2>4. PICK j \in 1 .. Len(L.inner) : j = block_at(L, depths[i])
    BY <2>2
  <2>5. j \in 1 .. Len(f[k].inner) /\ Formed(f[k])
    BY <2>3 DEF AlikeBlocks, SameBlocks
  <2>6. PICK slot \in Int : slot = Len(L.br_targets) + i - 1
    BY DEF Formed, IsSeq
  <2>7. f[i] = attach(f[k], j, slot)
    BY <2>2, <2>4, <2>6 DEF ArmAttached
  <2>8. AlikeBlocks(f[k], f[i])
    BY <2>5, <2>7, AttachAlike
  <2>9. AlikeBlocks(L, f[i])
    BY <2>3, <2>8, AlikeChain
  <2> QED
    BY <2>1, <2>2, <2>9
<1>3. 0 .. n \subseteq S
  <2> HIDE DEF S
  <2> QED
    BY <1>1, <1>2, CountingTo
<1> QED
  BY <1>3

(* What is made of them: their targets, and one instruction.                *)
TableFrom(L, A, n, g, x) ==
  set_unreachable_traversing(
    push([A EXCEPT !.br_targets = L.br_targets \o [i \in 1 .. n |-> g[i]]], x))

arm_at(L, depths, i) ==
  LET b == L.inner[block_at(L, depths[i])]
  IN  Jump("Arm", branch_target(b), branch_arity(b), b.recorded_height)

IsTable(M, L, depths, n) ==
  \E f, g : /\ IsArms(f, L, depths, n)
            /\ \A i \in 1 .. n : g[i] = arm_at(L, depths, i)
            /\ M = TableFrom(L, f[n], n, g, BrTableInstr(Len(L.br_targets), n))

LEMMA TableDefined ==
  ASSUME NEW L, NEW depths, NEW n \in Nat, n = Len(depths)
  PROVE  IsTable(LowerBrTable(L, depths), L, depths, n)
<1> DEFINE c == CHOOSE f : IsArms(f, L, depths, n)
           g == [i \in 1 .. n |-> arm_at(L, depths, i)]
<1>1. IsArms(c, L, depths, n)
  BY ArmsExist
<1>2. LowerBrTable(L, depths) =
        set_unreachable_traversing(
          push([c[n] EXCEPT !.br_targets = L.br_targets \o g], BrTableInstr(Len(L.br_targets), n)))
  BY DEF LowerBrTable, IsArms, ArmAttached, arm_at
<1>3. PICK q : q = g
  OBVIOUS
<1>4. [i \in 1 .. n |-> q[i]] = g /\ \A i \in 1 .. n : q[i] = arm_at(L, depths, i)
  BY <1>3
<1> HIDE DEF c, g
<1>5. LowerBrTable(L, depths) = TableFrom(L, c[n], n, q, BrTableInstr(Len(L.br_targets), n))
  BY <1>2, <1>4 DEF TableFrom
<1> QED
  BY <1>1, <1>4, <1>5 DEF IsTable

LEMMA JoinedIsSeq ==
  ASSUME NEW q, IsSeq(q), NEW n \in Nat, NEW g
  PROVE  IsSeq(q \o [i \in 1 .. n |-> g[i]])
<1>1. PICK r : r = [i \in 1 .. n |-> g[i]]
  OBVIOUS
<1> DEFINE S == {q[i] : i \in 1 .. Len(q)} \cup {r[i] : i \in 1 .. n}
<1>2. q \in [1 .. Len(q) -> S] /\ Len(q) \in Nat /\ r \in [1 .. n -> S]
  BY <1>1 DEF IsSeq
<1>3. q \in Seq(S) /\ r \in Seq(S)
  BY SMTT(30), <1>2
<1> HIDE DEF S
<1>7. q \o r \in Seq(S)
  BY <1>3
<1>4. PICK t \in Seq(S) : t = q \o r
  BY <1>7
<1>5. Len(t) \in Nat /\ t \in [1 .. Len(t) -> S]
  OBVIOUS
<1>6. IsSeq(t)
  BY <1>5 DEF IsSeq
<1> QED
  BY <1>1, <1>4, <1>6

LEMMA BrTableTracks ==
  ASSUME NEW L, NEW v, Tracks(L, v), ReaderInv(v), v.labels # <<>>,
         NEW o, IsOperator(o), o.op = "BrTable", Allowed(v, o)
  PROVE  Tracks(LowerBrTable(L, o.arms), Validated(v, o))
<1>1. PICK depths \in Seq(Nat) : depths = o.arms
  BY DEF IsOperator
<1>2. PICK n \in Nat : n = Len(depths)
  OBVIOUS
<1>3. \A i \in 1 .. n : depths[i] \in Nat /\ depths[i] < Len(v.labels)
  <2>1. \A d \in Depths(o) : d < Len(v.labels)
    BY AllowedCases
  <2>2. \A i \in 1 .. n : depths[i] \in Depths(o) /\ depths[i] \in Nat
    BY <1>1, <1>2 DEF Depths
  <2> QED
    BY <2>1, <2>2
<1>4. \A i \in 1 .. n : block_at(L, depths[i]) \in 1 .. Len(L.inner)
  BY <1>3, BranchDepth
<1>5. PICK f, g : /\ IsArms(f, L, depths, n)
                  /\ LowerBrTable(L, depths) =
                       TableFrom(L, f[n], n, g, BrTableInstr(Len(L.br_targets), n))
  <2>1. IsTable(LowerBrTable(L, depths), L, depths, n)
    BY <1>2, TableDefined
  <2> QED
    BY <2>1 DEF IsTable
<1>6. PICK x : LowerBrTable(L, depths) = TableFrom(L, f[n], n, g, x)
  BY <1>5
<1>7. PICK A : A = f[n]
  OBVIOUS
<1>8. AlikeBlocks(L, A)
  BY <1>4, <1>5, <1>7, ArmsAlike DEF Tracks
<1>9. PICK q : q = L.br_targets \o [i \in 1 .. n |-> g[i]]
  OBVIOUS
<1>10. IsSeq(q)
  BY <1>9, JoinedIsSeq DEF Tracks, Formed
<1>11. PICK T : T = [A EXCEPT !.br_targets = q]
  OBVIOUS
<1>12. SameHeights(A, T)
  <2>1. /\ DOMAIN T = DOMAIN A
        /\ T.inner = A.inner /\ T.curr_height = A.curr_height /\ T.max_height = A.max_height
        /\ T.br_targets = q /\ T.instructions = A.instructions
    BY <1>8, <1>11 DEF AlikeBlocks, Formed
  <2> QED
    BY <1>8, <1>10, <2>1 DEF AlikeBlocks, Formed, SameHeights
<1>13. Tracks(T, v)
  BY <1>8, <1>12, AlikeTracks, SameHeightsTracks
<1>14. LowerBrTable(L, depths) = set_unreachable_traversing(push(T, x))
  BY <1>6, <1>7, <1>9, <1>11 DEF TableFrom
<1> QED
  BY <1>1, <1>13, <1>14, PushTracks, MarkTracks, ValidatedCases


-----------------------------------------------------------------------------
(* The pass.                                                                *)

LEMMA PlainTracks ==
  ASSUME NEW L, NEW v, Tracks(L, v), ReaderInv(v), v.labels # <<>>,
         NEW o, IsOperator(o), Plain(o), Allowed(v, o)
  PROVE  Tracks(LowerPlain(L, o), Validated(v, o))
<1>1. PICK popped \in Nat, pushed \in Nat : popped = Arity[o.op][1] /\ pushed = Arity[o.op][2]
  BY ArityShape DEF Plain
<1>2. CanPop(v, popped) /\ Validated(v, o) = Effect(v, popped, pushed)
  BY <1>1, AllowedCases, ValidatedCases
<1>3. Tracks(apply_stack_effects_to_height(L, popped, pushed), Validated(v, o))
  BY <1>2, EffectTracks
<1> QED
  BY <1>1, <1>3, PushTracks DEF LowerPlain

LEMMA CallTracks ==
  ASSUME NEW L, NEW v, Tracks(L, v), ReaderInv(v), v.labels # <<>>,
         NEW o, IsOperator(o), IsCall(o), Allowed(v, o)
  PROVE  /\ o.op = "Call" => Tracks(LowerCall(L, o), Validated(v, o))
         /\ o.op = "CallIndirect" => Tracks(LowerCallIndirect(L, o), Validated(v, o))
<1>1. PICK popped \in Nat, pushed \in Nat : popped = CallPops(o) /\ pushed = o.ty[2]
  BY OperatorCases
<1>2. CanPop(v, popped) /\ Validated(v, o) = Effect(v, popped, pushed)
  BY <1>1, AllowedCases, ValidatedCases
<1>3. Tracks(apply_stack_effects_to_height(L, popped, pushed), Validated(v, o))
  BY <1>2, EffectTracks
<1>4. o.ty[1] \in Nat
  BY OperatorCases
<1>5. /\ o.op = "Call" => popped = o.ty[1]
      /\ o.op = "CallIndirect" => popped = 1 + o.ty[1]
  BY <1>1, <1>4 DEF CallPops
<1> QED
  BY <1>1, <1>3, <1>5, PushTracks DEF LowerCall, LowerCallIndirect

(* What reading an operator gives.                                          *)
LEMMA ReadGives ==
  ASSUME HeightInv, NEW o \in Alphabets[alphabet].ops, Reads(o)
  PROVE  /\ IsOperator(o) /\ Allowed(valid, o) /\ valid.labels # <<>>
         /\ ReaderInv(valid) /\ Tracks(lowering, valid)
         /\ valid' = Validated(valid, o) /\ ReaderInv(valid')
         /\ alphabet' = alphabet /\ alphabet \in DOMAIN Alphabets
<1>1. IsOperator(o)
  BY AlphabetsAssumption DEF HeightInv
<1>2. /\ Allowed(valid, o) /\ valid.labels # <<>>
      /\ valid' = Validated(valid, o) /\ alphabet' = alphabet
  BY DEF Reads, ReadsOperator
<1>3. ReaderInv(Validated(valid, o))
  BY <1>1, <1>2, ValidatedInv DEF HeightInv
<1> QED
  BY <1>1, <1>2, <1>3 DEF HeightInv

LEMMA LowerKeeps ==
  ASSUME HeightInv, NEW o \in Alphabets[alphabet].ops, Lower(o)
  PROVE  HeightInv'
<1>1. Reads(o)
  BY DEF Lower, Plainly, Call, CallIndirect, Block, If, Else, End, Br, BrIf, BrTable, Return, Trap
<1>2. /\ IsOperator(o) /\ Allowed(valid, o) /\ valid.labels # <<>>
      /\ ReaderInv(valid) /\ Tracks(lowering, valid)
  BY <1>1, ReadGives
<1>3. PICK L : L = lowering
  OBVIOUS
<1>4. PICK v : v = valid
  OBVIOUS
<1>5. PICK w : w = Validated(v, o)
  OBVIOUS
<1>6. /\ Tracks(L, v) /\ ReaderInv(v) /\ v.labels # <<>> /\ Allowed(v, o)
  BY <1>2, <1>3, <1>4
<1>7. PICK M : M = lowering'
  OBVIOUS
<1>8. Tracks(M, w)
  <2>1. CASE Plainly(o)
    BY <1>2, <1>3, <1>5, <1>6, <1>7, <2>1, PlainTracks DEF Plainly
  <2>2. CASE Call(o)
    BY <1>2, <1>3, <1>5, <1>6, <1>7, <2>2, CallTracks DEF Call, IsCall
  <2>3. CASE CallIndirect(o)
    BY <1>2, <1>3, <1>5, <1>6, <1>7, <2>3, CallTracks DEF CallIndirect, IsCall
  <2>4. CASE Block(o)
    BY <1>2, <1>3, <1>5, <1>6, <1>7, <2>4, BlockTracks DEF Block
  <2>5. CASE If(o)
    BY <1>2, <1>3, <1>5, <1>6, <1>7, <2>5, IfTracks DEF If
  <2>6. CASE Else(o)
    BY <1>2, <1>3, <1>5, <1>6, <1>7, <2>6, ElseTracks DEF Else
  <2>7. CASE End(o)
    BY <1>2, <1>3, <1>5, <1>6, <1>7, <2>7, EndTracks DEF End
  <2>8. CASE Br(o)
    BY <1>2, <1>3, <1>5, <1>6, <1>7, <2>8, BrTracks DEF Br
  <2>9. CASE BrIf(o)
    BY <1>2, <1>3, <1>5, <1>6, <1>7, <2>9, BrIfTracks DEF BrIf
  <2>10. CASE BrTable(o)
    BY <1>2, <1>3, <1>5, <1>6, <1>7, <2>10, BrTableTracks DEF BrTable
  <2>11. CASE Return(o)
    BY <1>2, <1>3, <1>5, <1>6, <1>7, <2>11, ReturnTracks DEF Return
  <2>12. CASE Trap(o)
    BY <1>2, <1>3, <1>5, <1>6, <1>7, <2>12, TrapTracks DEF Trap
  <2> QED
    BY <2>1, <2>2, <2>3, <2>4, <2>5, <2>6, <2>7, <2>8, <2>9, <2>10, <2>11, <2>12 DEF Lower
<1>9. /\ alphabet' = alphabet /\ alphabet \in DOMAIN Alphabets
      /\ valid' = w /\ ReaderInv(valid')
  BY <1>1, <1>4, <1>5, ReadGives
<1> QED
  BY <1>7, <1>8, <1>9 DEF HeightInv

LEMMA HeightStarts ==
  ASSUME Start
  PROVE  HeightInv
<1>1. alphabet \in DOMAIN Alphabets /\ valid = NewValidator /\ lowering = NewLowering
  BY DEF Start, Init, ReaderInit
<1>2. ReaderInv(valid)
  BY <1>1, NewValidatorInv
<1>3. PICK b : b = NewBlock("Func", 0, 0, 0, ResultsCount, FALSE)
  OBVIOUS
<1>4. /\ b \in StackBlock /\ b.recorded_height = 0 /\ b.params = 0
      /\ b.results = ResultsCount /\ b.has_inherited = FALSE
      /\ b.is_unreachable_traversing = FALSE
  <2>1. "Func" \in LabelKinds /\ <<>> \in Seq(Nat \X Int) /\ Unset \in Int
    BY DEF LabelKinds, Unset
  <2> QED
    BY <1>3, <2>1, ResultsAssumption DEF NewBlock, StackBlock
<1>5. PICK bs : bs = <<b>>
  OBVIOUS
<1>6. /\ DOMAIN lowering = {"inner", "curr_height", "max_height", "instructions", "br_targets"}
      /\ lowering.inner = bs /\ lowering.curr_height = 0 /\ lowering.max_height = 0
      /\ lowering.instructions = <<>> /\ lowering.br_targets = <<>>
  BY <1>1, <1>3, <1>5 DEF NewLowering
<1>7. Formed(lowering)
  <2>1. IsSeq(<<>>)
    BY DEF IsSeq
  <2> QED
    BY <1>4, <1>5, <1>6, <2>1 DEF Formed
<1>8. PICK l : l = Label("Func", 0, 0, ResultsCount)
  OBVIOUS
<1>9. /\ l.height = 0 /\ l.params = 0 /\ l.results = ResultsCount /\ l.unreachable = FALSE
  BY <1>8 DEF Label
<1>10. PICK ls : ls = <<l>>
  OBVIOUS
<1>11. valid.height = 0 /\ valid.labels = ls
  BY <1>1, <1>8, <1>10 DEF NewValidator
<1>12. Len(bs) = 1 /\ bs[1] = b /\ Len(ls) = 1 /\ ls[1] = l
  BY <1>5, <1>10
<1>13. FitsAt(bs, l, 1)
  <2>1. 1 .. 1 - 1 = {}
    OBVIOUS
  <2>2. ~ \E j \in 1 .. 1 - 1 : bs[j].is_unreachable_traversing
    BY <2>1
  <2> QED
    BY <1>4, <1>9, <1>12, <2>2 DEF FitsAt
<1>14. Fits(bs, ls)
  <2>1. \A k \in 1 .. Len(bs) : k = 1
    BY <1>12
  <2> QED
    BY ONLY <1>12, <1>13, <2>1 DEF Fits
<1> QED
  BY <1>1, <1>2, <1>6, <1>7, <1>11, <1>14 DEF HeightInv, Tracks

LEMMA HeightGoesOn ==
  ASSUME HeightInv, [Next]_vars
  PROVE  HeightInv'
<1>1. CASE Lowering
  BY <1>1, LowerKeeps DEF Lowering
<1>2. CASE UNCHANGED <<alphabet, valid, lowering>>
  BY <1>2 DEF HeightInv
<1>3. Finishing => UNCHANGED <<alphabet, valid, lowering>>
  BY DEF Finishing, Finish, readerVars
<1>4. Invoke => UNCHANGED <<alphabet, valid, lowering>>
  BY DEF Invoke, loweringVars, readerVars
<1>5. Execute => UNCHANGED loweringVars
  BY DEF Execute, Const, LocalGet, LocalSet, LocalTee, GlobalGet, GlobalSet, Numeric, Drop,
         Marker, ImportedCall, LocalCall, CallTrap, UnreachableStep, IfStep, ElseStep, BrStep,
         BrIfStep, BrTableStep, Returns, Next1, Goto, Trapped
<1>6. UNCHANGED vars => UNCHANGED loweringVars
  BY DEF vars
<1>7. UNCHANGED loweringVars => UNCHANGED <<alphabet, valid, lowering>>
  BY DEF loweringVars, readerVars
<1> QED
  BY <1>1, <1>2, <1>3, <1>4, <1>5, <1>6, <1>7 DEF Next

-----------------------------------------------------------------------------
(* The theorems.                                                            *)

(* What every state keeps: the control stack follows the validator's        *)
(* labels, curr_height is the validator's height in code that can run, and  *)
(* max_height is never below it.                                            *)
THEOREM HeightsAreTracked == Spec => []HeightInv
<1>1. Start => HeightInv
  BY HeightStarts
<1>2. HeightInv /\ [Next]_vars => HeightInv'
  BY HeightGoesOn
<1> QED
  BY <1>1, <1>2, PTL DEF Spec

(* set_height and apply_stack_effects_to_height skip dead code only, and    *)
(* has_inherited keeps a block dead exactly when one around it is: every    *)
(* block the validator reached is recorded at its height, and the height    *)
(* of live code is the validator's.                                         *)
THEOREM StackHeightsMatchValidator == Spec => []StackHeightsAgree
<1>1. HeightInv => StackHeightsAgree
  <2>1. SUFFICES ASSUME HeightInv
                 PROVE  StackHeightsAgree
    OBVIOUS
  <2>2. PICK bs \in Seq(StackBlock) : bs = lowering.inner
    BY <2>1 DEF HeightInv, Tracks, Formed
  <2>3. Fits(bs, valid.labels) /\ Len(bs) = Len(valid.labels) /\ DOMAIN bs = 1 .. Len(bs)
    BY <2>1, <2>2 DEF HeightInv, Tracks, Fits
  <2>4. \A k \in DOMAIN bs : FitsAt(bs, valid.labels[k], k)
    BY <2>3 DEF Fits
  <2>5. valid.labels # <<>> /\ ~curr_block(lowering).is_unreachable_traversing =>
          lowering.curr_height = valid.height
    BY <2>1, Innermosts DEF HeightInv
  <2> QED
    BY <2>2, <2>3, <2>4, <2>5 DEF StackHeightsAgree, FitsAt
<1> QED
  BY <1>1, HeightsAreTracked, PTL

-----------------------------------------------------------------------------
(* Where the branches go.  Nest says of every open block which operator     *)
(* opened it, and Lands of every jump emitted so far that it knows its      *)
(* target or that one open block, the right one, waits to fill it in.       *)

Pairs(b) == Range(b.attached_breaks)

(* Operator i's own jump, or the arm in that slot of the flat array.        *)
Waits(b, i, slot) ==
  IF slot = Unset THEN <<i - 1, Unset>> \in Pairs(b) ELSE \E a \in Pairs(b) : a[2] = slot

Awaited(bs, i, slot) == {k \in 1 .. Len(bs) : Waits(bs[k], i, slot)}

(* t is where operator i goes when it leaves for level k: at once for a     *)
(* loop, known since the end of a block that closed, otherwise owed by the  *)
(* block of that level and by no other.                                     *)
Lands(q, bs, t, i, slot, k) ==
  \E p \in 0 .. i - 1 :
    /\ OpenAt(q, p, i - 1, k)
    /\ \/ IsLoop(q, p) /\ t = p - 1 /\ Awaited(bs, i, slot) = {}
       \/ ~IsLoop(q, p) /\ OpenAt(q, p, Len(q), k) /\ Awaited(bs, i, slot) = {k}
       \/ /\ ~IsLoop(q, p) /\ Awaited(bs, i, slot) = {}
          /\ \E e \in i .. Len(q) : ClosedAt(q, p, e, k) /\ t = e - 1

(* An operator that closes no label leaves every jump where it is.          *)
LEMMA LandsStill ==
  ASSUME NEW q, IsSeq(q), NEW o, o.op # "End", NEW r, r = Append(q, o),
         NEW i \in 1 .. Len(q), NEW slot, NEW k, NEW t,
         NEW bs, NEW cs, Awaited(cs, i, slot) = Awaited(bs, i, slot),
         Lands(q, bs, t, i, slot, k)
  PROVE  Lands(r, cs, t, i, slot, k)
<1>1. PICK n \in Nat : n = Len(q)
  BY DEF IsSeq
<1>2. Len(r) = n + 1
  BY <1>1, AppendReads
<1>3. PICK p \in 0 .. i - 1 :
        /\ OpenAt(q, p, i - 1, k)
        /\ \/ IsLoop(q, p) /\ t = p - 1 /\ Awaited(bs, i, slot) = {}
           \/ ~IsLoop(q, p) /\ OpenAt(q, p, n, k) /\ Awaited(bs, i, slot) = {k}
           \/ /\ ~IsLoop(q, p) /\ Awaited(bs, i, slot) = {}
              /\ \E e \in i .. n : ClosedAt(q, p, e, k) /\ t = e - 1
  BY <1>1 DEF Lands
<1>4. OpenAt(r, p, i - 1, k)
  BY <1>3, OpenExtends
<1>5. IsLoop(r, p) = IsLoop(q, p)
  <2>1. p \in 0 .. Len(q)
    BY <1>1, <1>3
  <2> QED
    BY <2>1, LoopExtends
<1>6. ASSUME OpenAt(q, p, n, k)
      PROVE  OpenAt(r, p, n + 1, k)
  BY ZenonT(30), <1>1, <1>2, <1>6, OpenStill
<1>7. ASSUME NEW e \in i .. n, ClosedAt(q, p, e, k)
      PROVE  e \in i .. n + 1 /\ ClosedAt(r, p, e, k)
  <2>1. ClosedAt(r, p, e, k)
    BY <1>7, ClosedExtends
  <2> QED
    BY <2>1
<1> QED
  BY <1>2, <1>3, <1>4, <1>5, <1>6, <1>7 DEF Lands

(* An End sets the jumps that wait for its block, and leaves the others.    *)
LEMMA LandsAtEnd ==
  ASSUME NEW q, IsSeq(q), NEW o, o.op = "End", NEW r, r = Append(q, o),
         NEW m \in Nat, m = DepthAt(q)[Len(q)],
         NEW i \in 1 .. Len(q), NEW slot, NEW k, NEW t,
         NEW bs, NEW cs, Awaited(cs, i, slot) = Awaited(bs, i, slot) \ {m},
         NEW u, u = (IF m \in Awaited(bs, i, slot) THEN Len(q) ELSE t),
         Lands(q, bs, t, i, slot, k)
  PROVE  Lands(r, cs, u, i, slot, k)
<1>1. PICK n \in Nat : n = Len(q)
  BY DEF IsSeq
<1>2. Len(r) = n + 1
  BY <1>1, AppendReads
<1>3. PICK p \in 0 .. i - 1 :
        /\ OpenAt(q, p, i - 1, k)
        /\ \/ IsLoop(q, p) /\ t = p - 1 /\ Awaited(bs, i, slot) = {}
           \/ ~IsLoop(q, p) /\ OpenAt(q, p, n, k) /\ Awaited(bs, i, slot) = {k}
           \/ /\ ~IsLoop(q, p) /\ Awaited(bs, i, slot) = {}
              /\ \E e \in i .. n : ClosedAt(q, p, e, k) /\ t = e - 1
  BY <1>1 DEF Lands
<1>4. OpenAt(r, p, i - 1, k)
  BY <1>3, OpenExtends
<1>5. IsLoop(r, p) = IsLoop(q, p)
  <2>1. p \in 0 .. Len(q)
    BY <1>1, <1>3
  <2> QED
    BY ZenonT(30), <2>1, LoopExtends
<1>6. CASE IsLoop(q, p) /\ t = p - 1 /\ Awaited(bs, i, slot) = {}
  <2>1. u = p - 1 /\ Awaited(cs, i, slot) = {}
    BY <1>6
  <2> QED
    BY <1>3, <1>4, <1>5, <1>6, <2>1 DEF Lands
<1>7. CASE ~IsLoop(q, p) /\ OpenAt(q, p, n, k) /\ Awaited(bs, i, slot) = {k}
  <2>1. PICK d : d = DepthAt(q)
    OBVIOUS
  <2>2. p \in 0 .. n /\ k \in Int /\ \A j \in p .. n : d[j] >= k /\ d[j] \in Int
    BY <1>1, <1>7, <2>1, OpenFacts
  <2>3. d[n] = m /\ n \in p .. n
    BY <1>1, <2>1, <2>2
  <2>4. k <= m
    BY <2>2, <2>3
  <2>5. CASE k = m
    <3>1. u = n /\ Awaited(cs, i, slot) = {}
      BY <1>1, <1>7, <2>5
    <3>2. ClosedAt(r, p, n + 1, k)
      BY <1>1, <1>7, <2>1, <2>3, <2>5, OpenGrows
    <3>3. n + 1 \in i .. Len(r) /\ u = (n + 1) - 1
      BY <1>1, <1>2, <3>1
    <3> QED
      BY <1>3, <1>4, <1>5, <1>7, <3>1, <3>2, <3>3 DEF Lands
  <2>6. CASE k # m
    <3>1. Awaited(cs, i, slot) = {k}
      BY <1>7, <2>6
    <3>2. Delta(o) = -1
      BY DEF Delta, Opens, Openers
    <3>3. d[n] + Delta(o) >= k
      BY <2>2, <2>3, <2>4, <2>6, <3>2
    <3>4. OpenAt(r, p, n + 1, k)
      BY <1>1, <1>7, <2>1, <3>3, OpenGrows
    <3> QED
      BY <1>2, <1>3, <1>4, <1>5, <1>7, <3>1, <3>4 DEF Lands
  <2> QED
    BY <2>5, <2>6
<1>8. CASE /\ ~IsLoop(q, p) /\ Awaited(bs, i, slot) = {}
           /\ \E e \in i .. n : ClosedAt(q, p, e, k) /\ t = e - 1
  <2>1. u = t /\ Awaited(cs, i, slot) = {}
    BY <1>8
  <2>2. PICK e \in i .. n : ClosedAt(q, p, e, k) /\ t = e - 1
    BY <1>8
  <2>4. ClosedAt(r, p, e, k)
    BY <2>2, ClosedExtends
  <2>3. e \in i .. Len(r) /\ ClosedAt(r, p, e, k)
    BY <1>2, <2>4
  <2> QED
    BY <1>3, <1>4, <1>5, <1>8, <2>1, <2>2, <2>3 DEF Lands
<1> QED
  BY <1>3, <1>6, <1>7, <1>8

(* A jump just emitted.                                                     *)
LEMMA LandsNow ==
  ASSUME NEW q, IsSeq(q), NEW o, o.op \notin Openers \cup {"End"}, NEW r, r = Append(q, o),
         NEW p, NEW k, OpenAt(q, p, Len(q), k),
         NEW t, IsLoop(q, p) => t = p - 1,
         NEW cs, NEW slot,
         Awaited(cs, Len(q) + 1, slot) = (IF IsLoop(q, p) THEN {} ELSE {k})
  PROVE  Lands(r, cs, t, Len(q) + 1, slot, k)
<1>1. PICK n \in Nat : n = Len(q)
  BY DEF IsSeq
<1>2. Len(r) = n + 1
  BY <1>1, AppendReads
<1>3. PICK d : d = DepthAt(q)
  OBVIOUS
<1>4. p \in 0 .. n /\ k \in Int /\ \A j \in p .. n : d[j] >= k /\ d[j] \in Int
  BY <1>1, <1>3, OpenFacts
<1>5. n \in p .. n /\ p \in 0 .. (n + 1) - 1 /\ (n + 1) - 1 = n
  BY <1>4
<1>6. Delta(o) = 0
  BY DEF Delta, Opens
<1>7. d[n] + Delta(o) >= k
  BY <1>4, <1>5, <1>6
<1>8. OpenAt(r, p, n + 1, k)
  BY <1>1, <1>3, <1>7, OpenGrows
<1>9. OpenAt(r, p, (n + 1) - 1, k)
  BY ZenonT(30), <1>1, <1>5, OpenExtends
<1>10. IsLoop(r, p) = IsLoop(q, p)
  BY ZenonT(30), <1>1, <1>4, LoopExtends
<1> QED
  BY <1>1, <1>2, <1>5, <1>8, <1>9, <1>10 DEF Lands

-----------------------------------------------------------------------------
(* The open blocks and what waits in them, one operator more.               *)

(* What waits was emitted before index n, its slots are below s.            *)
Bounded(bs, n, s) ==
  \A k \in 1 .. Len(bs) : \A a \in Pairs(bs[k]) :
    a[1] \in 0 .. n - 1 /\ (a[2] = Unset \/ a[2] \in 0 .. s - 1)

SameFrames(bs, cs) ==
  /\ Len(cs) = Len(bs)
  /\ \A k \in 1 .. Len(bs) : /\ cs[k].kind = bs[k].kind /\ cs[k].index = bs[k].index
                             /\ cs[k].else_index = bs[k].else_index

(* The operator at index n asks the blocks in R, each under its slot, and   *)
(* loops answer at once.                                                    *)
Asked(bs, cs, n, R) ==
  /\ SameFrames(bs, cs)
  /\ \A k \in 1 .. Len(bs) : \A a :
       a \in Pairs(cs[k]) <=>
         \/ a \in Pairs(bs[k])
         \/ bs[k].kind # "Loop" /\ \E slot : <<k, slot>> \in R /\ a = <<n, slot>>

(* Asked, or with a block more, or an else more: nothing is forgotten, and  *)
(* only the operator at index n is new.                                     *)
Follow(bs, cs, n, s) ==
  /\ \A k \in 1 .. Len(cs) :
       IF k \in 1 .. Len(bs)
       THEN /\ \A a \in Pairs(bs[k]) : a \in Pairs(cs[k])
            /\ \A a \in Pairs(cs[k]) :
                 a \in Pairs(bs[k]) \/ (a[1] = n /\ (a[2] = Unset \/ a[2] >= s))
            /\ bs[k].else_index # Unset => cs[k].else_index = bs[k].else_index
       ELSE Pairs(cs[k]) = {}
  /\ Len(bs) <= Len(cs)

(* The slots asked for are new ones below v.                                *)
NewSlots(R, s, v) == \A k, slot : <<k, slot>> \in R => slot = Unset \/ slot \in s .. v - 1

LEMMA AskedFollows ==
  ASSUME NEW bs, NEW cs, Len(bs) \in Nat, NEW n \in Nat, NEW s \in Nat, NEW v \in Nat, NEW R,
         NewSlots(R, s, v), Asked(bs, cs, n, R)
  PROVE  Follow(bs, cs, n, s)
<1>1. Len(cs) = Len(bs)
  BY DEF Asked, SameFrames
<1>2. ASSUME NEW k \in 1 .. Len(bs)
      PROVE  /\ \A a \in Pairs(bs[k]) : a \in Pairs(cs[k])
             /\ \A a \in Pairs(cs[k]) :
                  a \in Pairs(bs[k]) \/ (a[1] = n /\ (a[2] = Unset \/ a[2] >= s))
             /\ bs[k].else_index # Unset => cs[k].else_index = bs[k].else_index
  <2>1. \A a : a \in Pairs(cs[k]) <=>
                 \/ a \in Pairs(bs[k])
                 \/ bs[k].kind # "Loop" /\ \E slot : <<k, slot>> \in R /\ a = <<n, slot>>
    BY DEF Asked
  <2>2. ASSUME NEW a, a \notin Pairs(bs[k]), a \in Pairs(cs[k])
        PROVE  a[1] = n /\ (a[2] = Unset \/ a[2] >= s)
    <3>1. PICK slot : <<k, slot>> \in R /\ a = <<n, slot>>
      BY <2>1, <2>2
    <3>2. slot = Unset \/ slot \in s .. v - 1
      BY <3>1 DEF NewSlots
    <3>3. a[1] = n /\ a[2] = slot
      BY <3>1
    <3> QED
      BY <3>2, <3>3
  <2>3. cs[k].else_index = bs[k].else_index
    BY DEF Asked, SameFrames
  <2> QED
    BY <2>1, <2>2, <2>3
<1> QED
  BY <1>1, <1>2 DEF Follow

(* Nothing that waited is disturbed.                                        *)
LEMMA AwaitedStill ==
  ASSUME NEW bs, NEW cs, Len(bs) \in Nat, Len(cs) \in Nat, NEW n \in Nat, NEW s \in Nat,
         Follow(bs, cs, n, s),
         NEW i \in 1 .. n, NEW slot, slot = Unset \/ slot \in 0 .. s - 1
  PROVE  Awaited(cs, i, slot) = Awaited(bs, i, slot)
<1>1. Len(bs) <= Len(cs)
  BY DEF Follow
<1>2. ASSUME NEW k \in 1 .. Len(cs), k \in 1 .. Len(bs)
      PROVE  Waits(cs[k], i, slot) <=> Waits(bs[k], i, slot)
  <2>1. /\ \A a \in Pairs(bs[k]) : a \in Pairs(cs[k])
        /\ \A a \in Pairs(cs[k]) :
             a \in Pairs(bs[k]) \/ (a[1] = n /\ (a[2] = Unset \/ a[2] >= s))
    BY <1>2 DEF Follow
  <2>2. CASE slot = Unset
    <3>1. <<i - 1, Unset>>[1] # n
      OBVIOUS
    <3>2. <<i - 1, Unset>> \in Pairs(cs[k]) <=> <<i - 1, Unset>> \in Pairs(bs[k])
      BY <2>1, <3>1
    <3> QED
      BY <2>2, <3>2 DEF Waits
  <2>3. CASE slot # Unset
    <3>1. slot \in 0 .. s - 1
      BY <2>3
    <3>2. \A a \in Pairs(cs[k]) : a[2] = slot => a \in Pairs(bs[k])
      BY <2>1, <2>3, <3>1
    <3> QED
      BY <2>1, <2>3, <3>2 DEF Waits
  <2> QED
    BY <2>2, <2>3
<1>3. ASSUME NEW k \in 1 .. Len(cs), k \notin 1 .. Len(bs)
      PROVE  ~ Waits(cs[k], i, slot)
  <2>1. Pairs(cs[k]) = {}
    BY <1>3 DEF Follow
  <2> QED
    BY <2>1 DEF Waits
<1>4. 1 .. Len(bs) \subseteq 1 .. Len(cs)
  BY <1>1
<1> QED
  BY <1>2, <1>3, <1>4 DEF Awaited

(* The block that the new jump asks, unless it is a loop, is the one that   *)
(* owes it a target.                                                        *)
LEMMA AwaitedNow ==
  ASSUME NEW bs, NEW cs, NEW n \in Nat, NEW s \in Nat, NEW R,
         Bounded(bs, n, s), Asked(bs, cs, n, R),
         NEW k \in 1 .. Len(bs), NEW slot, <<k, slot>> \in R,
         \A j : <<j, slot>> \in R => j = k,
         slot = Unset \/ (slot \in Nat /\ slot >= s),
         NEW i, i - 1 = n
  PROVE  Awaited(cs, i, slot) = IF bs[k].kind = "Loop" THEN {} ELSE {k}
<1>1. Len(cs) = Len(bs)
  BY DEF Asked, SameFrames
<1>2. ASSUME NEW j \in 1 .. Len(bs)
      PROVE  Waits(cs[j], i, slot) <=> j = k /\ bs[k].kind # "Loop"
  <2>1. \A a : a \in Pairs(cs[j]) <=>
                 \/ a \in Pairs(bs[j])
                 \/ bs[j].kind # "Loop" /\ \E c : <<j, c>> \in R /\ a = <<n, c>>
    BY DEF Asked
  <2>2. \A a \in Pairs(bs[j]) : a[1] \in 0 .. n - 1 /\ (a[2] = Unset \/ a[2] \in 0 .. s - 1)
    BY DEF Bounded
  <2>3. PICK x : x = <<n, slot>>
    OBVIOUS
  <2>4. x[1] = n /\ x[2] = slot
    BY <2>3
  <2>5. x \notin Pairs(bs[j])
    BY <2>2, <2>4
  <2>6. x \in Pairs(cs[j]) <=> j = k /\ bs[k].kind # "Loop"
    <3>1. x \in Pairs(cs[j]) <=> bs[j].kind # "Loop" /\ \E c : <<j, c>> \in R /\ x = <<n, c>>
      BY <2>1, <2>5
    <3>2. \A c : x = <<n, c>> => c = slot
      BY <2>3
    <3> QED
      BY <2>3, <3>1, <3>2
  <2>7. CASE slot = Unset
    BY <2>3, <2>6, <2>7 DEF Waits
  <2>8. CASE slot # Unset
    <3>1. Waits(cs[j], i, slot) <=> \E a \in Pairs(cs[j]) : a[2] = slot
      BY <2>8 DEF Waits
    <3>2. ASSUME NEW a \in Pairs(cs[j]), a[2] = slot
          PROVE  a = x
      <4>1. a \notin Pairs(bs[j])
        BY <2>2, <2>8, <3>2
      <4>2. PICK c : a = <<n, c>>
        BY <2>1, <3>2, <4>1
      <4>3. c = slot
        BY <3>2, <4>2
      <4> QED
        BY <2>3, <4>2, <4>3
    <3> QED
      BY <2>4, <2>6, <3>1, <3>2
  <2> QED
    BY <2>7, <2>8
<1>3. Awaited(cs, i, slot) = {j \in 1 .. Len(bs) : j = k /\ bs[k].kind # "Loop"}
  BY <1>1, <1>2 DEF Awaited
<1> QED
  BY <1>3

LEMMA AskedBounded ==
  ASSUME NEW bs, NEW cs, NEW n \in Nat, NEW s \in Nat, NEW v \in Nat, s <= v, NEW R,
         Bounded(bs, n, s), NewSlots(R, s, v), Asked(bs, cs, n, R)
  PROVE  Bounded(cs, n + 1, v)
<1>1. Len(cs) = Len(bs)
  BY DEF Asked, SameFrames
<1>2. SUFFICES ASSUME NEW k \in 1 .. Len(bs), NEW a \in Pairs(cs[k])
               PROVE  a[1] \in 0 .. (n + 1) - 1 /\ (a[2] = Unset \/ a[2] \in 0 .. v - 1)
  BY <1>1 DEF Bounded
<1>3. CASE a \in Pairs(bs[k])
  <2>1. a[1] \in 0 .. n - 1 /\ (a[2] = Unset \/ a[2] \in 0 .. s - 1)
    BY <1>3 DEF Bounded
  <2> QED
    BY <2>1
<1>4. CASE a \notin Pairs(bs[k])
  <2>1. PICK slot : <<k, slot>> \in R /\ a = <<n, slot>>
    BY <1>4 DEF Asked
  <2>2. slot = Unset \/ slot \in s .. v - 1
    BY <2>1 DEF NewSlots
  <2>3. a[1] = n /\ a[2] = slot
    BY <2>1
  <2> QED
    BY <2>2, <2>3
<1> QED
  BY <1>3, <1>4

LEMMA AskedChain ==
  ASSUME NEW bs, NEW cs, NEW ds, NEW n, NEW R, NEW T, Asked(bs, cs, n, R), Asked(cs, ds, n, T)
  PROVE  Asked(bs, ds, n, R \cup T)
<1>1. SameFrames(bs, cs) /\ SameFrames(cs, ds)
  BY DEF Asked
<1>2. SameFrames(bs, ds)
  BY <1>1 DEF SameFrames
<1>3. ASSUME NEW k \in 1 .. Len(bs), NEW a
      PROVE  a \in Pairs(ds[k]) <=>
               \/ a \in Pairs(bs[k])
               \/ bs[k].kind # "Loop" /\ \E slot : <<k, slot>> \in R \cup T /\ a = <<n, slot>>
  <2>1. k \in 1 .. Len(cs) /\ cs[k].kind = bs[k].kind
    BY <1>1 DEF SameFrames
  <2>2. a \in Pairs(cs[k]) <=>
          \/ a \in Pairs(bs[k])
          \/ bs[k].kind # "Loop" /\ \E slot : <<k, slot>> \in R /\ a = <<n, slot>>
    BY DEF Asked
  <2>3. a \in Pairs(ds[k]) <=>
          \/ a \in Pairs(cs[k])
          \/ cs[k].kind # "Loop" /\ \E slot : <<k, slot>> \in T /\ a = <<n, slot>>
    BY <2>1 DEF Asked
  <2> QED
    BY <2>1, <2>2, <2>3
<1> QED
  BY <1>2, <1>3 DEF Asked

-----------------------------------------------------------------------------
(* The invariant of the branches.                                           *)

(* Block k was opened by operator PosOf(bs, k), 0 for the function.         *)
PosOf(bs, k) == IF k = 1 THEN 0 ELSE bs[k].index + 1

Stands(q, ls, bs, k) ==
  LET p == PosOf(bs, k) IN
  /\ OpenAt(q, p, Len(q), k) /\ bs[k].index \in Nat
  /\ bs[k].kind = IF k = 1 THEN "Func" ELSE q[p].op
  /\ ElseIs(q, p, Len(q), k, bs[k].else_index)
  /\ bs[k].else_index # Unset => bs[k].kind = "If"
  /\ ls[k].kind = IF bs[k].else_index # Unset THEN "Else" ELSE bs[k].kind

(* The level that an operator leaves for.                                   *)
ExitLevel(q, i) == IF q[i].op = "Return" THEN 1 ELSE DepthAt(q)[i - 1] - q[i].x
ArmLevel(q, i, a) == DepthAt(q)[i - 1] - q[i].arms[a]

JumpOK(q, bs, is, i) ==
  q[i].op \in {"Br", "BrIf", "Return"} =>
    /\ "target_index" \in DOMAIN is[i]
    /\ Lands(q, bs, is[i].target_index, i, Unset, ExitLevel(q, i))

TableOK(q, bs, is, bt, i) ==
  q[i].op = "BrTable" =>
    /\ is[i].start_index \in Nat /\ is[i].start_index + Len(q[i].arms) <= Len(bt)
    /\ \A a \in 1 .. Len(q[i].arms) :
         Lands(q, bs, bt[is[i].start_index + a].target_index, i,
               is[i].start_index + a - 1, ArmLevel(q, i, a))

(* An if and its else learn both their ends when the construct closes.      *)
IfOK(q, is, i) ==
  q[i].op = "If" =>
    /\ DOMAIN is[i] = {"op", "else_index", "end_index"}
    /\ LET k == DepthAt(q)[i] IN
       \/ OpenAt(q, i, Len(q), k)
       \/ \E e \in i + 1 .. Len(q) : /\ ClosedAt(q, i, e, k) /\ is[i].end_index = e - 1
                                     /\ ElseIs(q, i, e, k, is[i].else_index)

ElseOK(q, bs, is, i) ==
  q[i].op = "Else" =>
    /\ DOMAIN is[i] = {"op", "if_end_index"}
    /\ LET k == DepthAt(q)[i] IN
       \E p \in 1 .. i - 1 :
         /\ OpenAt(q, p, i - 1, k)
         /\ \/ /\ OpenAt(q, p, Len(q), k)
               /\ bs[k].else_index = i - 1 /\ bs[k].kind = "If"
            \/ \E e \in i .. Len(q) : ClosedAt(q, p, e, k) /\ is[i].if_end_index = e - 1

Resolves(q, bs, is, bt, i) ==
  JumpOK(q, bs, is, i) /\ TableOK(q, bs, is, bt, i) /\ IfOK(q, is, i) /\ ElseOK(q, bs, is, i)

Lined(q, bs, is, bt) ==
  /\ IsSeq(q) /\ IsSeq(is) /\ IsSeq(bt) /\ Len(bs) \in Nat
  /\ Len(is) = Len(q)
  /\ \A i \in 1 .. Len(q) : IsOperator(q[i]) /\ is[i].op = q[i].op
  /\ \A s \in 1 .. Len(bt) : "target_index" \in DOMAIN bt[s]
  /\ DepthAt(q)[Len(q)] = Len(bs)
  /\ \A j \in 0 .. Len(q) - 1 : DepthAt(q)[j] >= 1
  /\ Bounded(bs, Len(q), Len(bt))

Targets(q, ls, bs, is, bt) ==
  /\ Lined(q, bs, is, bt)
  /\ \A k \in 1 .. Len(bs) : Stands(q, ls, bs, k)
  /\ \A i \in 1 .. Len(q) : Resolves(q, bs, is, bt, i)

BranchInv ==
  /\ HeightInv
  /\ status = "lowered" => valid.labels = <<>>
  /\ Targets(ops, valid.labels, lowering.inner, lowering.instructions, lowering.br_targets)

(* What is read stays read.                                                 *)
SameAt(q, r, i) ==
  /\ r[i] = q[i] /\ DepthAt(r)[i] = DepthAt(q)[i] /\ DepthAt(r)[i - 1] = DepthAt(q)[i - 1]

LEMMA ReadsSame ==
  ASSUME NEW q, IsSeq(q), NEW o, NEW r, r = Append(q, o), NEW i \in 1 .. Len(q)
  PROVE  SameAt(q, r, i)
<1>1. Grown(DepthAt(q), DepthAt(r), Len(q), o)
  BY DepthExtends
<1>2. i \in 0 .. Len(q) /\ i - 1 \in 0 .. Len(q)
  BY DEF IsSeq
<1>3. r[i] = q[i]
  BY AppendReads
<1> QED
  BY <1>1, <1>2, <1>3 DEF Grown, SameAt

(* What an operator that closes no label does to the rest.                  *)
Adds(q, o, r, bs, cs, is, js, bt, ct) ==
  /\ IsSeq(q) /\ r = Append(q, o) /\ o.op # "End"
  /\ Len(bs) \in Nat /\ Len(cs) \in Nat /\ Len(bt) \in Nat /\ Len(ct) \in Nat
  /\ Follow(bs, cs, Len(q), Len(bt))
  /\ \A k \in 1 .. Len(bs) : cs[k].kind = bs[k].kind
  /\ \A i \in 1 .. Len(q) : js[i] = is[i]
  /\ Len(bt) <= Len(ct) /\ \A s \in 1 .. Len(bt) : ct[s] = bt[s]

LEMMA JumpStill ==
  ASSUME NEW q, NEW o, NEW r, NEW bs, NEW cs, NEW is, NEW js, NEW bt, NEW ct,
         Adds(q, o, r, bs, cs, is, js, bt, ct),
         NEW i \in 1 .. Len(q), JumpOK(q, bs, is, i)
  PROVE  JumpOK(r, cs, js, i)
<1>1. /\ IsSeq(q) /\ r = Append(q, o) /\ o.op # "End" /\ js[i] = is[i]
      /\ Len(bs) \in Nat /\ Len(cs) \in Nat /\ Len(bt) \in Nat
      /\ Follow(bs, cs, Len(q), Len(bt))
  BY DEF Adds
<1>2. SameAt(q, r, i)
  BY <1>1, ReadsSame
<1>3. Len(q) \in Nat
  BY <1>1 DEF IsSeq
<1>4. Awaited(cs, i, Unset) = Awaited(bs, i, Unset)
  BY <1>1, <1>3, AwaitedStill
<1>5. r[i] = q[i] /\ ExitLevel(r, i) = ExitLevel(q, i)
  BY <1>2 DEF SameAt, ExitLevel
<1>6. CASE q[i].op \in {"Br", "BrIf", "Return"}
  <2>1. "target_index" \in DOMAIN is[i] /\ Lands(q, bs, is[i].target_index, i, Unset, ExitLevel(q, i))
    BY <1>6 DEF JumpOK
  <2>2. Lands(r, cs, is[i].target_index, i, Unset, ExitLevel(q, i))
    BY <1>1, <1>4, <2>1, LandsStill
  <2> QED
    BY <1>1, <1>5, <2>1, <2>2 DEF JumpOK
<1> QED
  BY <1>5, <1>6 DEF JumpOK

LEMMA TableStill ==
  ASSUME NEW q, NEW o, NEW r, NEW bs, NEW cs, NEW is, NEW js, NEW bt, NEW ct,
         Adds(q, o, r, bs, cs, is, js, bt, ct),
         NEW i \in 1 .. Len(q), IsOperator(q[i]), TableOK(q, bs, is, bt, i)
  PROVE  TableOK(r, cs, js, ct, i)
<1>1. /\ IsSeq(q) /\ r = Append(q, o) /\ o.op # "End" /\ js[i] = is[i]
      /\ Len(bs) \in Nat /\ Len(cs) \in Nat /\ Len(bt) \in Nat /\ Len(ct) \in Nat
      /\ Follow(bs, cs, Len(q), Len(bt))
      /\ Len(bt) <= Len(ct) /\ \A s \in 1 .. Len(bt) : ct[s] = bt[s]
  BY DEF Adds
<1>2. SameAt(q, r, i)
  BY <1>1, ReadsSame
<1>3. Len(q) \in Nat
  BY <1>1 DEF IsSeq
<1>4. r[i] = q[i] /\ \A a : ArmLevel(r, i, a) = ArmLevel(q, i, a)
  BY <1>2 DEF SameAt, ArmLevel
<1>5. CASE q[i].op = "BrTable"
  <2>1. PICK n \in Nat : n = Len(q[i].arms)
    BY DEF IsOperator
  <2>2. PICK start \in Nat : start = is[i].start_index /\ start + n <= Len(bt)
    BY <1>5, <2>1 DEF TableOK
  <2>3. ASSUME NEW a \in 1 .. n
        PROVE  Lands(r, cs, ct[start + a].target_index, i, start + a - 1, ArmLevel(r, i, a))
    <3>1. Lands(q, bs, bt[start + a].target_index, i, start + a - 1, ArmLevel(q, i, a))
      BY <1>5, <2>1, <2>2 DEF TableOK
    <3>2. PICK slot : slot = start + a - 1
      OBVIOUS
    <3>8. PICK w \in Nat : w = Len(bt)
      BY <1>1
    <3>13. start + n <= w
      BY <2>2, <3>8
    <3>14. PICK b \in Nat : b = a /\ 1 <= b /\ b <= n
      OBVIOUS
    <3>15. start + b - 1 \in 0 .. w - 1 /\ start + b \in 1 .. w
      BY ONLY <3>13, <3>14, start \in Nat, n \in Nat, w \in Nat, b \in Nat
    <3>3. slot \in 0 .. w - 1 /\ start + a \in 1 .. w
      BY <3>2, <3>14, <3>15
    <3>9. PICK m \in Nat : m = Len(q)
      BY <1>3
    <3>10. i \in 1 .. m /\ (slot = Unset \/ slot \in 0 .. w - 1) /\ Follow(bs, cs, m, w)
      BY <1>1, <3>3, <3>8, <3>9
    <3>11. Len(bs) \in Nat /\ Len(cs) \in Nat
      BY <1>1
    <3>4. Awaited(cs, i, slot) = Awaited(bs, i, slot)
      BY ONLY <3>10, <3>11, m \in Nat, w \in Nat, AwaitedStill
    <3>12. PICK t : t = bt[start + a].target_index
      OBVIOUS
    <3>5. Lands(q, bs, t, i, slot, ArmLevel(q, i, a))
      BY <3>1, <3>2, <3>12
    <3>6. Lands(r, cs, t, i, slot, ArmLevel(q, i, a))
      BY <1>1, <3>4, <3>5, LandsStill
    <3>7. ct[start + a] = bt[start + a] /\ ArmLevel(r, i, a) = ArmLevel(q, i, a)
      BY <1>1, <1>4, <3>3, <3>8
    <3> QED
      BY <3>2, <3>6, <3>7, <3>12
  <2>4. start + n <= Len(ct)
    BY <1>1, <2>2
  <2>5. js[i].start_index = start /\ Len(r[i].arms) = n
    BY <1>1, <1>4, <2>1, <2>2
  <2> QED
    BY <2>3, <2>4, <2>5 DEF TableOK
<1> QED
  BY <1>4, <1>5 DEF TableOK

LEMMA IfStill ==
  ASSUME NEW q, NEW o, NEW r, NEW bs, NEW cs, NEW is, NEW js, NEW bt, NEW ct,
         Adds(q, o, r, bs, cs, is, js, bt, ct),
         NEW i \in 1 .. Len(q), IfOK(q, is, i)
  PROVE  IfOK(r, js, i)
<1>1. IsSeq(q) /\ r = Append(q, o) /\ o.op # "End" /\ js[i] = is[i]
  BY DEF Adds
<1>2. r[i] = q[i] /\ DepthAt(r)[i] = DepthAt(q)[i]
  <2>1. SameAt(q, r, i)
    BY <1>1, ReadsSame
  <2> QED
    BY <2>1 DEF SameAt
<1>3. PICK n \in Nat : n = Len(q)
  BY <1>1 DEF IsSeq
<1>4. Len(r) = n + 1
  BY <1>1, <1>3, AppendReads
<1>5. PICK k : k = DepthAt(q)[i]
  OBVIOUS
<1>6. CASE q[i].op = "If"
  <2>1. DOMAIN js[i] = {"op", "else_index", "end_index"}
    BY <1>1, <1>6 DEF IfOK
  <2>2. \/ OpenAt(q, i, n, k)
        \/ \E e \in i + 1 .. n : /\ ClosedAt(q, i, e, k) /\ is[i].end_index = e - 1
                                 /\ ElseIs(q, i, e, k, is[i].else_index)
    BY <1>3, <1>5, <1>6 DEF IfOK
  <2>3. CASE OpenAt(q, i, n, k)
    <3>1. OpenAt(r, i, Len(r), k)
      BY <1>1, <1>3, <2>3, OpenStill
    <3> QED
      BY <1>2, <1>5, <2>1, <3>1 DEF IfOK
  <2>4. CASE \E e \in i + 1 .. n : /\ ClosedAt(q, i, e, k) /\ is[i].end_index = e - 1
                                   /\ ElseIs(q, i, e, k, is[i].else_index)
    <3>1. PICK e \in i + 1 .. n : /\ ClosedAt(q, i, e, k) /\ is[i].end_index = e - 1
                                  /\ ElseIs(q, i, e, k, is[i].else_index)
      BY <2>4
    <3>2. ClosedAt(r, i, e, k)
      BY <1>1, <3>1, ClosedExtends
    <3>3. i \in Nat /\ e \in 0 .. Len(q)
      BY <1>3
    <3>4. ElseIs(r, i, e, k, is[i].else_index)
      BY <1>1, <3>1, <3>3, ElseExtends
    <3>5. e \in i + 1 .. Len(r)
      BY <1>4
    <3> QED
      BY <1>1, <1>2, <1>5, <2>1, <3>1, <3>2, <3>4, <3>5 DEF IfOK
  <2> QED
    BY <2>2, <2>3, <2>4
<1> QED
  BY <1>2, <1>6 DEF IfOK

LEMMA ElseStill ==
  ASSUME NEW q, NEW o, NEW r, NEW bs, NEW cs, NEW is, NEW js, NEW bt, NEW ct,
         Adds(q, o, r, bs, cs, is, js, bt, ct), DepthAt(q)[Len(q)] = Len(bs),
         \A j \in 0 .. Len(q) - 1 : DepthAt(q)[j] >= 1,
         NEW i \in 1 .. Len(q), ElseOK(q, bs, is, i)
  PROVE  ElseOK(r, cs, js, i)
<1>1. /\ IsSeq(q) /\ r = Append(q, o) /\ o.op # "End" /\ js[i] = is[i]
      /\ Len(bs) \in Nat /\ Len(cs) \in Nat /\ Follow(bs, cs, Len(q), Len(bt))
      /\ \A k \in 1 .. Len(bs) : cs[k].kind = bs[k].kind
  BY DEF Adds
<1>2. r[i] = q[i] /\ DepthAt(r)[i] = DepthAt(q)[i]
  <2>1. SameAt(q, r, i)
    BY <1>1, ReadsSame
  <2> QED
    BY <2>1 DEF SameAt
<1>3. PICK n \in Nat : n = Len(q)
  BY <1>1 DEF IsSeq
<1>4. Len(r) = n + 1
  BY <1>1, <1>3, AppendReads
<1>5. PICK k : k = DepthAt(q)[i]
  OBVIOUS
<1>6. CASE q[i].op = "Else"
  <2>1. DOMAIN js[i] = {"op", "if_end_index"}
    BY <1>1, <1>6 DEF ElseOK
  <2>2. PICK p \in 1 .. i - 1 :
          /\ OpenAt(q, p, i - 1, k)
          /\ \/ /\ OpenAt(q, p, n, k)
                /\ bs[k].else_index = i - 1 /\ bs[k].kind = "If"
             \/ \E e \in i .. n : ClosedAt(q, p, e, k) /\ is[i].if_end_index = e - 1
    BY <1>3, <1>5, <1>6 DEF ElseOK
  <2>3. OpenAt(r, p, i - 1, k)
    BY <1>1, <2>2, OpenExtends
  <2>4. CASE OpenAt(q, p, n, k) /\ bs[k].else_index = i - 1 /\ bs[k].kind = "If"
    <3>1. OpenAt(r, p, Len(r), k)
      BY <1>1, <1>3, <2>4, OpenStill
    <3>2. k \in 1 .. Len(bs)
      <4>1. PICK d : d = DepthAt(q)
        OBVIOUS
      <4>2. /\ p \in 0 .. n /\ k \in Int /\ d[p] = k
            /\ \A j \in p .. n : d[j] >= k /\ d[j] \in Int
        BY <1>3, <2>4, <4>1, OpenFacts
      <4>3. n \in p .. n /\ p \in 0 .. n - 1
        BY <1>3, <4>2
      <4>4. d[n] >= k /\ d[p] >= 1
        BY <1>3, <4>1, <4>2, <4>3
      <4> QED
        BY <1>1, <1>3, <4>1, <4>2, <4>4
    <3>3. cs[k].else_index = i - 1 /\ cs[k].kind = "If"
      <4>1. i - 1 # Unset
        BY DEF Unset
      <4>2. k \in 1 .. Len(cs)
        BY <1>1, <3>2 DEF Follow
      <4> QED
        BY <1>1, <2>4, <3>2, <4>1, <4>2 DEF Follow
    <3> QED
      BY <1>2, <1>5, <2>1, <2>3, <3>1, <3>3 DEF ElseOK
  <2>5. CASE \E e \in i .. n : ClosedAt(q, p, e, k) /\ is[i].if_end_index = e - 1
    <3>1. PICK e \in i .. n : ClosedAt(q, p, e, k) /\ is[i].if_end_index = e - 1
      BY <2>5
    <3>2. ClosedAt(r, p, e, k)
      BY <1>1, <3>1, ClosedExtends
    <3>3. e \in i .. Len(r)
      BY <1>4
    <3> QED
      BY <1>1, <1>2, <1>5, <2>1, <2>3, <3>1, <3>2, <3>3 DEF ElseOK
  <2> QED
    BY <2>2, <2>4, <2>5
<1> QED
  BY <1>2, <1>6 DEF ElseOK

(* All that was settled or owed is so after one operator more.              *)
LEMMA ResolvesStill ==
  ASSUME NEW q, NEW o, NEW r, NEW bs, NEW cs, NEW is, NEW js, NEW bt, NEW ct,
         Adds(q, o, r, bs, cs, is, js, bt, ct), Lined(q, bs, is, bt),
         NEW i \in 1 .. Len(q), Resolves(q, bs, is, bt, i)
  PROVE  Resolves(r, cs, js, ct, i)
<1>1. JumpOK(q, bs, is, i) /\ TableOK(q, bs, is, bt, i) /\ IfOK(q, is, i) /\ ElseOK(q, bs, is, i)
  BY DEF Resolves
<1>2. /\ DepthAt(q)[Len(q)] = Len(bs) /\ \A j \in 0 .. Len(q) - 1 : DepthAt(q)[j] >= 1
      /\ IsOperator(q[i])
  BY DEF Lined
<1>3. JumpOK(r, cs, js, i)
  BY <1>1, JumpStill
<1>4. TableOK(r, cs, js, ct, i)
  BY <1>1, <1>2, TableStill
<1>5. IfOK(r, js, i)
  BY <1>1, IfStill
<1>6. ElseOK(r, cs, js, i)
  BY <1>1, <1>2, ElseStill
<1> QED
  BY <1>3, <1>4, <1>5, <1>6 DEF Resolves

-----------------------------------------------------------------------------
(* End: the block that closes is m, its index n.                            *)

Popped(bs, cs, m) == m = Len(bs) /\ Len(cs) = m - 1 /\ \A k \in 1 .. Len(cs) : cs[k] = bs[k]

(* What End makes of instruction x at position i.                           *)
Patches(x, y, i, b, n) ==
  /\ x.op \in {"Br", "BrIf", "Return"} =>
       y = IF Waits(b, i, Unset) THEN [x EXCEPT !.target_index = n] ELSE x
  /\ x.op = "If" =>
       y = IF b.kind = "If" /\ i - 1 = b.index
           THEN [x EXCEPT !.else_index = b.else_index, !.end_index = n] ELSE x
  /\ x.op = "Else" =>
       y = IF b.kind = "If" /\ i - 1 = b.else_index THEN [x EXCEPT !.if_end_index = n] ELSE x
  /\ x.op \notin {"Br", "BrIf", "Return", "If", "Else"} => y = x

Ends(q, o, r, bs, cs, is, js, bt, ct) ==
  /\ IsSeq(q) /\ r = Append(q, o) /\ o.op = "End"
  /\ Len(bs) \in Nat \ {0} /\ DepthAt(q)[Len(q)] = Len(bs)
  /\ Popped(bs, cs, Len(bs))
  /\ \A i \in 1 .. Len(q) : Patches(is[i], js[i], i, bs[Len(bs)], Len(q))
  /\ Len(bt) \in Nat /\ Len(ct) = Len(bt)
  /\ \A s \in 1 .. Len(bt) : ct[s] = patched_arm(bt[s], s - 1, bs[Len(bs)], Len(q))

LEMMA AwaitedAtEnd ==
  ASSUME NEW bs, NEW cs, NEW m \in Nat \ {0}, Popped(bs, cs, m), NEW i, NEW slot
  PROVE  Awaited(cs, i, slot) = Awaited(bs, i, slot) \ {m}
<1>1. m = Len(bs) /\ Len(cs) = m - 1 /\ \A k \in 1 .. Len(cs) : cs[k] = bs[k]
  BY DEF Popped
<1>2. \A k : k \in 1 .. Len(cs) <=> k \in 1 .. Len(bs) /\ k # m
  BY <1>1
<1> QED
  BY <1>1, <1>2 DEF Awaited

LEMMA PatchedCases ==
  ASSUME NEW x, NEW i, NEW b, NEW n
  PROVE  Patches(x, patched(x, i - 1, b, n), i, b, n)
BY DEF patched, Patches, Waits, Pairs

LEMMA ArmsLength ==
  ASSUME NEW o, IsOperator(o)
  PROVE  o.arms \in Seq(Nat) /\ Len(o.arms) \in Nat
BY DEF IsOperator

LEMMA JumpAtEnd ==
  ASSUME NEW q, NEW o, NEW r, NEW bs, NEW cs, NEW is, NEW js, NEW bt, NEW ct,
         Ends(q, o, r, bs, cs, is, js, bt, ct),
         NEW i \in 1 .. Len(q), is[i].op = q[i].op, JumpOK(q, bs, is, i)
  PROVE  JumpOK(r, cs, js, i)
<1>1. /\ IsSeq(q) /\ r = Append(q, o) /\ o.op = "End"
      /\ Popped(bs, cs, Len(bs)) /\ Patches(is[i], js[i], i, bs[Len(bs)], Len(q))
  BY DEF Ends
<1>2. PICK m \in Nat \ {0} : m = Len(bs) /\ m = DepthAt(q)[Len(q)]
  BY DEF Ends
<1>3. SameAt(q, r, i)
  BY <1>1, ReadsSame
<1>4. r[i] = q[i] /\ ExitLevel(r, i) = ExitLevel(q, i)
  BY <1>3 DEF SameAt, ExitLevel
<1>5. CASE q[i].op \in {"Br", "BrIf", "Return"}
  <2>1. PICK t : t = is[i].target_index
    OBVIOUS
  <2>2. "target_index" \in DOMAIN is[i] /\ Lands(q, bs, t, i, Unset, ExitLevel(q, i))
    BY <1>5, <2>1 DEF JumpOK
  <2>3. PICK u : u = IF m \in Awaited(bs, i, Unset) THEN Len(q) ELSE t
    OBVIOUS
  <2>4. Awaited(cs, i, Unset) = Awaited(bs, i, Unset) \ {m}
    BY <1>1, <1>2, AwaitedAtEnd
  <2>5. Lands(r, cs, u, i, Unset, ExitLevel(q, i))
    BY <1>1, <1>2, <2>2, <2>3, <2>4, LandsAtEnd
  <2>6. m \in Awaited(bs, i, Unset) <=> Waits(bs[m], i, Unset)
    BY <1>2 DEF Awaited
  <2>7. js[i] = IF Waits(bs[m], i, Unset) THEN [is[i] EXCEPT !.target_index = Len(q)] ELSE is[i]
    BY <1>1, <1>2, <1>5 DEF Patches
  <2>8. js[i].target_index = u /\ "target_index" \in DOMAIN js[i]
    BY <2>1, <2>2, <2>3, <2>6, <2>7
  <2> QED
    BY <1>4, <2>5, <2>8 DEF JumpOK
<1> QED
  BY <1>4, <1>5 DEF JumpOK

LEMMA TableAtEnd ==
  ASSUME NEW q, NEW o, NEW r, NEW bs, NEW cs, NEW is, NEW js, NEW bt, NEW ct,
         Ends(q, o, r, bs, cs, is, js, bt, ct),
         \A s \in 1 .. Len(bt) : "target_index" \in DOMAIN bt[s],
         NEW i \in 1 .. Len(q), is[i].op = q[i].op, IsOperator(q[i]), TableOK(q, bs, is, bt, i)
  PROVE  TableOK(r, cs, js, ct, i)
<1>1. /\ IsSeq(q) /\ r = Append(q, o) /\ o.op = "End"
      /\ Popped(bs, cs, Len(bs)) /\ Patches(is[i], js[i], i, bs[Len(bs)], Len(q))
      /\ Len(bt) \in Nat /\ Len(ct) = Len(bt)
      /\ \A s \in 1 .. Len(bt) : ct[s] = patched_arm(bt[s], s - 1, bs[Len(bs)], Len(q))
  BY DEF Ends
<1>2. PICK m \in Nat \ {0} : m = Len(bs) /\ m = DepthAt(q)[Len(q)]
  BY DEF Ends
<1>3. SameAt(q, r, i)
  BY <1>1, ReadsSame
<1>4. r[i] = q[i] /\ \A a : ArmLevel(r, i, a) = ArmLevel(q, i, a)
  BY <1>3 DEF SameAt, ArmLevel
<1>5. CASE q[i].op = "BrTable"
  <2>1. PICK n \in Nat : n = Len(q[i].arms)
    BY ArmsLength
  <2>2. PICK start \in Nat : start = is[i].start_index /\ start + n <= Len(bt)
    BY <1>5, <2>1 DEF TableOK
  <2>3. js[i] = is[i]
    BY <1>1, <1>5 DEF Patches
  <2>4. PICK w \in Nat : w = Len(bt)
    BY <1>1
  <2>5. start + n <= w
    BY <2>2, <2>4
  <2>6. ASSUME NEW a \in 1 .. n
        PROVE  Lands(r, cs, ct[start + a].target_index, i, start + a - 1, ArmLevel(r, i, a))
    <3>1. PICK x \in Nat : x = start + a /\ x \in 1 .. w
      <4>1. PICK b \in Nat : b = a /\ 1 <= b /\ b <= n
        OBVIOUS
      <4>2. start + b \in Nat /\ start + b \in 1 .. w
        BY ONLY <2>5, <4>1, start \in Nat, n \in Nat, w \in Nat, b \in Nat
      <4> QED
        BY <4>1, <4>2
    <3>2. PICK slot : slot = x - 1
      OBVIOUS
    <3>3. slot # Unset
      BY <3>1, <3>2 DEF Unset
    <3>4. PICK t : t = bt[x].target_index
      OBVIOUS
    <3>5. start + a - 1 = slot
      BY <3>1, <3>2
    <3>6. Lands(q, bs, t, i, slot, ArmLevel(q, i, a))
      BY <1>5, <2>1, <2>2, <3>1, <3>4, <3>5 DEF TableOK
    <3>7. PICK u : u = IF m \in Awaited(bs, i, slot) THEN Len(q) ELSE t
      OBVIOUS
    <3>8. Awaited(cs, i, slot) = Awaited(bs, i, slot) \ {m}
      BY <1>1, <1>2, AwaitedAtEnd
    <3>9. Lands(r, cs, u, i, slot, ArmLevel(q, i, a))
      BY <1>1, <1>2, <3>6, <3>7, <3>8, LandsAtEnd
    <3>10. m \in Awaited(bs, i, slot) <=> \E p \in Pairs(bs[m]) : p[2] = slot
      BY <1>2, <3>3 DEF Awaited, Waits
    <3>11. ct[x] = patched_arm(bt[x], slot, bs[m], Len(q))
      BY <1>1, <1>2, <2>4, <3>1, <3>2
    <3>12. "target_index" \in DOMAIN bt[x]
      BY <2>4, <3>1
    <3>13. ct[x].target_index = u
      BY <3>4, <3>7, <3>10, <3>11, <3>12 DEF patched_arm, Pairs
    <3> QED
      BY <1>4, <3>1, <3>5, <3>9, <3>13
  <2> QED
    BY <1>1, <1>4, <2>1, <2>2, <2>3, <2>6 DEF TableOK
<1> QED
  BY <1>4, <1>5 DEF TableOK

(* A block that stands knows its if.                                        *)
LEMMA StandsGives ==
  ASSUME NEW q, Len(q) \in Nat, NEW ls, NEW bs, NEW m \in Nat \ {0}, Stands(q, ls, bs, m), NEW b, b = bs[m]
  PROVE  /\ OpenAt(q, PosOf(bs, m), Len(q), m)
         /\ ElseIs(q, PosOf(bs, m), Len(q), m, b.else_index)
         /\ b.kind = "If" => PosOf(bs, m) = b.index + 1
         /\ b.index \in Nat
         /\ PosOf(bs, m) # 0 /\ q[PosOf(bs, m)].op = "If" => b.kind = "If"
         /\ b.else_index # Unset => b.kind = "If"
BY DEF Stands, PosOf

LEMMA IfAtEnd ==
  ASSUME NEW q, NEW o, NEW r, NEW bs, NEW cs, NEW is, NEW js, NEW bt, NEW ct,
         Ends(q, o, r, bs, cs, is, js, bt, ct), NEW ls, Stands(q, ls, bs, Len(bs)),
         NEW i \in 1 .. Len(q), is[i].op = q[i].op, IfOK(q, is, i)
  PROVE  IfOK(r, js, i)
<1>1. /\ IsSeq(q) /\ r = Append(q, o) /\ o.op = "End"
      /\ Patches(is[i], js[i], i, bs[Len(bs)], Len(q))
  BY DEF Ends
<1>2. PICK m \in Nat \ {0} : m = Len(bs) /\ m = DepthAt(q)[Len(q)]
  BY DEF Ends
<1>3. SameAt(q, r, i)
  BY <1>1, ReadsSame
<1>4. r[i] = q[i] /\ DepthAt(r)[i] = DepthAt(q)[i]
  BY <1>3 DEF SameAt
<1>5. PICK n \in Nat : n = Len(q)
  BY <1>1 DEF IsSeq
<1>6. Len(r) = n + 1
  BY <1>1, <1>5, AppendReads
<1>7. PICK b : b = bs[m]
  OBVIOUS
<1>8. PICK p : p = PosOf(bs, m)
  OBVIOUS
<1>9. /\ OpenAt(q, p, n, m) /\ ElseIs(q, p, n, m, b.else_index)
      /\ b.kind = "If" => p = b.index + 1
      /\ b.index \in Nat
      /\ p # 0 /\ q[p].op = "If" => b.kind = "If"
  BY <1>2, <1>5, <1>7, <1>8, StandsGives
<1>10. PICK k : k = DepthAt(q)[i]
  OBVIOUS
<1>11. PICK d : d = DepthAt(q)
  OBVIOUS
<1>12. CASE q[i].op = "If"
  <2>1. DOMAIN is[i] = {"op", "else_index", "end_index"}
    BY <1>12 DEF IfOK
  <2>2. js[i] = IF b.kind = "If" /\ i - 1 = b.index
                THEN [is[i] EXCEPT !.else_index = b.else_index, !.end_index = n] ELSE is[i]
    BY <1>1, <1>2, <1>5, <1>7, <1>12 DEF Patches
  <2>3. DOMAIN js[i] = {"op", "else_index", "end_index"}
    BY <2>1, <2>2
  <2>4. b.kind = "If" /\ i - 1 = b.index => p = i
    BY <1>9
  <2>5. \/ OpenAt(q, i, n, k)
        \/ \E e \in i + 1 .. n : /\ ClosedAt(q, i, e, k) /\ is[i].end_index = e - 1
                                 /\ ElseIs(q, i, e, k, is[i].else_index)
    BY <1>5, <1>10, <1>12 DEF IfOK
  <2>6. p = i => k = m
    <3>1. d[p] = m
      BY <1>5, <1>9, <1>11, OpenFacts
    <3> QED
      BY <1>10, <1>11, <3>1
  <2>7. CASE OpenAt(q, i, n, k) /\ k = m
    <3>1. p = i
      BY <1>5, <1>9, <2>7, OpenUnique
    <3>2. b.kind = "If" /\ i - 1 = b.index
      <4>1. p # 0
        BY <3>1
      <4> QED
        BY <1>9, <1>12, <3>1, <4>1
    <3>3. js[i].end_index = n /\ js[i].else_index = b.else_index
      BY <2>1, <2>2, <3>2
    <3>4. ClosedAt(r, i, n + 1, k)
      BY <1>1, <1>2, <1>5, <2>7, OpenGrows
    <3>5. ElseIs(r, i, n + 1, k, b.else_index)
      <4>1. ElseIs(q, i, n, k, b.else_index)
        BY <1>9, <2>7, <3>1
      <4>2. i \in 0 .. Len(q)
        BY <1>5
      <4> QED
        BY <1>1, <1>5, <4>1, <4>2, ElseGrows
    <3>6. n + 1 \in i + 1 .. Len(r) /\ n = (n + 1) - 1
      BY <1>5, <1>6
    <3> QED
      BY <1>4, <1>10, <2>3, <3>3, <3>4, <3>5, <3>6 DEF IfOK
  <2>8. CASE OpenAt(q, i, n, k) /\ k # m
    <3>1. js[i] = is[i]
      BY <2>2, <2>4, <2>6, <2>8
    <3>2. OpenAt(r, i, n + 1, k)
      <4>1. i \in 0 .. n /\ k \in Int /\ \A j \in i .. n : d[j] >= k /\ d[j] \in Int
        BY <1>5, <1>11, <2>8, OpenFacts
      <4>2. n \in i .. n
        BY <4>1
      <4>3. d[n] = m /\ d[n] >= k
        BY <1>2, <1>5, <1>11, <4>1, <4>2
      <4>4. Delta(o) = -1
        BY <1>1 DEF Delta, Opens, Openers
      <4>5. d[n] + Delta(o) >= k
        BY <2>8, <4>1, <4>3, <4>4
      <4> QED
        BY <1>1, <1>5, <1>11, <2>8, <4>5, OpenGrows
    <3> QED
      BY <1>4, <1>6, <1>10, <2>3, <3>2 DEF IfOK
  <2>9. CASE \E e \in i + 1 .. n : /\ ClosedAt(q, i, e, k) /\ is[i].end_index = e - 1
                                   /\ ElseIs(q, i, e, k, is[i].else_index)
    <3>1. PICK e \in i + 1 .. n : /\ ClosedAt(q, i, e, k) /\ is[i].end_index = e - 1
                                  /\ ElseIs(q, i, e, k, is[i].else_index)
      BY <2>9
    <3>2. js[i] = is[i]
      <4>1. p # i
        BY <1>5, <1>9, <2>6, <3>1, ClosedNotOpen
      <4> QED
        BY <2>2, <2>4, <4>1
    <3>3. ClosedAt(r, i, e, k)
      BY <1>1, <3>1, ClosedExtends
    <3>4. i \in Nat /\ e \in 0 .. Len(q)
      BY <1>5
    <3>5. ElseIs(r, i, e, k, is[i].else_index)
      BY <1>1, <3>1, <3>4, ElseExtends
    <3>6. e \in i + 1 .. Len(r)
      BY <1>6
    <3> QED
      BY <1>4, <1>10, <2>3, <3>1, <3>2, <3>3, <3>5, <3>6 DEF IfOK
  <2> QED
    BY <2>5, <2>7, <2>8, <2>9
<1> QED
  BY <1>4, <1>12 DEF IfOK

LEMMA ElseAtEnd ==
  ASSUME NEW q, NEW o, NEW r, NEW bs, NEW cs, NEW is, NEW js, NEW bt, NEW ct,
         Ends(q, o, r, bs, cs, is, js, bt, ct), NEW ls, Stands(q, ls, bs, Len(bs)),
         \A j \in 0 .. Len(q) - 1 : DepthAt(q)[j] >= 1,
         NEW i \in 1 .. Len(q), is[i].op = q[i].op, ElseOK(q, bs, is, i)
  PROVE  ElseOK(r, cs, js, i)
<1>1. /\ IsSeq(q) /\ r = Append(q, o) /\ o.op = "End"
      /\ Patches(is[i], js[i], i, bs[Len(bs)], Len(q)) /\ Popped(bs, cs, Len(bs))
  BY DEF Ends
<1>2. PICK m \in Nat \ {0} : m = Len(bs) /\ m = DepthAt(q)[Len(q)]
  BY DEF Ends
<1>3. SameAt(q, r, i)
  BY <1>1, ReadsSame
<1>4. r[i] = q[i] /\ DepthAt(r)[i] = DepthAt(q)[i]
  BY <1>3 DEF SameAt
<1>5. PICK n \in Nat : n = Len(q)
  BY <1>1 DEF IsSeq
<1>6. Len(r) = n + 1
  BY <1>1, <1>5, AppendReads
<1>7. PICK b : b = bs[m]
  OBVIOUS
<1>8. PICK h : h = PosOf(bs, m)
  OBVIOUS
<1>9. OpenAt(q, h, n, m) /\ ElseIs(q, h, n, m, b.else_index)
  BY <1>2, <1>5, <1>7, <1>8, StandsGives
<1>10. PICK k : k = DepthAt(q)[i]
  OBVIOUS
<1>11. PICK d : d = DepthAt(q)
  OBVIOUS
<1>12. CASE q[i].op = "Else"
  <2>1. DOMAIN is[i] = {"op", "if_end_index"}
    BY <1>12 DEF ElseOK
  <2>2. js[i] = IF b.kind = "If" /\ i - 1 = b.else_index
                THEN [is[i] EXCEPT !.if_end_index = n] ELSE is[i]
    BY <1>1, <1>2, <1>5, <1>7, <1>12 DEF Patches
  <2>3. DOMAIN js[i] = {"op", "if_end_index"}
    BY <2>1, <2>2
  <2>4. PICK p \in 1 .. i - 1 :
          /\ OpenAt(q, p, i - 1, k)
          /\ \/ /\ OpenAt(q, p, n, k)
                /\ bs[k].else_index = i - 1 /\ bs[k].kind = "If"
             \/ \E e \in i .. n : ClosedAt(q, p, e, k) /\ is[i].if_end_index = e - 1
    BY <1>5, <1>10, <1>12 DEF ElseOK
  <2>5. OpenAt(r, p, i - 1, k)
    BY <1>1, <2>4, OpenExtends
  <2>6. ASSUME i - 1 = b.else_index
        PROVE  k = m /\ h \in 0 .. i - 1
    <3>1. /\ b.else_index = -1 \/ b.else_index \in h .. n - 1
          /\ \A j \in h + 1 .. n : (q[j].op = "Else" /\ d[j] = m) <=> j = b.else_index + 1
      BY <1>9, <1>11 DEF ElseIs
    <3>2. i - 1 # -1
      OBVIOUS
    <3>3. h \in 0 .. n
      BY <1>5, <1>9, OpenFacts
    <3>4. i - 1 \in h .. n - 1 /\ (i - 1) + 1 = i
      BY <2>6, <3>1, <3>2
    <3>5. i \in h + 1 .. n /\ i = b.else_index + 1
      BY <2>6, <3>3, <3>4
    <3>6. d[i] = m
      BY <3>1, <3>5
    <3> QED
      BY <1>10, <1>11, <3>3, <3>4, <3>6
  <2>7. CASE OpenAt(q, p, n, k) /\ bs[k].else_index = i - 1 /\ bs[k].kind = "If"
    <3>1. /\ p \in 0 .. n /\ k \in Int /\ d[p] = k
          /\ \A j \in p .. n : d[j] >= k /\ d[j] \in Int
      BY <1>5, <1>11, <2>7, OpenFacts
    <3>2. n \in p .. n /\ p \in 0 .. n - 1
      BY <1>5, <3>1
    <3>3. d[n] = m /\ d[n] >= k /\ d[p] >= 1
      BY <1>2, <1>5, <1>11, <3>1, <3>2
    <3>4. k \in 1 .. m
      BY <3>1, <3>3
    <3>5. CASE k = m
      <4>1. js[i] = [is[i] EXCEPT !.if_end_index = n]
        BY <1>7, <2>2, <2>7, <3>5
      <4>2. js[i].if_end_index = n
        BY <2>1, <4>1
      <4>3. ClosedAt(r, p, n + 1, k)
        BY <1>1, <1>2, <1>5, <2>7, <3>5, OpenGrows
      <4>4. n + 1 \in i .. Len(r) /\ n = (n + 1) - 1
        BY <1>5, <1>6
      <4> QED
        BY <1>4, <1>10, <2>3, <2>5, <4>2, <4>3, <4>4 DEF ElseOK
    <3>6. CASE k # m
      <4>1. js[i] = is[i]
        BY <2>2, <2>6, <3>6
      <4>2. Delta(o) = -1
        BY <1>1 DEF Delta, Opens, Openers
      <4>3. d[n] + Delta(o) >= k
        BY <3>1, <3>3, <3>6, <4>2
      <4>4. OpenAt(r, p, n + 1, k)
        BY <1>1, <1>5, <1>11, <2>7, <4>3, OpenGrows
      <4>5. cs[k] = bs[k]
        <5>1. k \in 1 .. m - 1
          BY <3>4, <3>6
        <5> QED
          BY <1>1, <1>2, <5>1 DEF Popped
      <4> QED
        BY <1>4, <1>6, <1>10, <2>3, <2>5, <2>7, <4>4, <4>5 DEF ElseOK
    <3> QED
      BY <3>5, <3>6
  <2>8. CASE \E e \in i .. n : ClosedAt(q, p, e, k) /\ is[i].if_end_index = e - 1
    <3>1. PICK e \in i .. n : ClosedAt(q, p, e, k) /\ is[i].if_end_index = e - 1
      BY <2>8
    <3>2. i - 1 # b.else_index
      <4>1. SUFFICES ASSUME i - 1 = b.else_index
                     PROVE  FALSE
        OBVIOUS
      <4>2. k = m /\ h \in 0 .. i - 1
        BY <2>6, <4>1
      <4>3. i - 1 \in h .. n
        BY <1>5, <4>2
      <4>4. OpenAt(q, h, i - 1, m)
        BY <1>5, <1>9, <4>3, OpenEarlier
      <4>5. h = p
        BY <1>5, <2>4, <4>2, <4>4, OpenUnique
      <4>6. OpenAt(q, p, n, k)
        BY <1>9, <4>2, <4>5
      <4> QED
        BY <1>5, <3>1, <4>6, ClosedNotOpen
    <3>3. js[i] = is[i]
      BY <2>2, <3>2
    <3>4. ClosedAt(r, p, e, k)
      BY <1>1, <3>1, ClosedExtends
    <3>5. e \in i .. Len(r)
      BY <1>6
    <3> QED
      BY <1>4, <1>10, <2>3, <2>5, <3>1, <3>3, <3>4, <3>5 DEF ElseOK
  <2> QED
    BY <2>4, <2>7, <2>8
<1> QED
  BY <1>4, <1>12 DEF ElseOK

LEMMA ResolvesAtEnd ==
  ASSUME NEW q, NEW o, NEW r, NEW bs, NEW cs, NEW is, NEW js, NEW bt, NEW ct,
         Ends(q, o, r, bs, cs, is, js, bt, ct), Lined(q, bs, is, bt),
         NEW ls, Stands(q, ls, bs, Len(bs)),
         NEW i \in 1 .. Len(q), Resolves(q, bs, is, bt, i)
  PROVE  Resolves(r, cs, js, ct, i)
<1>1. JumpOK(q, bs, is, i) /\ TableOK(q, bs, is, bt, i) /\ IfOK(q, is, i) /\ ElseOK(q, bs, is, i)
  BY DEF Resolves
<1>2. /\ \A j \in 0 .. Len(q) - 1 : DepthAt(q)[j] >= 1
      /\ IsOperator(q[i]) /\ is[i].op = q[i].op
      /\ \A s \in 1 .. Len(bt) : "target_index" \in DOMAIN bt[s]
  BY DEF Lined
<1>3. JumpOK(r, cs, js, i)
  BY <1>1, <1>2, JumpAtEnd
<1>4. TableOK(r, cs, js, ct, i)
  BY <1>1, <1>2, TableAtEnd
<1>5. IfOK(r, js, i)
  BY <1>1, <1>2, IfAtEnd
<1>6. ElseOK(r, cs, js, i)
  BY <1>1, <1>2, ElseAtEnd
<1> QED
  BY <1>3, <1>4, <1>5, <1>6 DEF Resolves

-----------------------------------------------------------------------------
(* The open blocks after one operator more.                                 *)

LEMMA StandsStill ==
  ASSUME NEW q, IsSeq(q), NEW o, NEW r, r = Append(q, o),
         NEW m \in Int, m = DepthAt(q)[Len(q)], NEW k \in Nat \ {0}, m + Delta(o) >= k,
         ~ (o.op = "Else" /\ m = k),
         NEW bs, NEW cs, NEW ls, NEW ms, Stands(q, ls, bs, k),
         cs[k].kind = bs[k].kind, cs[k].index = bs[k].index,
         cs[k].else_index = bs[k].else_index, ms[k].kind = ls[k].kind
  PROVE  Stands(r, ms, cs, k)
<1>1. PICK n \in Nat : n = Len(q)
  BY DEF IsSeq
<1>2. Len(r) = n + 1 /\ \A i \in 1 .. n : r[i] = q[i]
  BY <1>1, AppendReads
<1>3. PICK p : p = PosOf(bs, k)
  OBVIOUS
<1>4. p = PosOf(cs, k)
  BY <1>3 DEF PosOf
<1>5. /\ OpenAt(q, p, n, k) /\ bs[k].index \in Nat
      /\ bs[k].kind = IF k = 1 THEN "Func" ELSE q[p].op
      /\ ElseIs(q, p, n, k, bs[k].else_index)
      /\ bs[k].else_index # Unset => bs[k].kind = "If"
      /\ ls[k].kind = IF bs[k].else_index # Unset THEN "Else" ELSE bs[k].kind
  BY <1>1, <1>3 DEF Stands
<1>6. OpenAt(r, p, n + 1, k)
  BY <1>1, <1>5, OpenGrows
<1>7. p \in 0 .. n
  BY <1>1, <1>5, OpenFacts
<1>8. ElseIs(r, p, n + 1, k, bs[k].else_index)
  <2>1. Grown(DepthAt(q), DepthAt(r), n, o)
    BY <1>1, DepthExtends
  <2>2. o.op = "Else" => Delta(o) = 0
    BY DEF Delta, Opens, Openers
  <2>3. ~ (o.op = "Else" /\ DepthAt(r)[n + 1] = k)
    BY <1>1, <2>1, <2>2 DEF Grown
  <2> QED
    BY <1>1, <1>5, <1>7, <2>3, ElseGrows
<1>9. k # 1 => r[p] = q[p]
  <2>1. HAVE k # 1
  <2>2. p = bs[k].index + 1
    BY <1>3, <2>1 DEF PosOf
  <2>3. p \in 1 .. n
    BY <1>5, <1>7, <2>2
  <2> QED
    BY <1>2, <2>3
<1> QED
  BY <1>2, <1>4, <1>5, <1>6, <1>8, <1>9 DEF Stands

(* A block just opened.                                                     *)
LEMMA StandsOpened ==
  ASSUME NEW q, IsSeq(q), NEW o, Opens(o), NEW r, r = Append(q, o),
         NEW m \in Nat \ {0}, m = DepthAt(q)[Len(q)], NEW k, k = m + 1,
         NEW cs, NEW ms,
         cs[k].kind = o.op, cs[k].index = Len(q), cs[k].else_index = Unset, ms[k].kind = o.op
  PROVE  Stands(r, ms, cs, k)
<1>1. PICK n \in Nat : n = Len(q)
  BY DEF IsSeq
<1>2. Len(r) = n + 1 /\ r[n + 1] = o
  BY <1>1, AppendReads
<1>3. k # 1 /\ PosOf(cs, k) = n + 1
  BY <1>1 DEF PosOf
<1>4. OpenAt(r, n + 1, n + 1, k)
  <2>1. OpenAt(r, Len(q) + 1, Len(q) + 1, DepthAt(q)[Len(q)] + 1)
    BY OpensNow
  <2> QED
    BY <1>1, <2>1
<1>5. ElseIs(r, n + 1, n + 1, k, Unset)
  <2>1. n + 1 \in Nat
    OBVIOUS
  <2> QED
    BY <2>1, NoElseYet DEF Unset
<1> QED
  BY <1>1, <1>2, <1>3, <1>4, <1>5 DEF Stands

(* An if that has just met its else.                                        *)
MeetsElse(q, o, r, m, bs, cs, ls, ms) ==
  /\ IsSeq(q) /\ o.op = "Else" /\ r = Append(q, o) /\ m = DepthAt(q)[Len(q)]
  /\ Stands(q, ls, bs, m) /\ ls[m].kind = "If"
  /\ cs[m].kind = bs[m].kind /\ cs[m].index = bs[m].index
  /\ cs[m].else_index = Len(q) /\ ms[m].kind = "Else"

LEMMA StandsElse ==
  ASSUME NEW q, NEW o, NEW r, NEW m \in Nat \ {0}, NEW bs, NEW cs, NEW ls, NEW ms,
         MeetsElse(q, o, r, m, bs, cs, ls, ms)
  PROVE  Stands(r, ms, cs, m) /\ bs[m].kind = "If" /\ bs[m].else_index = Unset
<1>0. /\ IsSeq(q) /\ o.op = "Else" /\ r = Append(q, o) /\ m = DepthAt(q)[Len(q)]
      /\ Stands(q, ls, bs, m) /\ ls[m].kind = "If"
      /\ cs[m].kind = bs[m].kind /\ cs[m].index = bs[m].index
      /\ cs[m].else_index = Len(q) /\ ms[m].kind = "Else"
  BY DEF MeetsElse
<1>1. PICK n \in Nat : n = Len(q)
  BY <1>0 DEF IsSeq
<1>2. Len(r) = n + 1 /\ \A i \in 1 .. n : r[i] = q[i]
  BY <1>0, <1>1, AppendReads
<1>3. PICK p : p = PosOf(bs, m)
  OBVIOUS
<1>4. p = PosOf(cs, m)
  BY <1>0, <1>3 DEF PosOf
<1>5. /\ OpenAt(q, p, n, m) /\ bs[m].index \in Nat
      /\ bs[m].kind = IF m = 1 THEN "Func" ELSE q[p].op
      /\ ElseIs(q, p, n, m, bs[m].else_index)
      /\ ls[m].kind = IF bs[m].else_index # Unset THEN "Else" ELSE bs[m].kind
  BY <1>0, <1>1, <1>3 DEF Stands
<1>6. bs[m].else_index = Unset /\ bs[m].kind = "If" /\ m # 1
  BY <1>0, <1>5
<1>7. Delta(o) = 0
  BY <1>0 DEF Delta, Opens, Openers
<1>8. OpenAt(r, p, n + 1, m)
  <2>1. OpenAt(q, p, Len(q), m) /\ o.op # "End"
    BY <1>0, <1>1, <1>5
  <2>2. OpenAt(r, p, Len(r), m)
    BY <1>0, <2>1, OpenStill
  <2> QED
    BY <1>0, <1>2, <2>2
<1>9. p \in 0 .. n
  BY <1>0, <1>1, <1>5, OpenFacts
<1>10. r[p] = q[p]
  <2>1. p = bs[m].index + 1
    BY <1>0, <1>3, <1>6 DEF PosOf
  <2>2. p \in 1 .. n
    BY <1>0, <1>5, <1>9, <2>1
  <2> QED
    BY <1>0, <1>2, <2>2
<1>11. ElseIs(r, p, n + 1, m, n)
  <2>1. Grown(DepthAt(q), DepthAt(r), n, o)
    BY <1>0, <1>1, DepthExtends
  <2>2. DepthAt(r)[n + 1] = m
    BY <1>0, <1>1, <1>7, <2>1 DEF Grown
  <2>3. ElseIs(q, p, n, m, -1)
    BY <1>0, <1>5, <1>6 DEF Unset
  <2> QED
    BY <1>0, <1>1, <1>9, <2>2, <2>3, ElseFound
<1>12. n # Unset
  BY DEF Unset
<1> QED
  BY <1>0, <1>1, <1>2, <1>4, <1>5, <1>6, <1>8, <1>10, <1>11, <1>12 DEF Stands

(* One instruction for one operator; the flat array may grow.               *)
Emits(q, o, r, is, js, x, bt, ct) ==
  /\ r = Append(q, o) /\ IsOperator(o)
  /\ js = Append(is, x) /\ x.op = o.op
  /\ IsSeq(ct) /\ Len(bt) <= Len(ct)
  /\ \A s \in 1 .. Len(bt) : ct[s] = bt[s]
  /\ \A s \in 1 .. Len(ct) : "target_index" \in DOMAIN ct[s]

(* The invariant's bookkeeping, when the blocks number one more, one less   *)
(* or as many.                                                              *)
NextLine(q, o, r, is, js, ct) ==
  /\ r = Append(q, o) /\ IsOperator(o)
  /\ IsSeq(js) /\ Len(js) = Len(r)
  /\ \A i \in 1 .. Len(q) : js[i].op = is[i].op
  /\ js[Len(r)].op = o.op
  /\ IsSeq(ct) /\ \A s \in 1 .. Len(ct) : "target_index" \in DOMAIN ct[s]

LEMMA LinedNext ==
  ASSUME NEW q, NEW o, NEW r, NEW bs, NEW is, NEW bt, Lined(q, bs, is, bt), Len(bs) # 0,
         NEW js, NEW ct, NextLine(q, o, r, is, js, ct),
         NEW cs, NEW c \in Nat, c = Len(cs), c = Len(bs) + Delta(o),
         Bounded(cs, Len(r), Len(ct))
  PROVE  Lined(r, cs, js, ct)
<1>1. /\ IsSeq(q) /\ Len(bs) \in Nat
      /\ \A i \in 1 .. Len(q) : IsOperator(q[i]) /\ is[i].op = q[i].op
      /\ DepthAt(q)[Len(q)] = Len(bs)
      /\ \A j \in 0 .. Len(q) - 1 : DepthAt(q)[j] >= 1
  BY DEF Lined
<1>2. PICK n \in Nat : n = Len(q)
  BY <1>1 DEF IsSeq
<1>3. Len(r) = n + 1 /\ r[n + 1] = o /\ IsSeq(r) /\ \A i \in 1 .. n : r[i] = q[i]
  <2>1. Longer(q, o, r)
    BY <1>1, AppendLonger DEF NextLine
  <2> QED
    BY <1>2, <2>1 DEF Longer
<1>4. PICK d : d = DepthAt(q)
  OBVIOUS
<1>5. PICK f : f = DepthAt(r)
  OBVIOUS
<1>6. Grown(d, f, n, o)
  BY <1>1, <1>2, <1>4, <1>5, DepthExtends DEF NextLine
<1>7. (\A i \in 0 .. n : f[i] = d[i]) /\ f[n + 1] = c
  BY <1>1, <1>2, <1>4, <1>6 DEF Grown
<1>8. \A j \in 0 .. Len(r) - 1 : f[j] >= 1
  <2>1. SUFFICES ASSUME NEW j \in 0 .. n
                 PROVE  f[j] >= 1
    BY <1>3
  <2>2. f[j] = d[j]
    BY <1>7
  <2>3. CASE j = n
    BY <1>1, <1>2, <1>4, <2>2, <2>3
  <2>4. CASE j # n
    <3>1. j \in 0 .. n - 1
      BY <2>4
    <3> QED
      BY <1>1, <1>2, <1>4, <2>2, <3>1
  <2> QED
    BY <2>3, <2>4
<1>9. ASSUME NEW i \in 1 .. Len(r)
      PROVE  IsOperator(r[i]) /\ js[i].op = r[i].op
  <2>1. i \in 1 .. n \/ i = n + 1
    BY <1>3
  <2>2. CASE i \in 1 .. n
    BY <1>1, <1>2, <1>3, <2>2 DEF NextLine
  <2>3. CASE i = n + 1
    BY <1>3, <2>3 DEF NextLine
  <2> QED
    BY <2>1, <2>2, <2>3
<1>10. DepthAt(r)[Len(r)] = Len(cs)
  BY <1>3, <1>5, <1>7
<1> QED
  BY <1>3, <1>5, <1>8, <1>9, <1>10 DEF Lined, NextLine

LEMMA EmitsLined ==
  ASSUME NEW q, NEW o, NEW r, NEW bs, NEW is, NEW bt, Lined(q, bs, is, bt), Len(bs) # 0,
         NEW js, NEW x, NEW ct, Emits(q, o, r, is, js, x, bt, ct),
         NEW cs, NEW c \in Nat, c = Len(cs), c = Len(bs) + Delta(o),
         Bounded(cs, Len(r), Len(ct))
  PROVE  Lined(r, cs, js, ct)
<1>1. IsSeq(q) /\ IsSeq(is) /\ Len(is) = Len(q)
  BY DEF Lined
<1>2. /\ r = Append(q, o) /\ IsOperator(o)
      /\ js = Append(is, x) /\ x.op = o.op /\ IsSeq(ct)
      /\ \A s \in 1 .. Len(ct) : "target_index" \in DOMAIN ct[s]
  BY DEF Emits
<1>3. Longer(is, x, js) /\ Longer(q, o, r)
  BY <1>1, <1>2, AppendLonger
<1>4. NextLine(q, o, r, is, js, ct)
  BY <1>1, <1>2, <1>3 DEF NextLine, Longer
<1> QED
  BY <1>4, LinedNext

LEMMA EmitsAdds ==
  ASSUME NEW q, NEW o, NEW r, NEW bs, NEW is, NEW bt, Lined(q, bs, is, bt), o.op # "End",
         NEW js, NEW x, NEW ct, Emits(q, o, r, is, js, x, bt, ct),
         NEW cs, Len(cs) \in Nat, Follow(bs, cs, Len(q), Len(bt)),
         \A k \in 1 .. Len(bs) : cs[k].kind = bs[k].kind
  PROVE  Adds(q, o, r, bs, cs, is, js, bt, ct)
<1>1. IsSeq(q) /\ IsSeq(is) /\ IsSeq(bt) /\ Len(is) = Len(q) /\ Len(bs) \in Nat
  BY DEF Lined
<1>2. /\ r = Append(q, o) /\ js = Append(is, x) /\ IsSeq(ct) /\ Len(bt) <= Len(ct)
      /\ \A s \in 1 .. Len(bt) : ct[s] = bt[s]
  BY DEF Emits
<1>3. \A i \in 1 .. Len(is) : js[i] = is[i]
  BY <1>1, <1>2, AppendReads
<1>4. Len(bt) \in Nat /\ Len(ct) \in Nat
  BY <1>1, <1>2 DEF IsSeq
<1> QED
  BY <1>1, <1>2, <1>3, <1>4 DEF Adds

-----------------------------------------------------------------------------
(* The invariant, one kind of operator at a time.                           *)

LEMMA AskedTargets ==
  ASSUME NEW q, NEW ls, NEW bs, NEW is, NEW bt, Targets(q, ls, bs, is, bt), Len(bs) # 0,
         NEW o, o.op \notin Openers \cup {"End", "Else"},
         NEW r, NEW js, NEW x, NEW ct, Emits(q, o, r, is, js, x, bt, ct),
         NEW R, NewSlots(R, Len(bt), Len(ct)), NEW cs, Asked(bs, cs, Len(q), R),
         NEW ms, \A k \in 1 .. Len(bs) : ms[k].kind = ls[k].kind,
         Resolves(r, cs, js, ct, Len(r))
  PROVE  Targets(r, ms, cs, js, ct)
<1>1. Lined(q, bs, is, bt)
  BY DEF Targets
<1>2. PICK m \in Nat : m = Len(bs)
  BY <1>1 DEF Lined
<1>3. PICK n \in Nat : n = Len(q)
  BY <1>1 DEF Lined, IsSeq
<1>4. IsSeq(q) /\ DepthAt(q)[Len(q)] = m /\ r = Append(q, o)
  BY <1>1, <1>2 DEF Lined, Emits
<1>5. Longer(q, o, r)
  BY <1>4, AppendLonger
<1>6. Len(r) = n + 1
  BY <1>3, <1>5 DEF Longer
<1>7. PICK s \in Nat : s = Len(bt)
  BY <1>1 DEF Lined, IsSeq
<1>8. PICK v \in Nat : v = Len(ct) /\ s <= v
  BY <1>7 DEF Emits, IsSeq
<1>9. SameFrames(bs, cs) /\ Len(cs) = m
  BY <1>2 DEF Asked, SameFrames
<1>10. Follow(bs, cs, n, s)
  BY <1>2, <1>3, <1>7, <1>8, AskedFollows
<1>11. Delta(o) = 0
  BY DEF Delta, Opens
<1>12. Bounded(cs, Len(r), Len(ct))
  <2>1. Bounded(bs, n, s)
    BY <1>1, <1>3, <1>7 DEF Lined
  <2>2. Bounded(cs, n + 1, v)
    BY <1>3, <1>7, <1>8, <2>1, AskedBounded
  <2> QED
    BY <1>6, <1>8, <2>2
<1>13. Lined(r, cs, js, ct)
  <2>1. m = Len(cs) /\ m = Len(bs) + Delta(o)
    BY <1>2, <1>9, <1>11
  <2> QED
    BY <1>1, <1>12, <2>1, EmitsLined
<1>14. Adds(q, o, r, bs, cs, is, js, bt, ct)
  <2>1. \A k \in 1 .. Len(bs) : cs[k].kind = bs[k].kind
    BY <1>9 DEF SameFrames
  <2> QED
    BY <1>1, <1>3, <1>7, <1>9, <1>10, <2>1, EmitsAdds
<1>15. ASSUME NEW k \in 1 .. Len(cs)
       PROVE  Stands(r, ms, cs, k)
  <2>1. k \in 1 .. Len(bs) /\ k \in Nat \ {0}
    BY <1>2, <1>9
  <2>2. Stands(q, ls, bs, k)
    BY <2>1 DEF Targets
  <2>3. m + Delta(o) >= k
    BY <1>2, <1>11, <2>1
  <2>4. /\ cs[k].kind = bs[k].kind /\ cs[k].index = bs[k].index
        /\ cs[k].else_index = bs[k].else_index /\ ms[k].kind = ls[k].kind
    BY <1>9, <2>1 DEF SameFrames
  <2>5. ~ (o.op = "Else" /\ m = k) /\ m \in Int
    OBVIOUS
  <2> QED
    BY <1>4, <2>1, <2>2, <2>3, <2>4, <2>5, StandsStill
<1>16. ASSUME NEW i \in 1 .. Len(r)
       PROVE  Resolves(r, cs, js, ct, i)
  <2>1. CASE i = Len(r)
    BY <2>1
  <2>2. CASE i # Len(r)
    <3>1. i \in 1 .. Len(q)
      BY <1>3, <1>6, <2>2
    <3>2. Resolves(q, bs, is, bt, i)
      BY <3>1 DEF Targets
    <3> QED
      BY <1>1, <1>14, <3>1, <3>2, ResolvesStill
  <2> QED
    BY <2>1, <2>2
<1> QED
  BY <1>13, <1>15, <1>16 DEF Targets

(* An operator that asks nothing of any block.                              *)
LEMMA QuietTargets ==
  ASSUME NEW q, NEW ls, NEW bs, NEW is, NEW bt, Targets(q, ls, bs, is, bt), Len(bs) # 0,
         NEW o, o.op \notin Openers \cup {"End", "Else", "Br", "BrIf", "Return", "BrTable"},
         NEW r, NEW js, NEW x, NEW ct, ct = bt, Emits(q, o, r, is, js, x, bt, ct),
         NEW cs, Asked(bs, cs, Len(q), {}),
         NEW ms, \A k \in 1 .. Len(bs) : ms[k].kind = ls[k].kind
  PROVE  Targets(r, ms, cs, js, ct)
<1>1. r[Len(r)] = o
  <2>1. IsSeq(q) /\ r = Append(q, o)
    BY DEF Targets, Lined, Emits
  <2>2. Longer(q, o, r)
    BY <2>1, AppendLonger
  <2> QED
    BY <2>2 DEF Longer
<1>2. Resolves(r, cs, js, ct, Len(r))
  BY <1>1 DEF Resolves, JumpOK, TableOK, IfOK, ElseOK, Openers
<1>3. NewSlots({}, Len(bt), Len(ct))
  BY DEF NewSlots
<1> QED
  BY <1>2, <1>3, AskedTargets

(* The label of level k, as the blocks know it.                             *)
LEMMA LevelIsOpen ==
  ASSUME NEW q, NEW ls, NEW bs, NEW is, NEW bt, Targets(q, ls, bs, is, bt),
         NEW k \in 1 .. Len(bs)
  PROVE  \E p \in 0 .. Len(q) : /\ OpenAt(q, p, Len(q), k)
                                /\ IsLoop(q, p) <=> bs[k].kind = "Loop"
                                /\ IsLoop(q, p) => bs[k].index = p - 1
<1>1. Stands(q, ls, bs, k) /\ IsSeq(q) /\ Len(q) \in Nat
  BY DEF Targets, Lined, IsSeq
<1>2. PICK p : p = PosOf(bs, k)
  OBVIOUS
<1>3. /\ OpenAt(q, p, Len(q), k) /\ bs[k].index \in Nat
      /\ bs[k].kind = IF k = 1 THEN "Func" ELSE q[p].op
  BY <1>1, <1>2 DEF Stands
<1>4. p \in 0 .. Len(q)
  BY <1>1, <1>3, OpenFacts
<1>5. CASE k = 1
  BY <1>2, <1>3, <1>4, <1>5 DEF PosOf, IsLoop
<1>6. CASE k # 1
  <2>1. p = bs[k].index + 1
    BY <1>2, <1>6 DEF PosOf
  <2>2. p # 0 /\ bs[k].index = p - 1
    BY <1>3, <2>1
  <2> QED
    BY <1>3, <1>4, <1>6, <2>2 DEF IsLoop
<1> QED
  BY <1>5, <1>6

(* br, br_if and return.                                                    *)
LEMMA JumpTargets ==
  ASSUME NEW q, NEW ls, NEW bs, NEW is, NEW bt, Targets(q, ls, bs, is, bt), Len(bs) # 0,
         NEW o, o.op \in {"Br", "BrIf", "Return"},
         NEW r, NEW js, NEW x, NEW ct, ct = bt, Emits(q, o, r, is, js, x, bt, ct),
         NEW k \in 1 .. Len(bs), k = (IF o.op = "Return" THEN 1 ELSE Len(bs) - o.x),
         "target_index" \in DOMAIN x, bs[k].kind = "Loop" => x.target_index = bs[k].index,
         NEW cs, Asked(bs, cs, Len(q), {<<k, Unset>>}),
         NEW ms, \A j \in 1 .. Len(bs) : ms[j].kind = ls[j].kind
  PROVE  Targets(r, ms, cs, js, ct)
<1>1. Lined(q, bs, is, bt)
  BY DEF Targets
<1>2. PICK n \in Nat : n = Len(q)
  BY <1>1 DEF Lined, IsSeq
<1>3. IsSeq(q) /\ IsSeq(is) /\ Len(is) = n /\ DepthAt(q)[n] = Len(bs)
  BY <1>1, <1>2 DEF Lined
<1>4. Longer(q, o, r) /\ Longer(is, x, js)
  BY <1>3, AppendLonger DEF Emits
<1>5. Len(r) = n + 1 /\ r[Len(r)] = o /\ js[Len(r)] = x
  BY <1>2, <1>3, <1>4 DEF Longer
<1>6. PICK p \in 0 .. Len(q) : /\ OpenAt(q, p, Len(q), k)
                               /\ IsLoop(q, p) <=> bs[k].kind = "Loop"
                               /\ IsLoop(q, p) => bs[k].index = p - 1
  BY LevelIsOpen
<1>7. PICK R : R = {<<k, Unset>>}
  OBVIOUS
<1>8. PICK i : i = n + 1
  OBVIOUS
<1>9. Awaited(cs, i, Unset) = IF bs[k].kind = "Loop" THEN {} ELSE {k}
  <2>1. PICK s \in Nat : s = Len(bt)
    BY <1>1 DEF Lined, IsSeq
  <2>2. Bounded(bs, n, s) /\ Asked(bs, cs, n, R)
    BY <1>1, <1>2, <1>7, <2>1 DEF Lined
  <2>3. <<k, Unset>> \in R /\ \A j : <<j, Unset>> \in R => j = k
    BY <1>7
  <2>4. i - 1 = n
    BY <1>8
  <2> QED
    BY <2>2, <2>3, <2>4, AwaitedNow
<1>10. PICK t : t = x.target_index
  OBVIOUS
<1>11. Lands(r, cs, t, Len(q) + 1, Unset, k)
  <2>1. IsLoop(q, p) => t = p - 1
    BY <1>6, <1>10
  <2>2. Awaited(cs, Len(q) + 1, Unset) = IF IsLoop(q, p) THEN {} ELSE {k}
    BY <1>2, <1>6, <1>8, <1>9
  <2>3. o.op \notin Openers \cup {"End"} /\ r = Append(q, o)
    BY DEF Openers, Emits
  <2> QED
    BY <1>3, <1>6, <2>1, <2>2, <2>3, LandsNow
<1>12. ExitLevel(r, Len(r)) = k
  <2>1. Grown(DepthAt(q), DepthAt(r), n, o)
    BY <1>2, <1>3, DepthExtends DEF Emits
  <2>2. n \in 0 .. n /\ Len(r) - 1 = n
    BY <1>5
  <2>3. DepthAt(r)[Len(r) - 1] = Len(bs)
    BY <1>3, <2>1, <2>2 DEF Grown
  <2> QED
    BY <1>5, <2>3 DEF ExitLevel
<1>13. Resolves(r, cs, js, ct, Len(r))
  <2>1. JumpOK(r, cs, js, Len(r))
    BY <1>2, <1>5, <1>10, <1>11, <1>12 DEF JumpOK
  <2>2. r[Len(r)].op \notin {"BrTable", "If", "Else"}
    BY <1>5
  <2> QED
    BY <2>1, <2>2 DEF Resolves, TableOK, IfOK, ElseOK
<1>14. NewSlots(R, Len(bt), Len(ct))
  BY <1>7 DEF NewSlots
<1>15. o.op \notin Openers \cup {"End", "Else"}
  BY DEF Openers
<1> QED
  BY <1>7, <1>13, <1>14, <1>15, AskedTargets

(* The arms of a br_table ask the blocks in R, each under its own slot.     *)
ArmsAsk(R, bs, arms, s) ==
  \A k, slot : <<k, slot>> \in R <=>
                 \E a \in 1 .. Len(arms) : k = Len(bs) - arms[a] /\ slot = s + a - 1

ArmsKnow(bs, o, s, ct) ==
  \A a \in 1 .. Len(o.arms) :
    LET k == Len(bs) - o.arms[a] IN
    k \in 1 .. Len(bs) /\ (bs[k].kind = "Loop" => ct[s + a].target_index = bs[k].index)

(* br_table.                                                                *)
LEMMA TableTargets ==
  ASSUME NEW q, NEW ls, NEW bs, NEW is, NEW bt, Targets(q, ls, bs, is, bt), Len(bs) # 0,
         NEW o, o.op = "BrTable", NEW s \in Nat, s = Len(bt),
         NEW r, NEW js, NEW x, NEW ct, Emits(q, o, r, is, js, x, bt, ct),
         x.start_index = s, Len(ct) = s + Len(o.arms), ArmsKnow(bs, o, s, ct),
         NEW R, ArmsAsk(R, bs, o.arms, s), NEW cs, Asked(bs, cs, Len(q), R),
         NEW ms, \A j \in 1 .. Len(bs) : ms[j].kind = ls[j].kind
  PROVE  Targets(r, ms, cs, js, ct)
<1>1. Lined(q, bs, is, bt)
  BY DEF Targets
<1>2. PICK n \in Nat : n = Len(q)
  BY <1>1 DEF Lined, IsSeq
<1>3. IsSeq(q) /\ IsSeq(is) /\ Len(is) = n /\ DepthAt(q)[n] = Len(bs) /\ Len(bs) \in Nat
  BY <1>1, <1>2 DEF Lined
<1>4. Longer(q, o, r) /\ Longer(is, x, js)
  BY <1>3, AppendLonger DEF Emits
<1>5. Len(r) = n + 1 /\ r[Len(r)] = o /\ js[Len(r)] = x
  BY <1>2, <1>3, <1>4 DEF Longer
<1>6. PICK z \in Nat : z = Len(o.arms)
  BY ArmsLength DEF Emits
<1>7. ASSUME NEW a \in 1 .. z
      PROVE  Lands(r, cs, ct[s + a].target_index, Len(r), s + a - 1, ArmLevel(r, Len(r), a))
  <2>1. PICK k : k = Len(bs) - o.arms[a]
    OBVIOUS
  <2>2. k \in 1 .. Len(bs) /\ (bs[k].kind = "Loop" => ct[s + a].target_index = bs[k].index)
    BY <1>6, <1>7, <2>1 DEF ArmsKnow
  <2>3. PICK p \in 0 .. Len(q) : /\ OpenAt(q, p, Len(q), k)
                                 /\ IsLoop(q, p) <=> bs[k].kind = "Loop"
                                 /\ IsLoop(q, p) => bs[k].index = p - 1
    BY <2>2, LevelIsOpen
  <2>4. PICK slot \in Nat : slot = s + a - 1 /\ slot >= s
    <3>1. PICK b \in Nat : b = a /\ b >= 1
      BY <1>7
    <3>2. s + b - 1 \in Nat /\ s + b - 1 >= s
      BY ONLY <3>1, s \in Nat, b \in Nat
    <3> QED
      BY <3>1, <3>2
  <2>5. PICK i : i = n + 1
    OBVIOUS
  <2>6. Awaited(cs, i, slot) = IF bs[k].kind = "Loop" THEN {} ELSE {k}
    <3>1. Bounded(bs, n, s) /\ Asked(bs, cs, n, R)
      BY <1>1, <1>2 DEF Lined
    <3>2. <<k, slot>> \in R
      BY <1>6, <1>7, <2>1, <2>4 DEF ArmsAsk
    <3>3. ASSUME NEW j, <<j, slot>> \in R
          PROVE  j = k
      <4>1. PICK c \in 1 .. z : j = Len(bs) - o.arms[c] /\ slot = s + c - 1
        BY SMTT(30), <1>6, <3>3 DEF ArmsAsk
      <4>2. c = a
        BY <1>7, <2>4, <4>1
      <4> QED
        BY <2>1, <4>1, <4>2
    <3>4. i - 1 = n
      BY <2>5
    <3>5. \A j : <<j, slot>> \in R => j = k
      BY <3>3
    <3>6. slot = Unset \/ (slot \in Nat /\ slot >= s)
      BY <2>4
    <3> QED
      BY ONLY <2>2, <3>1, <3>2, <3>4, <3>5, <3>6, n \in Nat, s \in Nat, AwaitedNow
  <2>7. PICK t : t = ct[s + a].target_index
    OBVIOUS
  <2>8. Lands(r, cs, t, Len(q) + 1, slot, k)
    <3>1. IsLoop(q, p) => t = p - 1
      BY <2>2, <2>3, <2>7
    <3>2. Awaited(cs, Len(q) + 1, slot) = IF IsLoop(q, p) THEN {} ELSE {k}
      BY <1>2, <2>3, <2>5, <2>6
    <3>3. o.op \notin Openers \cup {"End"} /\ r = Append(q, o)
      BY DEF Openers, Emits
    <3> QED
      BY <1>3, <2>3, <3>1, <3>2, <3>3, LandsNow
  <2>9. ArmLevel(r, Len(r), a) = k
    <3>1. Grown(DepthAt(q), DepthAt(r), n, o)
      BY <1>2, <1>3, DepthExtends DEF Emits
    <3>2. n \in 0 .. n /\ Len(r) - 1 = n
      BY <1>5
    <3>3. DepthAt(r)[Len(r) - 1] = Len(bs)
      BY <1>3, <3>1, <3>2 DEF Grown
    <3> QED
      BY <1>5, <2>1, <3>3 DEF ArmLevel
  <2>10. Len(r) = Len(q) + 1
    BY <1>2, <1>5
  <2> QED
    BY <2>4, <2>7, <2>8, <2>9, <2>10
<1>8. Resolves(r, cs, js, ct, Len(r))
  <2>1. TableOK(r, cs, js, ct, Len(r))
    <3>1. PICK i : i = Len(r)
      OBVIOUS
    <3>2. /\ r[i] = o /\ js[i].start_index = s
          /\ Len(ct) = s + z /\ Len(ct) \in Nat
      BY <1>5, <1>6, <3>1
    <3>3. \A a \in 1 .. z : Lands(r, cs, ct[s + a].target_index, i, s + a - 1, ArmLevel(r, i, a))
      BY <1>7, <3>1
    <3>4. TableOK(r, cs, js, ct, i)
      BY ONLY <1>6, <3>2, <3>3, s \in Nat, z \in Nat DEF TableOK
    <3> QED
      BY <3>1, <3>4
  <2>2. r[Len(r)].op = "BrTable"
    BY <1>5
  <2> QED
    BY <2>1, <2>2 DEF Resolves, JumpOK, IfOK, ElseOK
<1>9. NewSlots(R, Len(bt), Len(ct))
  <2>1. SUFFICES ASSUME NEW k, NEW slot, <<k, slot>> \in R
                 PROVE  slot \in s .. (s + z) - 1
    BY <1>6 DEF NewSlots
  <2>2. PICK a \in 1 .. z : slot = s + a - 1
    BY <1>6, <2>1 DEF ArmsAsk
  <2> QED
    BY <2>2
<1>10. o.op \notin Openers \cup {"End", "Else"}
  BY DEF Openers
<1> QED
  BY <1>8, <1>9, <1>10, AskedTargets

Opened(bs, cs, o, n) ==
  /\ Len(cs) = Len(bs) + 1
  /\ \A k \in 1 .. Len(bs) : cs[k] = bs[k]
  /\ cs[Len(cs)].kind = o.op /\ cs[Len(cs)].index = n
  /\ cs[Len(cs)].else_index = Unset /\ Pairs(cs[Len(cs)]) = {}

(* block, loop and if.                                                      *)
LEMMA OpenedTargets ==
  ASSUME NEW q, NEW ls, NEW bs, NEW is, NEW bt, Targets(q, ls, bs, is, bt), Len(bs) # 0,
         NEW o, o.op \in Openers,
         NEW r, NEW js, NEW x, NEW ct, ct = bt, Emits(q, o, r, is, js, x, bt, ct),
         o.op = "If" => DOMAIN x = {"op", "else_index", "end_index"},
         NEW cs, Opened(bs, cs, o, Len(q)),
         NEW ms, \A j \in 1 .. Len(bs) : ms[j].kind = ls[j].kind,
         ms[Len(bs) + 1].kind = o.op
  PROVE  Targets(r, ms, cs, js, ct)
<1>1. Lined(q, bs, is, bt)
  BY DEF Targets
<1>2. PICK n \in Nat : n = Len(q)
  BY <1>1 DEF Lined, IsSeq
<1>3. PICK m \in Nat \ {0} : m = Len(bs)
  BY <1>1 DEF Lined
<1>4. PICK s \in Nat : s = Len(bt)
  BY <1>1 DEF Lined, IsSeq
<1>5. IsSeq(q) /\ IsSeq(is) /\ Len(is) = n /\ DepthAt(q)[n] = m /\ r = Append(q, o)
  BY <1>1, <1>2, <1>3 DEF Lined, Emits
<1>6. Longer(q, o, r) /\ Longer(is, x, js)
  BY <1>5, AppendLonger DEF Emits
<1>7. Len(r) = n + 1 /\ r[Len(r)] = o /\ js[Len(r)] = x
  BY <1>2, <1>5, <1>6 DEF Longer
<1>8. PICK c \in Nat : c = m + 1
  OBVIOUS
<1>9. /\ Len(cs) = c /\ \A k \in 1 .. m : cs[k] = bs[k]
      /\ cs[c].kind = o.op /\ cs[c].index = n
      /\ cs[c].else_index = Unset /\ Pairs(cs[c]) = {}
  BY <1>2, <1>3, <1>8 DEF Opened
<1>10. Delta(o) = 1 /\ Opens(o) /\ o.op # "End" /\ o.op # "Else"
  BY DEF Delta, Opens, Openers
<1>11. Follow(bs, cs, n, s)
  <2>1. \A k \in 1 .. c : k \in 1 .. m \/ k = c
    BY <1>8
  <2>2. m <= c
    BY <1>8
  <2> QED
    BY <1>3, <1>9, <2>1, <2>2 DEF Follow
<1>12. Bounded(cs, n + 1, s)
  <2>1. Bounded(bs, n, s)
    BY <1>1, <1>2, <1>4 DEF Lined
  <2>2. SUFFICES ASSUME NEW k \in 1 .. c, NEW a \in Pairs(cs[k])
                 PROVE  a[1] \in 0 .. (n + 1) - 1 /\ (a[2] = Unset \/ a[2] \in 0 .. s - 1)
    BY <1>9 DEF Bounded
  <2>3. k \in 1 .. m
    BY <1>8, <1>9, <2>2
  <2>4. a[1] \in 0 .. n - 1 /\ (a[2] = Unset \/ a[2] \in 0 .. s - 1)
    BY <1>3, <1>9, <2>1, <2>2, <2>3 DEF Bounded
  <2> QED
    BY <2>4
<1>13. Lined(r, cs, js, ct)
  <2>1. c = Len(cs) /\ c = Len(bs) + Delta(o)
    BY <1>3, <1>8, <1>9, <1>10
  <2>2. Bounded(cs, Len(r), Len(ct))
    BY <1>4, <1>7, <1>12
  <2> QED
    BY <1>1, <2>1, <2>2, EmitsLined
<1>14. Adds(q, o, r, bs, cs, is, js, bt, ct)
  <2>1. Len(cs) \in Nat /\ \A k \in 1 .. Len(bs) : cs[k].kind = bs[k].kind
    BY <1>3, <1>9
  <2>2. Follow(bs, cs, Len(q), Len(bt))
    BY <1>2, <1>4, <1>11
  <2> QED
    BY <1>1, <1>10, <2>1, <2>2, EmitsAdds
<1>15. ASSUME NEW k \in 1 .. Len(cs)
       PROVE  Stands(r, ms, cs, k)
  <2>1. CASE k \in 1 .. m
    <3>1. Stands(q, ls, bs, k)
      BY <1>3, <2>1 DEF Targets
    <3>2. k \in Nat \ {0} /\ m + Delta(o) >= k /\ m \in Int
      BY <1>10, <2>1
    <3>3. /\ cs[k].kind = bs[k].kind /\ cs[k].index = bs[k].index
          /\ cs[k].else_index = bs[k].else_index /\ ms[k].kind = ls[k].kind
      BY <1>3, <1>9, <2>1
    <3>4. ~ (o.op = "Else" /\ m = k)
      BY <1>10
    <3>5. m = DepthAt(q)[Len(q)]
      BY <1>2, <1>5
    <3> QED
      BY <1>5, <3>1, <3>2, <3>3, <3>4, <3>5, StandsStill
  <2>2. CASE k = c
    <3>1. /\ cs[k].kind = o.op /\ cs[k].index = Len(q) /\ cs[k].else_index = Unset
          /\ ms[k].kind = o.op /\ k = m + 1 /\ m = DepthAt(q)[Len(q)]
      BY <1>2, <1>3, <1>5, <1>8, <1>9, <2>2
    <3> QED
      BY <1>5, <1>10, <3>1, StandsOpened
  <2> QED
    BY <1>8, <1>9, <2>1, <2>2
<1>16. Resolves(r, cs, js, ct, Len(r))
  <2>1. IfOK(r, js, Len(r))
    <3>1. OpenAt(r, Len(q) + 1, Len(q) + 1, DepthAt(q)[Len(q)] + 1)
      BY <1>5, <1>10, OpensNow
    <3>2. Grown(DepthAt(q), DepthAt(r), n, o)
      BY <1>2, <1>5, DepthExtends
    <3>3. DepthAt(r)[n + 1] = m + 1
      BY <1>5, <1>10, <3>2 DEF Grown
    <3>4. OpenAt(r, Len(r), Len(r), DepthAt(r)[Len(r)])
      BY <1>2, <1>5, <1>7, <3>1, <3>3
    <3> QED
      BY <1>7, <3>4 DEF IfOK
  <2>2. r[Len(r)].op \notin {"Br", "BrIf", "Return", "BrTable", "Else"}
    BY <1>7 DEF Openers
  <2> QED
    BY <2>1, <2>2 DEF Resolves, JumpOK, TableOK, ElseOK
<1>17. ASSUME NEW i \in 1 .. Len(r)
       PROVE  Resolves(r, cs, js, ct, i)
  <2>1. CASE i = Len(r)
    BY <1>16, <2>1
  <2>2. CASE i # Len(r)
    <3>1. i \in 1 .. Len(q)
      BY <1>2, <1>7, <2>2
    <3>2. Resolves(q, bs, is, bt, i)
      BY <3>1 DEF Targets
    <3> QED
      BY <1>1, <1>14, <3>1, <3>2, ResolvesStill
  <2> QED
    BY <2>1, <2>2
<1> QED
  BY <1>13, <1>15, <1>17 DEF Targets

ElseMet(bs, cs, m, n) ==
  /\ Len(cs) = m
  /\ \A k \in 1 .. m : /\ cs[k].kind = bs[k].kind /\ cs[k].index = bs[k].index
                       /\ Pairs(cs[k]) = Pairs(bs[k])
                       /\ cs[k].else_index = IF k = m THEN n ELSE bs[k].else_index

(* else.                                                                    *)
LEMMA ElseTargets ==
  ASSUME NEW q, NEW ls, NEW bs, NEW is, NEW bt, Targets(q, ls, bs, is, bt),
         NEW m \in Nat \ {0}, m = Len(bs),
         NEW o, o.op = "Else",
         NEW r, NEW js, NEW x, NEW ct, ct = bt, Emits(q, o, r, is, js, x, bt, ct),
         DOMAIN x = {"op", "if_end_index"},
         NEW cs, ElseMet(bs, cs, m, Len(q)), ls[m].kind = "If",
         NEW ms, \A j \in 1 .. m : ms[j].kind = IF j = m THEN "Else" ELSE ls[j].kind
  PROVE  Targets(r, ms, cs, js, ct)
<1>1. Lined(q, bs, is, bt)
  BY DEF Targets
<1>2. PICK n \in Nat : n = Len(q)
  BY <1>1 DEF Lined, IsSeq
<1>4. PICK s \in Nat : s = Len(bt)
  BY <1>1 DEF Lined, IsSeq
<1>5. IsSeq(q) /\ IsSeq(is) /\ Len(is) = n /\ DepthAt(q)[n] = m /\ r = Append(q, o)
  BY <1>1, <1>2 DEF Lined, Emits
<1>6. Longer(q, o, r) /\ Longer(is, x, js)
  BY <1>5, AppendLonger DEF Emits
<1>7. Len(r) = n + 1 /\ r[Len(r)] = o /\ js[Len(r)] = x
  BY <1>2, <1>5, <1>6 DEF Longer
<1>8. m \in 1 .. m /\ Stands(q, ls, bs, m)
  BY DEF Targets
<1>9. /\ Len(cs) = m
      /\ \A k \in 1 .. m : /\ cs[k].kind = bs[k].kind /\ cs[k].index = bs[k].index
                           /\ Pairs(cs[k]) = Pairs(bs[k])
                           /\ cs[k].else_index = IF k = m THEN n ELSE bs[k].else_index
  BY <1>2 DEF ElseMet
<1>10. Delta(o) = 0 /\ o.op # "End"
  BY DEF Delta, Opens, Openers
<1>3. Stands(r, ms, cs, m) /\ bs[m].kind = "If" /\ bs[m].else_index = Unset
  <2>1. /\ cs[m].kind = bs[m].kind /\ cs[m].index = bs[m].index
        /\ cs[m].else_index = Len(q) /\ ms[m].kind = "Else" /\ m = DepthAt(q)[Len(q)]
    BY <1>2, <1>5, <1>8, <1>9
  <2>2. MeetsElse(q, o, r, m, bs, cs, ls, ms)
    BY <1>5, <1>8, <2>1 DEF MeetsElse
  <2> QED
    BY <2>2, StandsElse
<1>11. Follow(bs, cs, n, s)
  BY <1>3, <1>9 DEF Follow
<1>12. Bounded(cs, n + 1, s)
  <2>1. Bounded(bs, n, s)
    BY <1>1, <1>2, <1>4 DEF Lined
  <2>2. SUFFICES ASSUME NEW k \in 1 .. m, NEW a \in Pairs(cs[k])
                 PROVE  a[1] \in 0 .. (n + 1) - 1 /\ (a[2] = Unset \/ a[2] \in 0 .. s - 1)
    BY <1>9 DEF Bounded
  <2>3. a[1] \in 0 .. n - 1 /\ (a[2] = Unset \/ a[2] \in 0 .. s - 1)
    BY <1>9, <2>1, <2>2 DEF Bounded
  <2> QED
    BY <2>3
<1>13. Lined(r, cs, js, ct)
  <2>1. m = Len(cs) /\ m = Len(bs) + Delta(o) /\ Len(bs) # 0
    BY <1>9, <1>10
  <2>2. Bounded(cs, Len(r), Len(ct))
    BY <1>4, <1>7, <1>12
  <2> QED
    BY <1>1, <2>1, <2>2, EmitsLined
<1>14. Adds(q, o, r, bs, cs, is, js, bt, ct)
  <2>1. Len(cs) \in Nat /\ \A k \in 1 .. Len(bs) : cs[k].kind = bs[k].kind
    BY <1>9
  <2>2. Follow(bs, cs, Len(q), Len(bt))
    BY <1>2, <1>4, <1>11
  <2> QED
    BY <1>1, <1>10, <2>1, <2>2, EmitsAdds
<1>15. ASSUME NEW k \in 1 .. Len(cs)
       PROVE  Stands(r, ms, cs, k)
  <2>1. CASE k = m
    BY <1>3, <2>1
  <2>2. CASE k # m
    <3>1. Stands(q, ls, bs, k)
      BY <1>9 DEF Targets
    <3>2. k \in Nat \ {0} /\ m + Delta(o) >= k /\ m \in Int
      BY <1>9, <1>10
    <3>3. /\ cs[k].kind = bs[k].kind /\ cs[k].index = bs[k].index
          /\ cs[k].else_index = bs[k].else_index /\ ms[k].kind = ls[k].kind
      BY <1>9, <2>2
    <3>4. ~ (o.op = "Else" /\ m = k)
      BY <2>2
    <3>5. m = DepthAt(q)[Len(q)]
      BY <1>2, <1>5
    <3> QED
      BY <1>5, <3>1, <3>2, <3>3, <3>4, <3>5, StandsStill
  <2> QED
    BY <2>1, <2>2
<1>16. Resolves(r, cs, js, ct, Len(r))
  <2>1. ElseOK(r, cs, js, Len(r))
    <3>1. PICK p : p = PosOf(bs, m)
      OBVIOUS
    <3>2. OpenAt(q, p, n, m) /\ bs[m].index \in Nat /\ m # 1
      BY <1>2, <1>3, <1>8, <3>1 DEF Stands
    <3>3. p = bs[m].index + 1
      BY <3>1, <3>2 DEF PosOf
    <3>4. p \in 1 .. n
      <4>1. p \in 0 .. n
        BY <1>2, <1>5, <3>2, OpenFacts
      <4> QED
        BY <3>2, <3>3, <4>1
    <3>5. OpenAt(r, p, n, m)
      BY <1>2, <1>5, <3>2, OpenExtends
    <3>6. OpenAt(r, p, Len(r), m)
      BY ZenonT(30), <1>2, <1>5, <1>10, <3>2, OpenStill
    <3>7. Grown(DepthAt(q), DepthAt(r), n, o)
      <4>1. IsSeq(q) /\ r = Append(q, o)
        BY <1>5
      <4>2. Grown(DepthAt(q), DepthAt(r), Len(q), o)
        BY ONLY <4>1, DepthExtends
      <4> QED
        BY ONLY <1>2, <4>2
    <3>8. DepthAt(r)[Len(r)] = m
      BY <1>5, <1>7, <1>10, <3>7 DEF Grown
    <3>9. Len(r) - 1 = n
      BY <1>7
    <3>10. cs[m].else_index = n /\ cs[m].kind = "If"
      BY <1>3, <1>8, <1>9
    <3> QED
      BY <1>7, <3>4, <3>5, <3>6, <3>8, <3>9, <3>10 DEF ElseOK
  <2>2. r[Len(r)].op = "Else"
    BY <1>7
  <2> QED
    BY <2>1, <2>2 DEF Resolves, JumpOK, TableOK, IfOK
<1>17. ASSUME NEW i \in 1 .. Len(r)
       PROVE  Resolves(r, cs, js, ct, i)
  <2>1. CASE i = Len(r)
    BY <1>16, <2>1
  <2>2. CASE i # Len(r)
    <3>1. i \in 1 .. Len(q)
      BY <1>2, <1>7, <2>2
    <3>2. Resolves(q, bs, is, bt, i)
      BY <3>1 DEF Targets
    <3> QED
      BY <1>1, <1>14, <3>1, <3>2, ResolvesStill
  <2> QED
    BY <2>1, <2>2
<1> QED
  BY <1>13, <1>15, <1>17 DEF Targets

(* end.                                                                     *)
LEMMA EndTargets ==
  ASSUME NEW q, NEW ls, NEW bs, NEW is, NEW bt, Targets(q, ls, bs, is, bt),
         NEW o, IsOperator(o), NEW r, NEW cs, NEW js, NEW ct,
         Ends(q, o, r, bs, cs, is, js, bt, ct), NextLine(q, o, r, is, js, ct),
         NEW ms, \A j \in 1 .. Len(cs) : ms[j].kind = ls[j].kind
  PROVE  Targets(r, ms, cs, js, ct)
<1>1. Lined(q, bs, is, bt)
  BY DEF Targets
<1>2. PICK n \in Nat : n = Len(q)
  BY <1>1 DEF Lined, IsSeq
<1>3. PICK m \in Nat \ {0} : m = Len(bs)
  BY DEF Ends
<1>4. PICK s \in Nat : s = Len(bt)
  BY DEF Ends
<1>5. /\ IsSeq(q) /\ r = Append(q, o) /\ o.op = "End" /\ DepthAt(q)[n] = m
      /\ Popped(bs, cs, m) /\ Len(ct) = s
  BY <1>2, <1>3, <1>4 DEF Ends
<1>6. Len(r) = n + 1 /\ r[Len(r)] = o
  <2>1. Longer(q, o, r)
    BY <1>5, AppendLonger
  <2> QED
    BY <1>2, <2>1 DEF Longer
<1>7. Delta(o) = -1
  BY <1>5 DEF Delta, Opens, Openers
<1>8. PICK c \in Nat : c = m - 1
  OBVIOUS
<1>9. Len(cs) = c /\ \A k \in 1 .. c : cs[k] = bs[k]
  BY <1>5, <1>8 DEF Popped
<1>10. Bounded(cs, n + 1, s)
  <2>1. Bounded(bs, n, s)
    BY <1>1, <1>2, <1>4 DEF Lined
  <2>2. SUFFICES ASSUME NEW k \in 1 .. c, NEW a \in Pairs(cs[k])
                 PROVE  a[1] \in 0 .. (n + 1) - 1 /\ (a[2] = Unset \/ a[2] \in 0 .. s - 1)
    BY <1>9 DEF Bounded
  <2>3. k \in 1 .. m
    BY <1>8
  <2>4. a[1] \in 0 .. n - 1 /\ (a[2] = Unset \/ a[2] \in 0 .. s - 1)
    BY <1>3, <1>9, <2>1, <2>2, <2>3 DEF Bounded
  <2> QED
    BY <2>4
<1>11. Lined(r, cs, js, ct)
  <2>1. c = Len(cs) /\ c = Len(bs) + Delta(o) /\ Len(bs) # 0
    BY <1>3, <1>7, <1>8, <1>9
  <2>2. Bounded(cs, Len(r), Len(ct))
    BY <1>5, <1>6, <1>10
  <2> QED
    BY <1>1, <2>1, <2>2, LinedNext
<1>12. ASSUME NEW k \in 1 .. Len(cs)
       PROVE  Stands(r, ms, cs, k)
  <2>1. k \in 1 .. Len(bs)
    BY <1>3, <1>8, <1>9
  <2>2. Stands(q, ls, bs, k)
    BY <2>1 DEF Targets
  <2>3. k \in Nat \ {0} /\ m + Delta(o) >= k /\ m \in Int
    BY <1>7, <1>8, <1>9
  <2>4. /\ cs[k].kind = bs[k].kind /\ cs[k].index = bs[k].index
        /\ cs[k].else_index = bs[k].else_index /\ ms[k].kind = ls[k].kind
    BY <1>9
  <2>5. ~ (o.op = "Else" /\ m = k) /\ m = DepthAt(q)[Len(q)]
    BY <1>2, <1>5
  <2> QED
    BY <1>5, <2>2, <2>3, <2>4, <2>5, StandsStill
<1>13. Resolves(r, cs, js, ct, Len(r))
  BY <1>5, <1>6 DEF Resolves, JumpOK, TableOK, IfOK, ElseOK
<1>14. ASSUME NEW i \in 1 .. Len(r)
       PROVE  Resolves(r, cs, js, ct, i)
  <2>1. CASE i = Len(r)
    BY <1>13, <2>1
  <2>2. CASE i # Len(r)
    <3>1. i \in 1 .. Len(q)
      BY <1>2, <1>6, <2>2
    <3>2. Resolves(q, bs, is, bt, i) /\ Stands(q, ls, bs, Len(bs))
      BY <1>3, <3>1 DEF Targets
    <3> QED
      BY <1>1, <3>1, <3>2, ResolvesAtEnd
  <2> QED
    BY <2>1, <2>2
<1> QED
  BY <1>11, <1>12, <1>14 DEF Targets

-----------------------------------------------------------------------------
(* What the rules do to the blocks, the instructions and the labels.        *)

(* The record after a rule: the blocks in R are asked for operator n, and   *)
(* instruction x is emitted.                                                *)
Writes(L, M, n, R, x) ==
  /\ Asked(L.inner, M.inner, n, R)
  /\ M.instructions = Append(L.instructions, x)
  /\ M.br_targets = L.br_targets

LEMMA AskedNothing ==
  ASSUME NEW bs, NEW n
  PROVE  Asked(bs, bs, n, {})
BY DEF Asked, SameFrames

LEMMA AttachAsks ==
  ASSUME NEW L, Formed(L), NEW k \in 1 .. Len(L.inner), NEW slot \in Int,
         NEW M, M = attach(L, k, slot)
  PROVE  Asked(L.inner, M.inner, len(L), {<<k, slot>>})
<1>1. PICK bs \in Seq(StackBlock) : bs = L.inner
  BY DEF Formed
<1>2. bs[k] \in StackBlock /\ Len(bs) \in Nat
  BY <1>1
<1>3. PICK n : n = len(L)
  OBVIOUS
<1>4. PICK R : R = {<<k, slot>>}
  OBVIOUS
<1>5. \A j, c : <<j, c>> \in R <=> j = k /\ c = slot
  BY <1>4
<1>6. CASE L.inner[k].kind = "Loop"
  <2>1. M.inner = bs
    BY <1>1, <1>6 DEF attach
  <2>2. Asked(bs, bs, n, R)
    BY <1>1, <1>5, <1>6 DEF Asked, SameFrames
  <2> QED
    BY <1>1, <1>3, <1>4, <2>1, <2>2
<1>7. CASE L.inner[k].kind # "Loop"
  <2>1. PICK w : w = <<n, slot>>
    OBVIOUS
  <2>2. PICK q : q = Append(bs[k].attached_breaks, w)
    OBVIOUS
  <2>3. Range(q) = Pairs(bs[k]) \cup {w}
    <3>1. PICK t \in Seq(Nat \X Int) : t = bs[k].attached_breaks
      BY <1>2, BlockFields
    <3>2. IsSeq(t) /\ DOMAIN t = 1 .. Len(t)
      BY SMTT(30), <3>1 DEF IsSeq
    <3>3. Longer(t, w, q)
      BY <2>2, <3>1, <3>2, AppendLonger
    <3>4. DOMAIN q = 1 .. Len(q)
      BY <3>3 DEF Longer, IsSeq
    <3>5. PICK z \in Nat : z = Len(t)
      BY <3>2 DEF IsSeq
    <3>6. Len(q) = z + 1 /\ q[z + 1] = w /\ \A i \in 1 .. z : q[i] = t[i]
      BY <3>3, <3>5 DEF Longer
    <3>7. ASSUME NEW a
          PROVE  a \in Range(q) <=> a \in Range(t) \/ a = w
      <4>1. a \in Range(q) <=> \E i \in 1 .. z + 1 : a = q[i]
        BY <3>4, <3>6 DEF Range
      <4>2. a \in Range(t) <=> \E i \in 1 .. z : a = t[i]
        BY <3>2, <3>5 DEF Range
      <4>3. \A i : i \in 1 .. z + 1 <=> i \in 1 .. z \/ i = z + 1
        OBVIOUS
      <4> QED
        BY <3>6, <4>1, <4>2, <4>3
    <3> QED
      BY <3>1, <3>7 DEF Pairs
  <2>4. PICK b : b = [bs[k] EXCEPT !.attached_breaks = q]
    OBVIOUS
  <2>5. /\ b.kind = bs[k].kind /\ b.index = bs[k].index /\ b.else_index = bs[k].else_index
        /\ Pairs(b) = Pairs(bs[k]) \cup {w}
    BY <1>2, <2>3, <2>4 DEF StackBlock, Pairs
  <2>6. PICK cs : cs = [bs EXCEPT ![k] = b]
    OBVIOUS
  <2>7. M.inner = cs
    BY <1>1, <1>3, <1>7, <2>1, <2>2, <2>4, <2>6 DEF attach, Formed
  <2>8. Len(cs) = Len(bs) /\ \A j \in 1 .. Len(bs) : cs[j] = IF j = k THEN b ELSE bs[j]
    BY <1>1, <2>6
  <2>9. SameFrames(bs, cs)
    BY <2>5, <2>8 DEF SameFrames
  <2>10. ASSUME NEW j \in 1 .. Len(bs), NEW a
         PROVE  a \in Pairs(cs[j]) <=>
                  \/ a \in Pairs(bs[j])
                  \/ bs[j].kind # "Loop" /\ \E c : <<j, c>> \in R /\ a = <<n, c>>
    <3>1. CASE j = k
      <4>1. (\E c : <<j, c>> \in R /\ a = <<n, c>>) <=> a = w
        BY <1>5, <2>1, <3>1
      <4>2. bs[j].kind # "Loop" /\ cs[j] = b
        BY <1>1, <1>7, <2>8, <3>1
      <4> QED
        BY <2>5, <3>1, <4>1, <4>2
    <3>2. CASE j # k
      <4>1. ~ \E c : <<j, c>> \in R /\ a = <<n, c>>
        BY <1>5, <3>2
      <4> QED
        BY <2>8, <3>2, <4>1
    <3> QED
      BY <3>1, <3>2
  <2>11. Asked(bs, cs, n, R)
    BY <2>9, <2>10 DEF Asked
  <2> QED
    BY <1>1, <1>3, <1>4, <2>7, <2>11
<1> QED
  BY <1>6, <1>7

(* Marking the innermost block dead asks nothing of any.                    *)
LEMMA MarkAsks ==
  ASSUME NEW M, Formed(M), M.inner # <<>>, NEW N, N = set_unreachable_traversing(M), NEW n
  PROVE  /\ Asked(M.inner, N.inner, n, {})
         /\ N.instructions = M.instructions /\ N.br_targets = M.br_targets
<1>1. PICK m \in Nat \ {0} : m = Len(M.inner)
  BY Blocks
<1>2. M.inner[m] \in StackBlock
  BY <1>1, Blocks
<1>3. PICK b : b = [M.inner[m] EXCEPT !.is_unreachable_traversing = TRUE]
  OBVIOUS
<1>4. /\ b \in StackBlock /\ b.kind = M.inner[m].kind /\ b.index = M.inner[m].index
      /\ b.else_index = M.inner[m].else_index /\ Pairs(b) = Pairs(M.inner[m])
  BY <1>2, <1>3 DEF StackBlock, Pairs
<1>5. N = with_curr_block(M, b)
  BY <1>1, <1>3 DEF set_unreachable_traversing, current, with_curr_block
<1>6. BlockRewritten(M, N, b)
  BY <1>4, <1>5, Rewritten
<1>7. /\ Len(N.inner) = m /\ N.inner[m] = b
      /\ \A k \in 1 .. m - 1 : N.inner[k] = M.inner[k]
      /\ N.instructions = M.instructions /\ N.br_targets = M.br_targets
  BY <1>1, <1>6 DEF BlockRewritten
<1>8. ASSUME NEW k \in 1 .. m
      PROVE  /\ N.inner[k].kind = M.inner[k].kind /\ N.inner[k].index = M.inner[k].index
             /\ N.inner[k].else_index = M.inner[k].else_index
             /\ Pairs(N.inner[k]) = Pairs(M.inner[k])
  <2>1. CASE k = m
    BY <1>4, <1>7, <2>1
  <2>2. CASE k # m
    BY <1>7, <2>2
  <2> QED
    BY <2>1, <2>2
<1>9. Asked(M.inner, N.inner, n, {})
  BY <1>1, <1>7, <1>8 DEF Asked, SameFrames
<1> QED
  BY <1>7, <1>9

LEMMA MarkWrites ==
  ASSUME NEW L, NEW M, Formed(M), M.inner # <<>>, NEW n, NEW R, NEW x, Writes(L, M, n, R, x),
         NEW N, N = set_unreachable_traversing(M)
  PROVE  Writes(L, N, n, R, x)
<1>1. Asked(M.inner, N.inner, n, {}) /\ N.instructions = M.instructions /\ N.br_targets = M.br_targets
  BY MarkAsks
<1>2. Asked(L.inner, N.inner, n, R \cup {})
  BY <1>1, AskedChain DEF Writes
<1>3. R \cup {} = R
  OBVIOUS
<1> QED
  BY <1>1, <1>2, <1>3 DEF Writes

(* Nor does a change of height.                                             *)
SameCode(L, M) ==
  M.inner = L.inner /\ M.instructions = L.instructions /\ M.br_targets = L.br_targets

LEMMA HeightIsAside ==
  ASSUME NEW L, Formed(L), NEW i, NEW j
  PROVE  /\ SameCode(L, set_height(L, i))
         /\ SameCode(L, apply_stack_effects_to_height(L, i, j))
<1>1. \A h : SameCode(L, note_height(L, h))
  BY DEF SameCode, note_height, Formed
<1> QED
  BY <1>1 DEF set_height, apply_stack_effects_to_height, SameCode

LEMMA PushWrites ==
  ASSUME NEW L, NEW A, Formed(A), NEW n, NEW R, Asked(L.inner, A.inner, n, R),
         A.instructions = L.instructions, A.br_targets = L.br_targets, NEW x
  PROVE  Writes(L, push(A, x), n, R, x)
BY DEF push, Formed, Writes

LEMMA JumpWrites ==
  ASSUME NEW L, Formed(L), NEW k \in 1 .. Len(L.inner), NEW op, NEW b, b = L.inner[k],
         NEW x, x = Jump(op, branch_target(b), branch_arity(b), b.recorded_height)
  PROVE  Writes(L, JumpTo(L, op, k), len(L), {<<k, Unset>>}, x)
<1>1. PICK A : A = attach(L, k, Unset)
  OBVIOUS
<1>2. Unset \in Int
  BY DEF Unset
<1>3. Asked(L.inner, A.inner, len(L), {<<k, Unset>>}) /\ AlikeBlocks(L, A)
  BY <1>1, <1>2, AttachAsks, AttachAlike
<1>4. Formed(A) /\ A.instructions = L.instructions /\ A.br_targets = L.br_targets
  BY <1>3 DEF AlikeBlocks
<1>5. JumpTo(L, op, k) = push(A, x)
  BY <1>1 DEF JumpTo
<1> QED
  BY <1>3, <1>4, <1>5, PushWrites

-----------------------------------------------------------------------------
(* Each rule.                                                               *)

Held(q, L, v) == Targets(q, v.labels, L.inner, L.instructions, L.br_targets)

Ready(q, L, v, o) ==
  /\ Tracks(L, v) /\ ReaderInv(v) /\ v.labels # <<>>
  /\ IsOperator(o) /\ Allowed(v, o) /\ Held(q, L, v)

LEMMA ReadyFacts ==
  ASSUME NEW q, NEW L, NEW v, NEW o, Ready(q, L, v, o)
  PROVE  /\ Formed(L) /\ L.inner # <<>> /\ Len(L.inner) \in Nat \ {0}
         /\ Len(v.labels) = Len(L.inner)
         /\ len(L) = Len(q) /\ Len(q) \in Nat
         /\ Lined(q, L.inner, L.instructions, L.br_targets)
<1>1. Len(L.inner) = Len(v.labels) /\ Len(L.inner) \in Nat \ {0} /\ L.inner # <<>>
  BY Innermosts DEF Ready
<1>2. Lined(q, L.inner, L.instructions, L.br_targets)
  BY DEF Ready, Held, Targets
<1>3. len(L) = Len(q) /\ Len(q) \in Nat
  BY <1>2 DEF Lined, len, IsSeq
<1> QED
  BY <1>1, <1>2, <1>3 DEF Ready, Tracks

LEMMA WritesEmits ==
  ASSUME NEW q, NEW L, NEW v, NEW o, Ready(q, L, v, o), NEW r, r = Append(q, o),
         NEW M, NEW n, NEW R, NEW x, Writes(L, M, n, R, x), x.op = o.op
  PROVE  Emits(q, o, r, L.instructions, M.instructions, x, L.br_targets, M.br_targets)
<1>1. M.instructions = Append(L.instructions, x) /\ M.br_targets = L.br_targets
  BY DEF Writes
<1>2. Lined(q, L.inner, L.instructions, L.br_targets)
  BY ReadyFacts
<1>3. /\ IsSeq(L.br_targets) /\ Len(L.br_targets) \in Nat
      /\ \A s \in 1 .. Len(L.br_targets) : "target_index" \in DOMAIN L.br_targets[s]
  BY <1>2 DEF Lined, IsSeq
<1> QED
  BY <1>1, <1>3 DEF Emits, Ready

LEMMA QuietHeld ==
  ASSUME NEW q, NEW L, NEW v, NEW o, Ready(q, L, v, o),
         o.op \notin Openers \cup {"End", "Else", "Br", "BrIf", "Return", "BrTable"},
         NEW r, r = Append(q, o),
         NEW M, NEW n, n = Len(q), NEW x, Writes(L, M, n, {}, x), x.op = o.op
  PROVE  Held(r, M, Validated(v, o))
<1>1. PICK ms : ms = Validated(v, o).labels
  OBVIOUS
<1>2. \A k \in 1 .. Len(L.inner) : ms[k].kind = v.labels[k].kind
  BY <1>1, ReadyFacts, ValidatedKinds DEF Ready, SameKinds
<1>3. Emits(q, o, r, L.instructions, M.instructions, x, L.br_targets, M.br_targets)
  BY WritesEmits
<1>4. Asked(L.inner, M.inner, Len(q), {}) /\ M.br_targets = L.br_targets
  BY DEF Writes
<1>5. Targets(q, v.labels, L.inner, L.instructions, L.br_targets) /\ Len(L.inner) # 0
  BY ReadyFacts DEF Ready, Held
<1>6. Targets(r, ms, M.inner, M.instructions, M.br_targets)
  BY <1>2, <1>3, <1>4, <1>5, QuietTargets
<1> QED
  BY <1>1, <1>6 DEF Held

LEMMA JumpHeld ==
  ASSUME NEW q, NEW L, NEW v, NEW o, Ready(q, L, v, o),
         o.op \in {"Br", "BrIf", "Return"}, NEW r, r = Append(q, o),
         NEW k \in 1 .. Len(L.inner),
         k = (IF o.op = "Return" THEN 1 ELSE Len(L.inner) - o.x), NEW b, b = L.inner[k],
         NEW x, x = Jump(o.op, branch_target(b), branch_arity(b), b.recorded_height),
         NEW M, NEW n, n = Len(q), Writes(L, M, n, {<<k, Unset>>}, x)
  PROVE  Held(r, M, Validated(v, o))
<1>1. PICK ms : ms = Validated(v, o).labels
  OBVIOUS
<1>2. o.op \notin Openers \cup {"Else", "End"}
  BY DEF Openers
<1>3. \A j \in 1 .. Len(L.inner) : ms[j].kind = v.labels[j].kind
  BY <1>1, <1>2, ReadyFacts, ValidatedKinds DEF Ready, SameKinds
<1>4. /\ x.op = o.op /\ "target_index" \in DOMAIN x
      /\ b.kind = "Loop" => x.target_index = b.index
  BY SMTT(30) DEF Jump, branch_target
<1>5. Emits(q, o, r, L.instructions, M.instructions, x, L.br_targets, M.br_targets)
  BY <1>4, WritesEmits
<1>6. Asked(L.inner, M.inner, Len(q), {<<k, Unset>>}) /\ M.br_targets = L.br_targets
  BY DEF Writes
<1>7. Targets(q, v.labels, L.inner, L.instructions, L.br_targets) /\ Len(L.inner) # 0
  BY SMTT(30), ReadyFacts DEF Ready, Held
<1>8. L.inner[k].kind = "Loop" => x.target_index = L.inner[k].index
  BY <1>4
<1>9. Targets(r, ms, M.inner, M.instructions, M.br_targets)
  <2>1. PICK bs : bs = L.inner
    OBVIOUS
  <2>2. PICK bt : bt = L.br_targets
    OBVIOUS
  <2>3. PICK j \in 1 .. Len(bs) : j = k /\ j = (IF o.op = "Return" THEN 1 ELSE Len(bs) - o.x)
    BY SMTT(30), <2>1
  <2>4. /\ Targets(q, v.labels, bs, L.instructions, bt) /\ Len(bs) # 0
        /\ o.op \in {"Br", "BrIf", "Return"}
        /\ M.br_targets = bt /\ Emits(q, o, r, L.instructions, M.instructions, x, bt, M.br_targets)
        /\ "target_index" \in DOMAIN x /\ (bs[j].kind = "Loop" => x.target_index = bs[j].index)
        /\ Asked(bs, M.inner, Len(q), {<<j, Unset>>})
        /\ \A i \in 1 .. Len(bs) : ms[i].kind = v.labels[i].kind
    BY ZenonT(30), <1>3, <1>4, <1>5, <1>6, <1>7, <1>8, <2>1, <2>2, <2>3
  <2> QED
    BY ONLY <2>3, <2>4, JumpTargets
<1> QED
  BY <1>1, <1>9 DEF Held

LEMMA PlainHeld ==
  ASSUME NEW q, NEW L, NEW v, NEW o, Ready(q, L, v, o), Plain(o) \/ IsCall(o), NEW i, NEW j,
         NEW r, r = Append(q, o)
  PROVE  Held(r, push(apply_stack_effects_to_height(L, i, j), o), Validated(v, o))
<1>1. PICK A : A = apply_stack_effects_to_height(L, i, j)
  OBVIOUS
<1>2. Formed(L) /\ SameCode(L, A)
  BY <1>1, ReadyFacts, HeightIsAside
<1>3. Writes(L, push(A, o), Len(q), {}, o)
  <2>1. Asked(L.inner, A.inner, Len(q), {}) /\ DOMAIN A = DOMAIN L
    BY <1>1, <1>2, AskedNothing
       DEF SameCode, apply_stack_effects_to_height, note_height, Formed
  <2> QED
    BY <1>2, <2>1 DEF push, Formed, Writes, SameCode
<1>4. o.op \notin Openers \cup {"End", "Else", "Br", "BrIf", "Return", "BrTable"}
  BY OperatorCases DEF Ready, Openers, IsCall
<1> QED
  BY <1>1, <1>3, <1>4, QuietHeld

LEMMA TrapHeld ==
  ASSUME NEW q, NEW L, NEW v, NEW o, Ready(q, L, v, o), o.op = "Unreachable",
         NEW r, r = Append(q, o)
  PROVE  Held(r, LowerUnreachable(L), Validated(v, o))
<1>1. PICK A : A = set_unreachable_traversing(L)
  OBVIOUS
<1>2. Formed(L) /\ L.inner # <<>>
  BY ReadyFacts
<1>3. Formed(A)
  BY <1>1, MarkTracks DEF Ready, Tracks
<1>4. Asked(L.inner, A.inner, Len(q), {}) /\ A.instructions = L.instructions /\ A.br_targets = L.br_targets
  BY <1>1, <1>2, MarkAsks
<1>5. PICK x : x = [op |-> "Unreachable"]
  OBVIOUS
<1>6. Writes(L, push(A, x), Len(q), {}, x)
  BY <1>3, <1>4, PushWrites
<1>7. x.op = o.op /\ o.op \notin Openers \cup {"End", "Else", "Br", "BrIf", "Return", "BrTable"}
  BY <1>5 DEF Openers
<1>8. LowerUnreachable(L) = push(A, x)
  BY <1>1, <1>5 DEF LowerUnreachable
<1> QED
  BY <1>6, <1>7, <1>8, QuietHeld

(* The level a branch names, as the lowering finds it.                      *)
LEMMA BranchLevel ==
  ASSUME NEW q, NEW L, NEW v, NEW o, Ready(q, L, v, o), NEW d \in Nat, d < Len(v.labels)
  PROVE  block_at(L, d) \in 1 .. Len(L.inner) /\ block_at(L, d) = Len(L.inner) - d
BY ReadyFacts, BranchDepth DEF Ready, block_at, current

LEMMA BranchesHeld ==
  ASSUME NEW q, NEW L, NEW v, NEW o, Ready(q, L, v, o), NEW r, r = Append(q, o)
  PROVE  /\ o.op = "Br" => Held(r, LowerBr(L, o.x), Validated(v, o))
         /\ o.op = "BrIf" => Held(r, LowerBrIf(L, o.x), Validated(v, o))
         /\ o.op = "Return" => Held(r, LowerReturn(L), Validated(v, o))
<1> DEFINE Jumps == {"Br", "BrIf", "Return"}
<1>1. SUFFICES ASSUME o.op \in Jumps
               PROVE  /\ o.op = "Br" => Held(r, LowerBr(L, o.x), Validated(v, o))
                      /\ o.op = "BrIf" => Held(r, LowerBrIf(L, o.x), Validated(v, o))
                      /\ o.op = "Return" => Held(r, LowerReturn(L), Validated(v, o))
  OBVIOUS
<1>2. PICK k \in 1 .. Len(L.inner) :
        /\ k = (IF o.op = "Return" THEN 1 ELSE Len(L.inner) - o.x)
        /\ o.op # "Return" => k = block_at(L, o.x)
  <2>1. CASE o.op = "Return"
    <3>1. 1 \in 1 .. Len(L.inner)
      BY ReadyFacts
    <3> QED
      BY <2>1, <3>1
  <2>2. CASE o.op # "Return"
    <3>1. o.op \in {"Br", "BrIf"} /\ IsOperator(o) /\ Allowed(v, o)
      BY <1>1, <2>2 DEF Ready
    <3>2. o.x \in Nat /\ o.x < Len(v.labels)
      BY <3>1, AllowedCases DEF IsOperator, Depths
    <3>3. block_at(L, o.x) \in 1 .. Len(L.inner) /\ block_at(L, o.x) = Len(L.inner) - o.x
      BY <3>2, BranchLevel
    <3> QED
      BY <2>2, <3>3
  <2> QED
    BY <2>1, <2>2
<1>3. PICK b : b = L.inner[k]
  OBVIOUS
<1>4. PICK x : x = Jump(o.op, branch_target(b), branch_arity(b), b.recorded_height)
  OBVIOUS
<1>5. PICK M : M = JumpTo(L, o.op, k)
  OBVIOUS
<1>6. Formed(L) /\ L.inner # <<>> /\ len(L) = Len(q)
  BY ReadyFacts
<1>7. Writes(L, M, Len(q), {<<k, Unset>>}, x)
  BY <1>3, <1>4, <1>5, <1>6, JumpWrites
<1>8. Formed(M) /\ M.inner # <<>>
  <2>1. Tracks(M, v)
    BY <1>5, JumpTracks DEF Ready
  <2>2. Len(M.inner) = Len(v.labels) /\ Len(v.labels) # 0
    BY <2>1, ReadyFacts DEF Tracks, Fits
  <2> QED
    BY <2>1, <2>2 DEF Tracks
<1>9. CASE o.op = "BrIf"
  <2>1. PICK N : N = apply_stack_effects_to_height(M, 1, 0)
    OBVIOUS
  <2>2. Writes(L, N, Len(q), {<<k, Unset>>}, x)
    BY <1>7, <1>8, <2>1, HeightIsAside DEF SameCode, Writes
  <2>3. Held(r, N, Validated(v, o))
    BY <1>1, <1>2, <1>3, <1>4, <2>2, JumpHeld
  <2> QED
    BY <1>2, <1>5, <1>9, <2>1, <2>3 DEF LowerBrIf
<1>10. CASE o.op # "BrIf"
  <2>1. PICK N : N = set_unreachable_traversing(M)
    OBVIOUS
  <2>2. Writes(L, N, Len(q), {<<k, Unset>>}, x)
    BY <1>7, <1>8, <2>1, MarkWrites
  <2>3. Held(r, N, Validated(v, o))
    BY <1>1, <1>2, <1>3, <1>4, <2>2, JumpHeld
  <2> QED
    BY <1>2, <1>5, <1>10, <2>1, <2>3 DEF LowerBr, LowerReturn
<1> QED
  BY <1>9, <1>10

LEMMA OpenersHeld ==
  ASSUME NEW q, NEW L, NEW v, NEW o, Ready(q, L, v, o), o.op \in Openers,
         NEW r, r = Append(q, o)
  PROVE  /\ o.op # "If" => Held(r, LowerBlock(L, o), Validated(v, o))
         /\ o.op = "If" => Held(r, LowerIf(L, o), Validated(v, o))
<1>1. /\ Formed(L) /\ Len(L.inner) \in Nat \ {0} /\ Len(v.labels) = Len(L.inner)
      /\ len(L) = Len(q)
  BY ReadyFacts
<1>2. PICK bs \in Seq(StackBlock) : bs = L.inner
  BY <1>1 DEF Formed
<1>3. PICK m \in Nat \ {0} : m = Len(bs)
  BY <1>1, <1>2
<1>4. PICK M : M = add_block(L, o)
  OBVIOUS
<1>5. PICK b : M = [L EXCEPT !.inner = Append(bs, b)] /\ b.kind = o.op /\ b.index = Len(q)
               /\ b.else_index = Unset /\ b.attached_breaks = <<>>
  <2>1. \E h, d : M = [L EXCEPT !.inner = Append(L.inner,
                                  NewBlock(o.op, len(L), h, o.ty[1], o.ty[2], d))]
    BY <1>4 DEF add_block
  <2>2. PICK h, d : M = [L EXCEPT !.inner = Append(L.inner,
                              NewBlock(o.op, len(L), h, o.ty[1], o.ty[2], d))]
    BY <2>1
  <2>3. PICK b : b = NewBlock(o.op, len(L), h, o.ty[1], o.ty[2], d)
    OBVIOUS
  <2>4. /\ b.kind = o.op /\ b.index = Len(q) /\ b.else_index = Unset
        /\ b.attached_breaks = <<>>
    BY <1>1, <2>3 DEF NewBlock
  <2> QED
    BY <1>2, <2>2, <2>3, <2>4
<1>6. /\ DOMAIN M = DOMAIN L /\ M.inner = Append(bs, b)
      /\ M.instructions = L.instructions /\ M.br_targets = L.br_targets
  BY <1>1, <1>5 DEF Formed
<1>7. Opened(bs, M.inner, o, Len(q))
  <2>1. IsSeq(bs)
    BY DEF IsSeq
  <2>2. Longer(bs, b, M.inner)
    BY <1>6, <2>1, AppendLonger
  <2>3. Pairs(b) = {}
    BY <1>5 DEF Pairs, Range
  <2> QED
    BY <1>5, <2>2, <2>3 DEF Longer, Opened
<1>8. PICK x : x = IF o.op = "If" THEN IfInstr ELSE o
  OBVIOUS
<1>9. x.op = o.op /\ (o.op = "If" => DOMAIN x = {"op", "else_index", "end_index"})
  BY <1>8 DEF IfInstr
<1>10. PICK N : N = IF o.op = "If" THEN LowerIf(L, o) ELSE LowerBlock(L, o)
  OBVIOUS
<1>11. /\ N.inner = M.inner /\ N.br_targets = L.br_targets
       /\ N.instructions = Append(L.instructions, x)
  <2>1. CASE o.op = "If"
    <3>1. PICK A : A = apply_stack_effects_to_height(M, 1, 0)
      OBVIOUS
    <3>2. SameCode(M, A) /\ DOMAIN A = DOMAIN M
      BY <1>1, <1>6, <3>1 DEF apply_stack_effects_to_height, note_height, SameCode, Formed
    <3>3. N = push(A, x)
      BY <1>4, <1>8, <1>10, <2>1, <3>1 DEF LowerIf
    <3> QED
      BY <1>1, <1>6, <3>2, <3>3 DEF push, SameCode, Formed
  <2>2. CASE o.op # "If"
    <3>1. N = push(M, x)
      BY <1>4, <1>8, <1>10, <2>2 DEF LowerBlock
    <3> QED
      BY <1>1, <1>6, <3>1 DEF push, Formed
  <2> QED
    BY <2>1, <2>2
<1>12. PICK is : is = L.instructions
  OBVIOUS
<1>13. PICK bt : bt = L.br_targets
  OBVIOUS
<1>14. Emits(q, o, r, is, N.instructions, x, bt, N.br_targets)
  <2>1. Lined(q, bs, is, bt)
    BY <1>2, <1>12, <1>13, ReadyFacts
  <2>2. IsSeq(bt) /\ Len(bt) \in Nat /\ \A s \in 1 .. Len(bt) : "target_index" \in DOMAIN bt[s]
    BY <2>1 DEF Lined, IsSeq
  <2> QED
    BY <1>9, <1>11, <1>12, <1>13, <2>2 DEF Emits, Ready
<1>15. PICK ls : ls = v.labels
  OBVIOUS
<1>16. PICK ms : ms = Validated(v, o).labels
  OBVIOUS
<1>17. (\A j \in 1 .. Len(bs) : ms[j].kind = ls[j].kind) /\ ms[Len(bs) + 1].kind = o.op
  <2>1. ReaderInv(v) /\ IsOperator(o)
    BY DEF Ready
  <2>2. /\ \A j \in 1 .. Len(v.labels) : ms[j].kind = v.labels[j].kind
        /\ ms[Len(v.labels) + 1].kind = o.op
    BY ONLY <1>16, <2>1, o.op \in Openers, OpenedKinds
  <2> QED
    BY <1>1, <1>2, <1>15, <2>2
<1>18. Targets(q, ls, bs, is, bt) /\ Len(bs) # 0 /\ N.br_targets = bt /\ Opened(bs, N.inner, o, Len(q))
  BY <1>2, <1>3, <1>7, <1>11, <1>12, <1>13, <1>15 DEF Ready, Held
<1>19. Targets(r, ms, N.inner, N.instructions, N.br_targets)
  BY ONLY <1>9, <1>14, <1>17, <1>18, o.op \in Openers, OpenedTargets
<1> QED
  BY <1>10, <1>16, <1>19 DEF Held

LEMMA ElseHeld ==
  ASSUME NEW q, NEW L, NEW v, NEW o, Ready(q, L, v, o), o.op = "Else",
         NEW r, r = Append(q, o)
  PROVE  Held(r, LowerElse(L), Validated(v, o))
<1>1. /\ Formed(L) /\ L.inner # <<>> /\ Len(v.labels) = Len(L.inner)
      /\ len(L) = Len(q) /\ Len(q) \in Nat
  BY ReadyFacts
<1>2. PICK m \in Nat \ {0} : m = Len(L.inner) /\ m = Len(v.labels)
  BY ReadyFacts
<1>3. PICK b \in StackBlock : b = curr_block(L) /\ b = L.inner[m]
  BY <1>1, <1>2, Blocks
<1>4. PICK f : f = [b EXCEPT !.else_index = Len(q)]
  OBVIOUS
<1>5. PICK c : c = IF b.has_inherited THEN f
                   ELSE [f EXCEPT !.is_unreachable_traversing = FALSE]
  OBVIOUS
<1>6. /\ f \in StackBlock /\ f.has_inherited = b.has_inherited
      /\ f.kind = b.kind /\ f.index = b.index /\ f.attached_breaks = b.attached_breaks
      /\ f.else_index = Len(q)
  <2>1. Len(q) \in Int
    BY <1>1
  <2> QED
    BY ONLY <1>4, <2>1, b \in StackBlock DEF StackBlock
<1>7. /\ c \in StackBlock
      /\ c.kind = b.kind /\ c.index = b.index /\ c.attached_breaks = b.attached_breaks
      /\ c.else_index = Len(q)
  BY <1>5, <1>6 DEF StackBlock
<1>8. PICK E : E = with_curr_block(L, f)
  OBVIOUS
<1>9. BlockRewritten(L, E, f)
  BY <1>1, <1>6, <1>8, Rewritten
<1>10. /\ Formed(E) /\ Len(E.inner) = m /\ E.inner[m] = f /\ E.inner # <<>>
       /\ E.instructions = L.instructions /\ E.br_targets = L.br_targets
       /\ \A k \in 1 .. m - 1 : E.inner[k] = L.inner[k]
  BY <1>2, <1>9 DEF BlockRewritten
<1>11. curr_block(E) = f /\ current(E) = m
  BY <1>10 DEF curr_block, current
<1>12. PICK M : M = end_unreachable_traversing(E)
  OBVIOUS
<1>13. /\ Formed(M) /\ Len(M.inner) = m /\ M.inner[m] = c
       /\ M.instructions = L.instructions /\ M.br_targets = L.br_targets
       /\ \A k \in 1 .. m - 1 : M.inner[k] = L.inner[k]
  <2>1. CASE b.has_inherited
    <3>1. M = E
      BY <1>6, <1>11, <1>12, <2>1 DEF end_unreachable_traversing
    <3> QED
      BY <1>5, <1>10, <2>1, <3>1
  <2>2. CASE ~b.has_inherited
    <3>1. M = with_curr_block(E, c)
      BY <1>5, <1>6, <1>10, <1>11, <1>12, <2>2
         DEF end_unreachable_traversing, with_curr_block, current
    <3>2. BlockRewritten(E, M, c)
      BY <1>7, <1>10, <3>1, Rewritten
    <3> QED
      BY <1>10, <3>2 DEF BlockRewritten
  <2> QED
    BY <2>1, <2>2
<1>14. PICK bs : bs = L.inner
  OBVIOUS
<1>15. ElseMet(bs, M.inner, m, Len(q))
  <2>1. ASSUME NEW k \in 1 .. m
        PROVE  /\ M.inner[k].kind = bs[k].kind /\ M.inner[k].index = bs[k].index
               /\ Pairs(M.inner[k]) = Pairs(bs[k])
               /\ M.inner[k].else_index = IF k = m THEN Len(q) ELSE bs[k].else_index
    <3>1. CASE k = m
      BY <1>3, <1>7, <1>13, <1>14, <3>1 DEF Pairs
    <3>2. CASE k # m
      BY <1>13, <1>14, <3>2
    <3> QED
      BY <3>1, <3>2
  <2> QED
    BY <1>13, <2>1 DEF ElseMet
<1>16. PICK h : h = b.recorded_height + b.params
  OBVIOUS
<1>17. PICK S : S = set_height(M, h)
  OBVIOUS
<1>18. SameCode(M, S) /\ DOMAIN S = DOMAIN M
  BY <1>13, <1>17 DEF set_height, note_height, SameCode, Formed
<1>19. LowerElse(L) = push(S, ElseInstr)
  <2>1. E = [L EXCEPT !.inner[current(L)].else_index = len(L)]
    BY <1>1, <1>3, <1>4, <1>8 DEF with_curr_block, curr_block
  <2> QED
    BY <1>3, <1>12, <1>16, <1>17, <2>1 DEF LowerElse
<1>20. PICK N : N = LowerElse(L)
  OBVIOUS
<1>21. /\ N.inner = M.inner /\ N.br_targets = L.br_targets
       /\ N.instructions = Append(L.instructions, ElseInstr)
  BY <1>13, <1>18, <1>19, <1>20 DEF push, SameCode, Formed
<1>22. PICK x : x = ElseInstr
  OBVIOUS
<1>23. x.op = o.op /\ DOMAIN x = {"op", "if_end_index"}
  BY <1>22 DEF ElseInstr
<1>24. PICK is : is = L.instructions
  OBVIOUS
<1>25. PICK bt : bt = L.br_targets
  OBVIOUS
<1>26. Emits(q, o, r, is, N.instructions, x, bt, N.br_targets)
  <2>1. Lined(q, bs, is, bt)
    BY <1>14, <1>24, <1>25, ReadyFacts
  <2>2. IsSeq(bt) /\ Len(bt) \in Nat /\ \A s \in 1 .. Len(bt) : "target_index" \in DOMAIN bt[s]
    BY <2>1 DEF Lined, IsSeq
  <2> QED
    BY <1>21, <1>22, <1>23, <1>24, <1>25, <2>2 DEF Emits, Ready
<1>27. PICK ls : ls = v.labels
  OBVIOUS
<1>28. PICK ms : ms = Validated(v, o).labels
  OBVIOUS
<1>29. ls[m].kind = "If" /\ \A j \in 1 .. m : ms[j].kind = IF j = m THEN "Else" ELSE ls[j].kind
  <2>1. ReaderInv(v) /\ v.labels # <<>> /\ IsOperator(o) /\ Allowed(v, o)
    BY DEF Ready
  <2>2. /\ v.labels[m].kind = "If"
        /\ \A j \in 1 .. m : ms[j].kind = IF j = m THEN "Else" ELSE v.labels[j].kind
    BY ONLY <1>2, <1>28, <2>1, o.op = "Else", ElseKinds
  <2> QED
    BY <1>27, <2>2
<1>30. /\ Targets(q, ls, bs, is, bt) /\ m = Len(bs) /\ N.br_targets = bt
       /\ ElseMet(bs, N.inner, m, Len(q))
  BY <1>2, <1>14, <1>15, <1>21, <1>24, <1>25, <1>27 DEF Ready, Held
<1>31. Targets(r, ms, N.inner, N.instructions, N.br_targets)
  BY ONLY <1>23, <1>26, <1>29, <1>30, o.op = "Else", m \in Nat \ {0}, ElseTargets
<1> QED
  BY <1>20, <1>28, <1>31 DEF Held

LEMMA EndHeld ==
  ASSUME NEW q, NEW L, NEW v, NEW o, Ready(q, L, v, o), o.op = "End",
         NEW r, r = Append(q, o)
  PROVE  Held(r, LowerEnd(L), Validated(v, o))
<1>1. /\ Formed(L) /\ L.inner # <<>> /\ len(L) = Len(q) /\ Len(q) \in Nat
      /\ Lined(q, L.inner, L.instructions, L.br_targets)
  BY ReadyFacts
<1>2. PICK m \in Nat \ {0} : m = Len(L.inner) /\ m = Len(v.labels)
  BY ReadyFacts
<1>3. PICK b : b = L.inner[m] /\ b = curr_block(L)
  BY <1>1, <1>2, Blocks
<1>4. PICK bs \in Seq(StackBlock) : bs = L.inner
  BY <1>1 DEF Formed
<1>5. PICK cs : cs = SubSeq(bs, 1, m - 1)
  OBVIOUS
<1>6. Popped(bs, cs, m)
  <2>1. PICK S : S = StackBlock
    OBVIOUS
  <2>2. bs \in Seq(S) /\ m = Len(bs)
    BY <1>2, <1>4, <2>1
  <2>3. Len(cs) = m - 1 /\ \A k \in 1 .. m - 1 : cs[k] = bs[k]
    BY ONLY <1>5, <2>2, m \in Nat \ {0}
  <2> QED
    BY <2>2, <2>3 DEF Popped
<1>7. PICK n \in Nat : n = Len(q) /\ n = len(L)
  BY <1>1
<1>8. PICK is : is = L.instructions
  OBVIOUS
<1>9. PICK bt : bt = L.br_targets
  OBVIOUS
<1>10. Lined(q, bs, is, bt) /\ IsSeq(is) /\ Len(is) = n /\ IsSeq(bt) /\ IsSeq(q)
  BY <1>1, <1>4, <1>7, <1>8, <1>9 DEF Lined
<1>11. DOMAIN is = 1 .. n /\ DOMAIN bt = 1 .. Len(bt) /\ Len(bt) \in Nat
  BY <1>10 DEF IsSeq
<1>12. PICK ks : ks = [i \in 1 .. n |-> patched(is[i], i - 1, b, n)]
  OBVIOUS
<1>13. PICK ct : ct = [i \in DOMAIN bt |-> patched_arm(bt[i], i - 1, b, n)]
  OBVIOUS
<1>14. PICK P : P = [L EXCEPT !.inner = cs, !.instructions = ks, !.br_targets = ct]
  OBVIOUS
<1>15. /\ DOMAIN P = DOMAIN L /\ P.inner = cs /\ P.instructions = ks /\ P.br_targets = ct
  BY <1>1, <1>14 DEF Formed
<1>16. PICK h : h = b.recorded_height + b.results
  OBVIOUS
<1>17. PICK S : S = set_height(P, h)
  OBVIOUS
<1>18. SameCode(P, S) /\ DOMAIN S = DOMAIN P
  BY <1>1, <1>15, <1>17 DEF set_height, note_height, SameCode, Formed
<1>19. PICK x : x = EndInstr(b)
  OBVIOUS
<1>20. PICK N : N = LowerEnd(L)
  OBVIOUS
<1>21. N = push(S, x)
  <2>1. current(L) = m /\ curr_block(L) = b
    BY <1>2, <1>3 DEF current
  <2> QED
    BY <1>4, <1>5, <1>7, <1>8, <1>9, <1>11, <1>12, <1>13, <1>14, <1>16, <1>17, <1>19, <1>20, <2>1
       DEF LowerEnd
<1>22. N.inner = cs /\ N.br_targets = ct /\ N.instructions = Append(ks, x)
  BY <1>1, <1>15, <1>18, <1>21 DEF push, SameCode, Formed
<1>23. IsSeq(ks) /\ Len(ks) = n /\ IsSeq(ct) /\ Len(ct) = Len(bt)
  <2>1. DOMAIN ks = DOMAIN is /\ ks = [i \in DOMAIN ks |-> ks[i]]
    BY <1>11, <1>12
  <2>2. DOMAIN ct = DOMAIN bt /\ ct = [i \in DOMAIN ct |-> ct[i]]
    BY <1>13
  <2>3. IsSeq(ks) /\ Len(ks) = Len(is)
    BY <1>10, <1>11, <2>1, MappedIsSeq
  <2>4. IsSeq(ct) /\ Len(ct) = Len(bt)
    BY <1>10, <1>11, <2>2, MappedIsSeq
  <2> QED
    BY <1>10, <2>3, <2>4
<1>24. PICK js : js = N.instructions
  OBVIOUS
<1>25. Longer(ks, x, js)
  BY <1>22, <1>23, <1>24, AppendLonger
<1>26. /\ IsSeq(js) /\ Len(js) = n + 1 /\ js[n + 1] = x
       /\ \A i \in 1 .. n : js[i] = patched(is[i], i - 1, b, n)
  BY <1>12, <1>23, <1>25 DEF Longer
<1>27. b = bs[Len(bs)] /\ Len(bs) = m
  BY <1>2, <1>3, <1>4
<1>28. Ends(q, o, r, bs, cs, is, js, bt, ct)
  <2>1. ASSUME NEW i \in 1 .. n
        PROVE  Patches(is[i], js[i], i, b, n)
    BY <1>26, PatchedCases
  <2>2. \A s \in 1 .. Len(bt) : ct[s] = patched_arm(bt[s], s - 1, b, n)
    BY <1>11, <1>13
  <2>3. Len(bs) \in Nat \ {0} /\ DepthAt(q)[Len(q)] = Len(bs)
    BY <1>10, <1>27 DEF Lined
  <2> QED
    BY <1>6, <1>7, <1>10, <1>11, <1>23, <1>27, <2>1, <2>2, <2>3 DEF Ends
<1>29. NextLine(q, o, r, is, js, ct)
  <2>1. Longer(q, o, r)
    BY <1>10, AppendLonger
  <2>2. Len(r) = n + 1
    BY <1>7, <2>1 DEF Longer
  <2>3. \A i \in 1 .. n : js[i].op = is[i].op
    <3>1. TAKE i \in 1 .. n
    <3>2. patched(is[i], i - 1, b, n).op = is[i].op
      BY DEF patched
    <3> QED
      BY <1>26, <3>2
  <2>4. js[Len(r)].op = o.op
    BY <1>19, <1>26, <2>2 DEF EndInstr
  <2>5. ASSUME NEW s \in 1 .. Len(ct)
        PROVE  "target_index" \in DOMAIN ct[s]
    <3>1. "target_index" \in DOMAIN bt[s] /\ s \in DOMAIN bt
      BY <1>10, <1>11, <1>23 DEF Lined
    <3>2. ct[s] = patched_arm(bt[s], s - 1, b, n)
      BY <1>13, <3>1
    <3>3. DOMAIN ct[s] = DOMAIN bt[s]
      BY <3>2 DEF patched_arm
    <3> QED
      BY <3>1, <3>3
  <2> QED
    BY <1>7, <1>23, <1>26, <2>2, <2>3, <2>4, <2>5 DEF NextLine, Ready
<1>30. PICK ls : ls = v.labels
  OBVIOUS
<1>31. PICK ms : ms = Validated(v, o).labels
  OBVIOUS
<1>32. \A j \in 1 .. Len(cs) : ms[j].kind = ls[j].kind
  <2>1. ls \in Seq(ValidatorLabel) /\ Len(ls) = m
    BY <1>2, <1>30 DEF Ready, ReaderInv, Validator
  <2>2. ms = SubSeq(ls, 1, m - 1)
    BY <1>2, <1>30, <1>31, ValidatedCases DEF Ready
  <2>3. \A j \in 1 .. m - 1 : ms[j] = ls[j]
    BY <2>1, <2>2
  <2> QED
    BY <1>6, <2>3 DEF Popped
<1>33. Targets(q, ls, bs, is, bt) /\ IsOperator(o)
  BY <1>4, <1>8, <1>9, <1>30 DEF Ready, Held
<1>34. Targets(r, ms, cs, js, ct)
  BY ONLY <1>28, <1>29, <1>32, <1>33, EndTargets
<1> QED
  BY <1>20, <1>22, <1>24, <1>31, <1>34 DEF Held

Joined(t, q, g, n) == t = q \o [i \in 1 .. n |-> g[i]]

LEMMA JoinedReads ==
  ASSUME NEW q, IsSeq(q), NEW n \in Nat, NEW g, NEW t, Joined(t, q, g, n)
  PROVE  /\ IsSeq(t) /\ Len(t) = Len(q) + n
         /\ \A i \in 1 .. Len(q) : t[i] = q[i]
         /\ \A i \in 1 .. n : t[Len(q) + i] = g[i]
<1>0. PICK s \in Nat : s = Len(q)
  BY DEF IsSeq
<1>1. IsSeq(t)
  BY JoinedIsSeq DEF Joined
<1>2. PICK r : r = [i \in 1 .. n |-> g[i]]
  OBVIOUS
<1> DEFINE D == {q[i] : i \in 1 .. Len(q)} \cup {r[i] : i \in 1 .. n}
<1>3. q \in [1 .. Len(q) -> D] /\ Len(q) \in Nat /\ r \in [1 .. n -> D]
  BY <1>2 DEF IsSeq
<1>10. q \in Seq(D) /\ r \in Seq(D)
  BY SMTT(30), <1>3
<1>11. DOMAIN r = 1 .. n
  BY <1>2
<1>4. q \in Seq(D) /\ r \in Seq(D) /\ Len(r) = n
  <2> HIDE DEF D
  <2> QED
    BY <1>10, <1>11
<1> HIDE DEF D
<1>5. t = q \o r
  BY <1>2 DEF Joined
<1>6. Len(t) = s + n
  <2>1. PICK T : T = D
    OBVIOUS
  <2>2. q \in Seq(T) /\ r \in Seq(T) /\ Len(r) = n
    BY ONLY <1>4, <2>1
  <2>3. Len(q \o r) = Len(q) + Len(r)
    BY ONLY <2>2, ConcatProperties
  <2> QED
    BY ONLY <1>0, <1>4, <1>5, <2>3
<1>7. \A i \in 1 .. s : t[i] = q[i]
  BY ONLY <1>0, <1>4, <1>5
<1>8. ASSUME NEW i \in 1 .. n
      PROVE  t[s + i] = r[i]
  <2>1. PICK k \in Nat : k = s + i /\ k > s /\ k <= s + n /\ k - s = i
    <3>1. s + i \in Nat /\ s + i > s /\ s + i <= s + n /\ (s + i) - s = i
      BY <1>8
    <3> QED
      BY <3>1
  <2>2. t[k] = r[k - s]
    BY ONLY <1>0, <1>4, <1>5, <2>1, n \in Nat
  <2> QED
    BY <2>1, <2>2
<1>9. \A i \in 1 .. n : r[i] = g[i]
  BY <1>2
<1> QED
  BY <1>0, <1>1, <1>6, <1>7, <1>8, <1>9

(* The first k arms of a br_table ask these blocks.                         *)
ArmsOf(L, depths, k) ==
  {<<block_at(L, depths[j]), Len(L.br_targets) + j - 1>> : j \in 1 .. k}

LEMMA ArmsAsked ==
  ASSUME NEW L, Formed(L), NEW depths, NEW n \in Nat,
         \A i \in 1 .. n : block_at(L, depths[i]) \in 1 .. Len(L.inner),
         NEW f, IsArms(f, L, depths, n)
  PROVE  Asked(L.inner, f[n].inner, len(L), ArmsOf(L, depths, n))
<1> DEFINE S == {k \in 0 .. n : /\ AlikeBlocks(L, f[k])
                                /\ Asked(L.inner, f[k].inner, len(L), ArmsOf(L, depths, k))}
<1>1. 0 \in S
  <2>1. f[0] = L
    BY DEF IsArms
  <2>2. ArmsOf(L, depths, 0) = {}
    BY DEF ArmsOf
  <2>3. AlikeBlocks(L, f[0])
    BY <2>1 DEF AlikeBlocks, SameBlocks
  <2>4. Asked(L.inner, f[0].inner, len(L), ArmsOf(L, depths, 0))
    BY <2>1, <2>2, AskedNothing
  <2> QED
    BY <2>3, <2>4
<1>2. ASSUME NEW k \in 0 .. n, k \in S, k < n
      PROVE  k + 1 \in S
  <2>1. PICK i \in Nat : i = k + 1
    OBVIOUS
  <2>2. i \in 1 .. n /\ i \in 0 .. n /\ f[i] = ArmAttached(f[k], L, depths, i)
    BY <1>2, <2>1 DEF IsArms
  <2>3. AlikeBlocks(L, f[k]) /\ Asked(L.inner, f[k].inner, len(L), ArmsOf(L, depths, k))
    BY <1>2
  <2>4. PICK j \in 1 .. Len(L.inner) : j = block_at(L, depths[i])
    BY <2>2
  <2>5. j \in 1 .. Len(f[k].inner) /\ Formed(f[k]) /\ len(f[k]) = len(L)
    BY <2>3 DEF AlikeBlocks, SameBlocks, len
  <2>6. PICK slot \in Int : slot = Len(L.br_targets) + i - 1
    <3>1. PICK z \in Nat : z = Len(L.br_targets)
      BY DEF Formed, IsSeq
    <3>2. z + i - 1 \in Int
      BY ONLY z \in Nat, i \in Nat
    <3> QED
      BY ONLY <3>1, <3>2
  <2>7. f[i] = attach(f[k], j, slot)
    BY <2>2, <2>4, <2>6 DEF ArmAttached
  <2>8. AlikeBlocks(f[k], f[i])
    BY <2>5, <2>7, AttachAlike
  <2>9. AlikeBlocks(L, f[i])
    BY <2>3, <2>8, AlikeChain
  <2>10. Asked(f[k].inner, f[i].inner, len(f[k]), {<<j, slot>>})
    BY <2>5, <2>7, AttachAsks
  <2>11. Asked(L.inner, f[i].inner, len(L), ArmsOf(L, depths, k) \cup {<<j, slot>>})
    BY <2>3, <2>5, <2>10, AskedChain
  <2>12. ArmsOf(L, depths, i) = ArmsOf(L, depths, k) \cup {<<j, slot>>}
    <3>1. \A a : a \in 1 .. i <=> a \in 1 .. k \/ a = i
      BY <2>1
    <3>2. <<block_at(L, depths[i]), Len(L.br_targets) + i - 1>> = <<j, slot>>
      BY <2>4, <2>6
    <3> QED
      BY <3>1, <3>2 DEF ArmsOf
  <2> QED
    BY <2>1, <2>2, <2>9, <2>11, <2>12
<1>3. 0 .. n \subseteq S
  <2> HIDE DEF S
  <2> QED
    BY <1>1, <1>2, CountingTo
<1> QED
  BY <1>3

LEMMA TableHeld ==
  ASSUME NEW q, NEW L, NEW v, NEW o, Ready(q, L, v, o), o.op = "BrTable",
         NEW r, r = Append(q, o)
  PROVE  Held(r, LowerBrTable(L, o.arms), Validated(v, o))
<1>1. /\ Formed(L) /\ L.inner # <<>> /\ len(L) = Len(q) /\ Len(v.labels) = Len(L.inner)
      /\ Lined(q, L.inner, L.instructions, L.br_targets)
  BY ReadyFacts
<1>2. PICK depths \in Seq(Nat) : depths = o.arms
  BY DEF Ready, IsOperator
<1>3. PICK n \in Nat : n = Len(depths)
  OBVIOUS
<1>4. \A i \in 1 .. n : depths[i] \in Nat /\ depths[i] < Len(v.labels)
  <2>1. \A d \in Depths(o) : d < Len(v.labels)
    BY AllowedCases DEF Ready
  <2>2. \A i \in 1 .. n : depths[i] \in Depths(o) /\ depths[i] \in Nat
    BY <1>2, <1>3 DEF Depths
  <2> QED
    BY <2>1, <2>2
<1>5. \A i \in 1 .. n : /\ block_at(L, depths[i]) \in 1 .. Len(L.inner)
                        /\ block_at(L, depths[i]) = Len(L.inner) - depths[i]
  BY <1>4, BranchLevel
<1>6. PICK x : x = BrTableInstr(Len(L.br_targets), n)
  OBVIOUS
<1>7. PICK f, g : /\ IsArms(f, L, depths, n)
                  /\ \A i \in 1 .. n : g[i] = arm_at(L, depths, i)
                  /\ LowerBrTable(L, depths) = TableFrom(L, f[n], n, g, x)
  <2>1. IsTable(LowerBrTable(L, depths), L, depths, n)
    BY <1>3, TableDefined
  <2> QED
    BY <1>6, <2>1 DEF IsTable
<1>8. PICK A : A = f[n]
  OBVIOUS
<1>9. PICK R : R = ArmsOf(L, depths, n)
  OBVIOUS
<1>10. AlikeBlocks(L, A) /\ Asked(L.inner, A.inner, Len(q), R)
  BY <1>1, <1>5, <1>7, <1>8, <1>9, ArmsAlike, ArmsAsked
<1>11. PICK bt : bt = L.br_targets
  OBVIOUS
<1>12. PICK s \in Nat : s = Len(bt)
  BY <1>1, <1>11 DEF Formed, IsSeq
<1>13. PICK ct : ct = bt \o [i \in 1 .. n |-> g[i]]
  OBVIOUS
<1>14. /\ IsSeq(ct) /\ Len(ct) = s + n
       /\ \A i \in 1 .. s : ct[i] = bt[i]
       /\ \A i \in 1 .. n : ct[s + i] = g[i]
  <2>1. IsSeq(bt)
    BY <1>1, <1>11 DEF Formed
  <2>2. Joined(ct, bt, g, n)
    BY <1>13 DEF Joined
  <2>3. /\ IsSeq(ct) /\ Len(ct) = Len(bt) + n
        /\ \A i \in 1 .. Len(bt) : ct[i] = bt[i]
        /\ \A i \in 1 .. n : ct[Len(bt) + i] = g[i]
    BY ONLY <2>1, <2>2, n \in Nat, JoinedReads
  <2> QED
    BY <1>12, <2>3
<1>15. PICK T : T = [A EXCEPT !.br_targets = ct]
  OBVIOUS
<1>16. /\ DOMAIN T = DOMAIN A /\ T.inner = A.inner /\ T.curr_height = A.curr_height
       /\ T.max_height = A.max_height /\ T.br_targets = ct /\ T.instructions = L.instructions
  BY <1>10, <1>15 DEF AlikeBlocks, Formed
<1>17. Formed(T)
  BY <1>10, <1>14, <1>16 DEF AlikeBlocks, Formed
<1>18. PICK M : M = push(T, x)
  OBVIOUS
<1>19. /\ M.inner = A.inner /\ M.br_targets = ct /\ M.instructions = Append(L.instructions, x)
       /\ Formed(M)
  BY <1>16, <1>17, <1>18, PushKeeps DEF push, Formed, SameHeights
<1>20. M.inner # <<>>
  <2>1. Len(M.inner) = Len(L.inner)
    BY <1>10, <1>19 DEF Asked, SameFrames
  <2> QED
    BY <1>1, <2>1, ReadyFacts
<1>21. PICK N : N = set_unreachable_traversing(M)
  OBVIOUS
<1>22. /\ Asked(M.inner, N.inner, Len(q), {})
       /\ N.instructions = M.instructions /\ N.br_targets = M.br_targets
  BY <1>19, <1>20, <1>21, MarkAsks
<1>23. Asked(L.inner, N.inner, Len(q), R)
  <2>1. Asked(L.inner, N.inner, Len(q), R \cup {})
    BY <1>10, <1>19, <1>22, AskedChain
  <2>2. R \cup {} = R
    OBVIOUS
  <2> QED
    BY <2>1, <2>2
<1>24. LowerBrTable(L, o.arms) = N
  BY <1>2, <1>7, <1>8, <1>11, <1>13, <1>15, <1>18, <1>21 DEF TableFrom
<1>25. PICK bs : bs = L.inner
  OBVIOUS
<1>26. \A i \in 1 .. n : /\ "target_index" \in DOMAIN ct[s + i]
                         /\ bs[block_at(L, depths[i])].kind = "Loop" =>
                              ct[s + i].target_index = bs[block_at(L, depths[i])].index
  <2>1. TAKE i \in 1 .. n
  <2>2. PICK b : b = bs[block_at(L, depths[i])]
    OBVIOUS
  <2>3. ct[s + i] = Jump("Arm", branch_target(b), branch_arity(b), b.recorded_height)
    BY <1>7, <1>14, <1>25, <2>2 DEF arm_at
  <2> QED
    BY <2>2, <2>3 DEF Jump, branch_target
<1>27. PICK is : is = L.instructions
  OBVIOUS
<1>28. Emits(q, o, r, is, N.instructions, x, bt, N.br_targets)
  <2>1. \A i \in 1 .. Len(bt) : "target_index" \in DOMAIN bt[i]
    BY <1>1, <1>11 DEF Lined
  <2>2. ASSUME NEW i \in 1 .. Len(ct)
        PROVE  "target_index" \in DOMAIN ct[i]
    <3>1. CASE i \in 1 .. s
      BY <1>12, <1>14, <2>1, <3>1
    <3>2. CASE i \notin 1 .. s
      <4>1. PICK a \in 1 .. n : i = s + a
        <5>1. i - s \in 1 .. n /\ i = s + (i - s)
          BY <1>14, <3>2
        <5> QED
          BY <5>1
      <4> QED
        BY <1>26, <4>1
    <3> QED
      BY <3>1, <3>2
  <2>3. Len(bt) <= Len(ct)
    BY <1>12, <1>14
  <2>4. x.op = o.op
    BY <1>6 DEF BrTableInstr
  <2> QED
    BY <1>12, <1>14, <1>19, <1>22, <1>27, <2>2, <2>3, <2>4 DEF Emits, Ready
<1>29. ArmsAsk(R, bs, o.arms, s)
  <2>1. ASSUME NEW k, NEW slot
        PROVE  <<k, slot>> \in R <=>
                 \E a \in 1 .. Len(depths) : k = Len(bs) - depths[a] /\ slot = s + a - 1
    <3>1. <<k, slot>> \in R <=>
            \E a \in 1 .. n : <<k, slot>> = <<block_at(L, depths[a]), s + a - 1>>
      BY <1>9, <1>11, <1>12 DEF ArmsOf
    <3>2. \A a \in 1 .. n : block_at(L, depths[a]) = Len(bs) - depths[a]
      BY <1>5, <1>25
    <3> QED
      BY <1>3, <3>1, <3>2
  <2>2. ArmsAsk(R, bs, depths, s)
    BY <2>1 DEF ArmsAsk
  <2> QED
    BY <1>2, <2>2
<1>30. ArmsKnow(bs, o, s, N.br_targets)
  <2>1. ASSUME NEW a \in 1 .. n
        PROVE  /\ Len(bs) - depths[a] \in 1 .. Len(bs)
               /\ bs[Len(bs) - depths[a]].kind = "Loop" =>
                    ct[s + a].target_index = bs[Len(bs) - depths[a]].index
    BY <1>5, <1>25, <1>26
  <2> QED
    BY <1>2, <1>3, <1>19, <1>22, <2>1 DEF ArmsKnow
<1>31. x.start_index = s /\ Len(N.br_targets) = s + Len(o.arms)
  BY <1>2, <1>3, <1>6, <1>11, <1>12, <1>14, <1>19, <1>22 DEF BrTableInstr
<1>32. PICK ls : ls = v.labels
  OBVIOUS
<1>33. PICK ms : ms = Validated(v, o).labels
  OBVIOUS
<1>34. \A j \in 1 .. Len(bs) : ms[j].kind = ls[j].kind
  <2>1. o.op \notin Openers \cup {"Else", "End"}
    BY DEF Openers
  <2>2. SameKinds(v.labels, ms)
    BY <1>33, <2>1, ValidatedKinds DEF Ready
  <2> QED
    BY <1>1, <1>25, <1>32, <2>2 DEF SameKinds
<1>35. /\ Targets(q, ls, bs, is, bt) /\ Len(bs) # 0 /\ s = Len(bt)
       /\ Asked(bs, N.inner, Len(q), R)
  BY <1>11, <1>12, <1>23, <1>25, <1>27, <1>32, ReadyFacts DEF Ready, Held
<1>36. Targets(r, ms, N.inner, N.instructions, N.br_targets)
  BY ONLY SMTT(30), <1>28, <1>29, <1>30, <1>31, <1>34, <1>35,
     o.op = "BrTable", s \in Nat, TableTargets
<1> QED
  BY <1>24, <1>33, <1>36 DEF Held

(* Whatever is lowered next.                                                *)
LEMMA LowerHolds ==
  ASSUME BranchInv, NEW o \in Alphabets[alphabet].ops, Lower(o)
  PROVE  BranchInv'
<1>1. Reads(o)
  BY DEF Lower, Plainly, Call, CallIndirect, Block, If, Else, End, Br, BrIf, BrTable, Return, Trap
<1>2. /\ IsOperator(o) /\ Allowed(valid, o) /\ valid.labels # <<>> /\ ReaderInv(valid)
      /\ Tracks(lowering, valid) /\ valid' = Validated(valid, o)
  BY <1>1, ReadGives DEF BranchInv
<1>3. ops' = Append(ops, o) /\ status = "lowering" /\ status' = "lowering"
  BY <1>1 DEF Reads, ReadsOperator
<1>4. HeightInv'
  BY LowerKeeps DEF BranchInv
<1>5. PICK L : L = lowering
  OBVIOUS
<1>6. PICK v : v = valid
  OBVIOUS
<1>7. PICK q : q = ops
  OBVIOUS
<1>8. PICK r : r = Append(q, o)
  OBVIOUS
<1>9. PICK M : M = lowering'
  OBVIOUS
<1>10. Ready(q, L, v, o)
  BY <1>2, <1>5, <1>6, <1>7 DEF Ready, Held, BranchInv
<1>11. Held(r, M, Validated(v, o))
  <2>1. CASE Plainly(o)
    BY <1>5, <1>8, <1>9, <1>10, <2>1, PlainHeld DEF Plainly, LowerPlain
  <2>2. CASE Call(o)
    BY <1>5, <1>8, <1>9, <1>10, <2>2, PlainHeld DEF Call, LowerCall, IsCall
  <2>3. CASE CallIndirect(o)
    BY <1>5, <1>8, <1>9, <1>10, <2>3, PlainHeld DEF CallIndirect, LowerCallIndirect, IsCall
  <2>4. CASE Block(o)
    BY <1>5, <1>8, <1>9, <1>10, <2>4, OpenersHeld DEF Block, Openers
  <2>5. CASE If(o)
    BY <1>5, <1>8, <1>9, <1>10, <2>5, OpenersHeld DEF If, Openers
  <2>6. CASE Else(o)
    BY <1>5, <1>8, <1>9, <1>10, <2>6, ElseHeld DEF Else
  <2>7. CASE End(o)
    BY <1>5, <1>8, <1>9, <1>10, <2>7, EndHeld DEF End
  <2>8. CASE Br(o)
    BY <1>5, <1>8, <1>9, <1>10, <2>8, BranchesHeld DEF Br
  <2>9. CASE BrIf(o)
    BY <1>5, <1>8, <1>9, <1>10, <2>9, BranchesHeld DEF BrIf
  <2>10. CASE BrTable(o)
    BY <1>5, <1>8, <1>9, <1>10, <2>10, TableHeld DEF BrTable
  <2>11. CASE Return(o)
    BY <1>5, <1>8, <1>9, <1>10, <2>11, BranchesHeld DEF Return
  <2>12. CASE Trap(o)
    BY <1>5, <1>8, <1>9, <1>10, <2>12, TrapHeld DEF Trap
  <2> QED
    BY <2>1, <2>2, <2>3, <2>4, <2>5, <2>6, <2>7, <2>8, <2>9, <2>10, <2>11, <2>12 DEF Lower
<1>12. ops' = r /\ lowering' = M /\ valid' = Validated(v, o)
  BY <1>2, <1>3, <1>6, <1>7, <1>8, <1>9
<1>13. Held(ops', lowering', valid')
  BY <1>11, <1>12
<1> QED
  BY <1>3, <1>4, <1>13 DEF BranchInv, Held

LEMMA BranchStarts ==
  ASSUME Start
  PROVE  BranchInv
<1>1. ops = <<>> /\ valid = NewValidator /\ lowering = NewLowering /\ status = "lowering"
  BY DEF Start, Init, ReaderInit
<1>2. PICK q : q = ops
  OBVIOUS
<1>3. q = <<>> /\ Len(q) = 0 /\ IsSeq(q)
  BY <1>1, <1>2 DEF IsSeq
<1>4. DepthAt(q)[0] = 1
  BY <1>3, DepthSteps
<1>5. PICK b : b = NewBlock("Func", 0, 0, 0, ResultsCount, FALSE)
  OBVIOUS
<1>6. /\ b.kind = "Func" /\ b.index = 0 /\ b.else_index = Unset /\ b.attached_breaks = <<>>
  BY <1>5 DEF NewBlock
<1>7. PICK bs : bs = <<b>>
  OBVIOUS
<1>8. lowering.inner = bs /\ lowering.instructions = <<>> /\ lowering.br_targets = <<>>
  BY <1>1, <1>5, <1>7 DEF NewLowering
<1>9. Len(bs) = 1 /\ bs[1] = b
  BY <1>7
<1>10. PICK ls : ls = <<Label("Func", 0, 0, ResultsCount)>>
  OBVIOUS
<1>11. valid.labels = ls
  BY <1>1, <1>10 DEF NewValidator
<1>12. ls[1].kind = "Func"
  BY <1>10 DEF Label
<1>13. Pairs(b) = {}
  BY <1>6 DEF Pairs, Range
<1>14. Lined(q, bs, <<>>, <<>>)
  <2>1. IsSeq(<<>>)
    BY DEF IsSeq
  <2>2. \A k \in 1 .. Len(bs) : Pairs(bs[k]) = {}
    BY <1>9, <1>13
  <2> QED
    BY <1>3, <1>4, <1>9, <2>1, <2>2 DEF Lined, Bounded
<1>15. OpenAt(q, 0, 0, 1)
  BY <1>3, <1>4 DEF OpenAt
<1>16. ElseIs(q, 0, 0, 1, Unset)
  BY NoElseYet DEF Unset
<1>17. Stands(q, ls, bs, 1)
  <2>1. PosOf(bs, 1) = 0
    BY DEF PosOf
  <2> QED
    BY <1>3, <1>6, <1>9, <1>12, <1>15, <1>16, <2>1 DEF Stands
<1>18. Targets(q, ls, bs, <<>>, <<>>)
  <2>1. \A k \in 1 .. Len(bs) : k = 1
    BY <1>9
  <2>2. 1 .. Len(q) = {}
    BY <1>3
  <2> QED
    BY <1>14, <1>17, <2>1, <2>2 DEF Targets
<1> QED
  BY <1>1, <1>2, <1>8, <1>11, <1>18, HeightStarts DEF BranchInv

LEMMA BranchGoesOn ==
  ASSUME BranchInv, [Next]_vars
  PROVE  BranchInv'
<1>1. CASE Lowering
  BY <1>1, LowerHolds DEF Lowering
<1>2. CASE Finishing
  <2>1. HeightInv'
    BY HeightGoesOn DEF BranchInv
  <2>2. /\ UNCHANGED <<ops, valid, lowering>> /\ valid.labels = <<>>
    BY <1>2 DEF Finishing, Finish, readerVars, AtEnd
  <2> QED
    BY <2>1, <2>2 DEF BranchInv
<1>3. CASE UNCHANGED loweringVars
  <2>1. HeightInv'
    BY HeightGoesOn DEF BranchInv
  <2>2. UNCHANGED <<ops, valid, lowering, status>>
    BY <1>3 DEF loweringVars, readerVars
  <2> QED
    BY <2>1, <2>2 DEF BranchInv
<1>4. Invoke => UNCHANGED loweringVars
  BY DEF Invoke
<1>5. Execute => UNCHANGED loweringVars
  BY DEF Execute, Const, LocalGet, LocalSet, LocalTee, GlobalGet, GlobalSet, Numeric, Drop,
         Marker, ImportedCall, LocalCall, CallTrap, UnreachableStep, IfStep, ElseStep, BrStep,
         BrIfStep, BrTableStep, Returns, Next1, Goto, Trapped
<1>6. UNCHANGED vars => UNCHANGED loweringVars
  BY DEF vars
<1> QED
  BY <1>1, <1>2, <1>3, <1>4, <1>5, <1>6 DEF Next

-----------------------------------------------------------------------------
(* A whole body: every label has closed.                                    *)

LEMMA LoweredIsWhole ==
  ASSUME BranchInv, status = "lowered"
  PROVE  Whole /\ Len(lowering.inner) = 0
<1>1. /\ Lined(ops, lowering.inner, lowering.instructions, lowering.br_targets)
      /\ valid.labels = <<>> /\ Fits(lowering.inner, valid.labels)
  BY DEF BranchInv, Targets, HeightInv, Tracks
<1>2. Len(lowering.inner) = 0
  BY <1>1 DEF Fits
<1>3. PICK n \in Nat : n = Len(ops)
  BY <1>1 DEF Lined, IsSeq
<1>4. DepthAt(ops)[0] = 1 /\ DepthAt(ops)[n] = 0
  BY <1>1, <1>2, <1>3, DepthSteps DEF Lined
<1>5. n # 0
  BY <1>4
<1> QED
  BY <1>1, <1>2, <1>3, <1>4, <1>5 DEF Lined, Whole

LEMMA LandsThere ==
  ASSUME Whole, NEW bs, Len(bs) = 0, NEW t, NEW i \in 1 .. Len(ops), NEW slot, NEW k,
         Lands(ops, bs, t, i, slot, k)
  PROVE  \E p : OpenAt(ops, p, i - 1, k) /\ t = LandingOf(p)
<1>1. Awaited(bs, i, slot) # {k}
  BY DEF Awaited
<1>2. PICK p \in 0 .. i - 1 :
        /\ OpenAt(ops, p, i - 1, k)
        /\ \/ IsLoop(ops, p) /\ t = p - 1
           \/ /\ ~IsLoop(ops, p)
              /\ \E e \in i .. Len(ops) : ClosedAt(ops, p, e, k) /\ t = e - 1
  BY <1>1 DEF Lands
<1>3. CASE IsLoop(ops, p)
  BY <1>2, <1>3 DEF IsLoop, LandingOf
<1>4. CASE ~IsLoop(ops, p)
  <2>1. PICK e : ClosedAt(ops, p, e, k) /\ t = e - 1
    BY <1>2, <1>4
  <2>2. LandingOf(p) = e - 1
    BY <1>4, <2>1, LandingIs
  <2> QED
    BY <1>2, <2>1, <2>2
<1> QED
  BY <1>3, <1>4

(* What BranchesResolve says of operator i.                                 *)
LEMMA JumpsResolve ==
  ASSUME Whole, NEW bs, Len(bs) = 0, NEW is, NEW i \in 1 .. Len(ops), NEW o, o = ops[i],
         JumpOK(ops, bs, is, i)
  PROVE  /\ o.op \in {"Br", "BrIf"} => is[i].target_index = LandingOf(OpenerAt(i, o.x))
         /\ o.op = "Return" => is[i].target_index = Len(ops) - 1
<1>1. CASE o.op \in {"Br", "BrIf"}
  <2>1. PICK k : k = DepthAt(ops)[i - 1] - o.x
    OBVIOUS
  <2>2. Lands(ops, bs, is[i].target_index, i, Unset, k)
    BY <1>1, <2>1 DEF JumpOK, ExitLevel
  <2>3. PICK p : OpenAt(ops, p, i - 1, k) /\ is[i].target_index = LandingOf(p)
    BY <2>2, LandsThere
  <2>4. OpenerAt(i, o.x) = p
    BY <2>1, <2>3, OpenerIs
  <2> QED
    BY <1>1, <2>3, <2>4
<1>2. CASE o.op = "Return"
  <2>1. Lands(ops, bs, is[i].target_index, i, Unset, 1)
    BY <1>2 DEF JumpOK, ExitLevel
  <2>2. PICK p : OpenAt(ops, p, i - 1, 1) /\ is[i].target_index = LandingOf(p)
    BY <2>1, LandsThere
  <2>3. p = 0
    BY <2>2, FunctionOpen
  <2> QED
    BY <1>2, <2>2, <2>3 DEF LandingOf
<1> QED
  BY <1>1, <1>2

LEMMA TablesResolve ==
  ASSUME Whole, NEW bs, Len(bs) = 0, NEW is, NEW bt, NEW i \in 1 .. Len(ops),
         NEW o, o = ops[i], IsOperator(o), o.op = "BrTable", TableOK(ops, bs, is, bt, i),
         NEW a \in DOMAIN o.arms
  PROVE  bt[is[i].start_index + a].target_index = LandingOf(OpenerAt(i, o.arms[a]))
<1>1. PICK t : t = bt[is[i].start_index + a].target_index
  OBVIOUS
<1>2. PICK slot : slot = is[i].start_index + a - 1
  OBVIOUS
<1>3. PICK k : k = DepthAt(ops)[i - 1] - o.arms[a]
  OBVIOUS
<1>4. a \in 1 .. Len(o.arms)
  BY DEF IsOperator
<1>5. Lands(ops, bs, t, i, slot, k)
  BY <1>1, <1>2, <1>3, <1>4 DEF TableOK, ArmLevel
<1>6. PICK p : OpenAt(ops, p, i - 1, k) /\ t = LandingOf(p)
  BY <1>5, LandsThere
<1>7. OpenerAt(i, o.arms[a]) = p
  BY <1>3, <1>6, OpenerIs
<1> QED
  BY <1>1, <1>6, <1>7

LEMMA IfsResolve ==
  ASSUME Whole, NEW is, NEW i \in 1 .. Len(ops), ops[i].op = "If", IfOK(ops, is, i)
  PROVE  /\ is[i].end_index = MatchingEnd(ops, i) - 1
         /\ is[i].else_index = (IF ops[FalseArm(ops, i)].op = "Else"
                                THEN FalseArm(ops, i) - 1 ELSE Unset)
<1>1. PICK n \in Nat : n = Len(ops) /\ n # 0
  BY DEF Whole
<1>2. PICK d : d = DepthAt(ops)
  OBVIOUS
<1>3. d[i] = d[i - 1] + 1
  BY <1>1, <1>2, DepthSteps DEF Delta, Opens, Openers
<1>4. d[i - 1] >= 1 /\ d[i - 1] \in Int
  <2>1. i - 1 \in 0 .. n - 1 /\ i - 1 \in 0 .. n
    BY <1>1
  <2> QED
    BY <1>1, <1>2, <2>1, DepthSteps DEF Whole
<1>5. PICK k : k = d[i]
  OBVIOUS
<1>6. i # n
  BY <1>1, <1>2, <1>3, <1>4 DEF Whole
<1>7. i \in 0 .. n - 1 /\ i # 0
  BY <1>1, <1>6
<1>8. ~OpenAt(ops, i, n, k)
  BY <1>1, <1>7, NothingOpen
<1>9. PICK e : /\ ClosedAt(ops, i, e, k) /\ is[i].end_index = e - 1
               /\ ElseIs(ops, i, e, k, is[i].else_index)
  BY <1>1, <1>2, <1>5, <1>8 DEF IfOK
<1>10. MatchingEnd(ops, i) = e
  BY <1>1, <1>7, <1>9, MatchingEndIs
<1>11. (IF ops[FalseArm(ops, i)].op = "Else" THEN FalseArm(ops, i) - 1 ELSE -1)
         = is[i].else_index
  BY <1>1, <1>7, <1>9, FalseArmIs
<1> QED
  BY <1>9, <1>10, <1>11 DEF Unset

LEMMA ElsesResolve ==
  ASSUME Whole, NEW bs, NEW is, NEW i \in 1 .. Len(ops), ops[i].op = "Else",
         ElseOK(ops, bs, is, i)
  PROVE  is[i].if_end_index = MatchingEnd(ops, OpenerAt(i, 0)) - 1
<1>1. PICK n \in Nat : n = Len(ops) /\ n # 0
  BY DEF Whole
<1>2. PICK d : d = DepthAt(ops)
  OBVIOUS
<1>3. d[i] = d[i - 1] /\ d[i - 1] \in Int
  <2>1. i - 1 \in 0 .. n
    BY <1>1
  <2>2. d[i] = d[i - 1] + 0
    BY <1>1, <1>2, DepthSteps DEF Delta, Opens, Openers
  <2>3. d[i - 1] \in Int
    BY <1>1, <1>2, <2>1, DepthSteps
  <2> QED
    BY <2>2, <2>3
<1>4. PICK k : k = d[i]
  OBVIOUS
<1>5. PICK p \in 1 .. i - 1 :
        /\ OpenAt(ops, p, i - 1, k)
        /\ \/ OpenAt(ops, p, n, k)
           \/ \E e \in i .. n : ClosedAt(ops, p, e, k) /\ is[i].if_end_index = e - 1
  BY <1>1, <1>2, <1>4 DEF ElseOK
<1>6. p \in 0 .. n - 1 /\ p # 0
  BY <1>1, <1>5
<1>7. ~OpenAt(ops, p, n, k)
  BY <1>1, <1>6, NothingOpen
<1>8. PICK e : ClosedAt(ops, p, e, k) /\ is[i].if_end_index = e - 1
  BY <1>5, <1>7
<1>9. MatchingEnd(ops, p) = e
  BY <1>1, <1>6, <1>8, MatchingEndIs
<1>10. PICK z : z = 0
  OBVIOUS
<1>11. k = d[i - 1] - z
  BY <1>3, <1>4, <1>10
<1>12. OpenerAt(i, z) = p
  BY <1>2, <1>5, <1>11, OpenerIs
<1> QED
  BY <1>8, <1>9, <1>10, <1>12

LEMMA Resolved ==
  ASSUME BranchInv
  PROVE  BranchesResolve
<1>1. SUFFICES ASSUME status = "lowered", NEW i \in DOMAIN ops
               PROVE  LET o == ops[i] IN
                 CASE o.op \in {"Br", "BrIf"} ->
                        code[i].target_index = LandingOf(OpenerAt(i, o.x))
                   [] o.op = "Return" -> code[i].target_index = Len(ops) - 1
                   [] o.op = "BrTable" -> \A a \in DOMAIN o.arms :
                        lowering.br_targets[code[i].start_index + a].target_index
                          = LandingOf(OpenerAt(i, o.arms[a]))
                   [] o.op = "If" -> /\ code[i].end_index = MatchingEnd(ops, i) - 1
                                     /\ LET arm == FalseArm(ops, i)
                                        IN  code[i].else_index =
                                              IF ops[arm].op = "Else" THEN arm - 1 ELSE Unset
                   [] o.op = "Else" ->
                        code[i].if_end_index = MatchingEnd(ops, OpenerAt(i, 0)) - 1
                   [] OTHER -> TRUE
  BY DEF BranchesResolve
<1>2. PICK bs : bs = lowering.inner
  OBVIOUS
<1>3. PICK is : is = lowering.instructions
  OBVIOUS
<1>4. PICK bt : bt = lowering.br_targets
  OBVIOUS
<1>5. PICK o : o = ops[i]
  OBVIOUS
<1>6. Whole /\ Len(bs) = 0
  BY <1>1, <1>2, LoweredIsWhole
<1>7. i \in 1 .. Len(ops)
  BY <1>1, <1>6 DEF Whole, IsSeq
<1>8. Resolves(ops, bs, is, bt, i) /\ IsOperator(o)
  BY <1>2, <1>3, <1>4, <1>5, <1>7 DEF BranchInv, Targets, Lined
<1>9. code = is
  BY <1>3 DEF code
<1>10. /\ o.op \in {"Br", "BrIf"} => is[i].target_index = LandingOf(OpenerAt(i, o.x))
       /\ o.op = "Return" => is[i].target_index = Len(ops) - 1
  BY <1>5, <1>6, <1>7, <1>8, JumpsResolve DEF Resolves
<1>11. o.op = "BrTable" => \A a \in DOMAIN o.arms :
         bt[is[i].start_index + a].target_index = LandingOf(OpenerAt(i, o.arms[a]))
  BY <1>5, <1>6, <1>7, <1>8, TablesResolve DEF Resolves
<1>12. o.op = "If" => /\ is[i].end_index = MatchingEnd(ops, i) - 1
                      /\ is[i].else_index = (IF ops[FalseArm(ops, i)].op = "Else"
                                             THEN FalseArm(ops, i) - 1 ELSE Unset)
  BY <1>5, <1>6, <1>7, <1>8, IfsResolve DEF Resolves
<1>13. o.op = "Else" => is[i].if_end_index = MatchingEnd(ops, OpenerAt(i, 0)) - 1
  BY <1>5, <1>6, <1>7, <1>8, ElsesResolve DEF Resolves
<1> QED
  BY <1>4, <1>5, <1>9, <1>10, <1>11, <1>12, <1>13

-----------------------------------------------------------------------------
(* The theorems about branches.                                             *)

(* What every state keeps: each open block on the control stack is the      *)
(* label some operator opened, with its else when it has one; a jump to a   *)
(* loop knows its target at once, a jump to another label waits in the      *)
(* attached_breaks of exactly the block of that label, and of no other,     *)
(* until its End fills in where that is.                                    *)
THEOREM BranchesAreTracked == Spec => []BranchInv
<1>1. Start => BranchInv
  BY BranchStarts
<1>2. BranchInv /\ [Next]_vars => BranchInv'
  BY BranchGoesOn
<1> QED
  BY <1>1, <1>2, PTL DEF Spec

(* attach and the patching at End resolve every branch of a lowered body,   *)
(* in dead code too: Br, BrIf, Return and every arm of every br_table go to *)
(* the label their depth names, and an if and an else know their construct. *)
THEOREM BranchesAreResolved == Spec => []BranchesResolve
<1>1. BranchInv => BranchesResolve
  BY Resolved
<1> QED
  BY <1>1, BranchesAreTracked, PTL
=============================================================================
