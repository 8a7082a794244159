----------------------------- MODULE BodyReader -----------------------------
(***************************************************************************)
(* What both lowerings read: the operators of a validated body, one by     *)
(* one.  The body is chosen as it is read, any valid sequence over one of  *)
(* the alphabets that fits that alphabet's bounds.                         *)
(***************************************************************************)
EXTENDS WasmCode

CONSTANTS
  Alphabets    \* a sequence of records: ops, the operators; length, a bound on
               \* the length of a body; height, a bound on its operand stack

ASSUME AlphabetsAssumption ==
  \A a \in DOMAIN Alphabets : \A o \in Alphabets[a].ops : IsOperator(o)

VARIABLES
  alphabet,    \* the one this body draws on
  ops,         \* the operators read so far
  valid        \* the validator, which has accepted them

readerVars == <<alphabet, ops, valid>>

ReaderInit ==
  /\ alphabet \in DOMAIN Alphabets
  /\ ops = <<>>
  /\ valid = NewValidator

(* The reader yields a valid operator that leaves room to close every open  *)
(* label.                                                                   *)
ReadsOperator(o) ==
  /\ valid.labels # <<>>
  /\ Allowed(valid, o)
  /\ LET v == Validated(valid, o)
     IN  /\ v.height <= Alphabets[alphabet].height
         /\ Len(ops) + 1 + Len(v.labels) <= Alphabets[alphabet].length
         /\ valid' = v
  /\ ops' = Append(ops, o)
  /\ UNCHANGED alphabet

(* operator_reader.eof()                                                    *)
AtEnd == valid.labels = <<>>
-----------------------------------------------------------------------------
(* Where a branch of the body goes.                                         *)

(* The label that depth names at operator i: the position of its opener, or *)
(* 0 for the function.                                                      *)
OpenerAt(i, depth) ==
  LET d == DepthAt(ops)
      outer == {j \in 1 .. i - 1 : Opens(ops[j]) /\ d[j] = d[i - 1] - depth
                                   /\ \A k \in j .. i - 1 : d[k] >= d[j]}
  IN  IF outer = {} THEN 0 ELSE CHOOSE j \in outer : TRUE

(* The operator a branch to that label goes to, counted from 0: the Loop    *)
(* itself, or the End.                                                      *)
LandingOf(opener) ==
  IF opener = 0 THEN Len(ops) - 1
  ELSE IF ops[opener].op = "Loop" THEN opener - 1
  ELSE MatchingEnd(ops, opener) - 1
=============================================================================
