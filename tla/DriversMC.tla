------------------------------ MODULE DriversMC ------------------------------
(* Two functions with different frames: one with nothing but its argument   *)
(* and two results that are moved down over it, one with a declared local,  *)
(* a constant and a spill slot; and a host function that flips its argument. *)
EXTENDS Drivers

TwoLayouts ==
  [thin |-> [params |-> 1, results |-> 2, locals |-> 1, consts |-> <<>>, spills |-> 0,
             registers |-> 3, instrs |-> 3],
   wide |-> [params |-> 0, results |-> 1, locals |-> 1, consts |-> <<1>>, spills |-> 1,
             registers |-> 2, instrs |-> 2]]

Flip(args) == <<1 - args[1]>>
=============================================================================
