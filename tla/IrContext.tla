------------------------------ MODULE IrContext ------------------------------
(***************************************************************************)
(* The storage a module of LLVM IR is built in: its symbols, functions and *)
(* blocks, the names handed out per function and where each register was   *)
(* defined.  Every operation takes the context and returns a reply: the    *)
(* context after it and, unless it was refused, what the caller gets back. *)
(* Which error a refusal carries is left out; what a refused call has      *)
(* already changed is not.                                                 *)
(*                                                                         *)
(* A local name is its letters and its trailing digits, <<"x", <<1>>>> for *)
(* x1; the unnamed %3 is <<"", <<3>>>>.  Linkage and visibility are left   *)
(* out: the builder gives every symbol the default ones.                   *)
(***************************************************************************)
EXTENDS IrValues, FiniteSets, TLC

Refused(ctx) == [ctx |-> ctx, out |-> None]
Returned(ctx, out) == [ctx |-> ctx, out |-> Some(out)]
Done == [done |-> TRUE]

FuncRegNameIndex == [unnamed_index |-> 0, named_index |-> <<>>, issued_names |-> {}]

NewContext ==
  [globals |-> <<>>,              \* name -> what the symbol is
   global_variables |-> <<>>, imported_functions |-> <<>>, functions |-> <<>>,
   funcs |-> <<>>, blocks |-> <<>>,
   reg_name_assigner |-> <<>>,    \* by function
   register_defs |-> <<>>]        \* by function: register -> block and index

-----------------------------------------------------------------------------
(* Names                                                                    *)

is_legal_hint(hint) == hint[1] # ""

suffixed(hint, index) == IF index = 0 THEN hint ELSE <<hint[1], Append(hint[2], index)>>

next_unnamed_index(assigner) ==
  [assigner |-> [assigner EXCEPT !.unnamed_index = @ + 1],
   name |-> <<"", <<assigner.unnamed_index>>>>]

next_named_index(assigner, hint) ==
  IF hint \in DOMAIN assigner.named_index THEN assigner.named_index[hint] ELSE 0

(* The first suffix from the counter on that nobody was given.              *)
name_from_hint(assigner, hint) ==
  LET tried == next_named_index(assigner, hint)
      free(i) == suffixed(hint, i) \notin assigner.issued_names
      index == CHOOSE i \in tried .. tried + Cardinality(assigner.issued_names) :
                 free(i) /\ \A j \in tried .. i - 1 : ~free(j)
  IN  [assigner |->
         [assigner EXCEPT !.named_index = (hint :> index + 1) @@ @,
                          !.issued_names = @ \union {suffixed(hint, index)}],
       name |-> suffixed(hint, index)]

(* A hint is an Option: RegName::Unnamed is None.                           *)
name_for_reg(ctx, hint, func) ==
  LET assigner == ctx.reg_name_assigner[func]
      issued == IF hint = None THEN next_unnamed_index(assigner)
                ELSE name_from_hint(assigner, hint[1])
  IN  IF hint # None /\ ~is_legal_hint(hint[1]) THEN Refused(ctx)
      ELSE Returned([ctx EXCEPT !.reg_name_assigner[func] = issued.assigner], issued.name)

-----------------------------------------------------------------------------
(* Module-level symbols                                                     *)

DeclaredVariable(ty, initializer) == [ty |-> ty, initializer |-> initializer]
FuncSignature(params, result) == [params |-> params, result |-> result]

pointee_ty(global) ==
  IF "ty" \in DOMAIN global THEN global.ty ELSE Func(global.params, global.result)

declare_global_variable(ctx, name, ty, initializer) ==
  LET final_ty == IF ty # None THEN ty[1] ELSE initializer[1].ty
  IN  IF /\ name \notin DOMAIN ctx.globals
         /\ ty # None \/ initializer # None
         /\ ty # None => is_first_class(ty[1])
         /\ ty # None /\ initializer # None => initializer[1].ty = ty[1]
      THEN Returned([ctx EXCEPT !.globals = (name :> DeclaredVariable(final_ty, initializer)) @@ @,
                                !.global_variables = Append(@, name)],
                    from_global(name))
      ELSE Refused(ctx)

signature_allowed(ctx, name, params, result) ==
  /\ name \notin DOMAIN ctx.globals
  /\ \A k \in DOMAIN params : is_first_class(params[k])
  /\ is_void(result) \/ is_first_class(result)

declare_function(ctx, name, params, result) ==
  IF signature_allowed(ctx, name, params, result)
  THEN Returned([ctx EXCEPT !.globals = (name :> FuncSignature(params, result)) @@ @,
                            !.imported_functions = Append(@, name)],
                from_global(name))
  ELSE Refused(ctx)

(* The function is allocated before its parameters are named: a hint that   *)
(* is refused leaves behind a function no list and no symbol mentions.      *)
define_function(ctx, name, params, result) ==
  LET func == Len(ctx.funcs) + 1
      tys == [k \in DOMAIN params |-> params[k].ty]
      allocated ==
        [ctx EXCEPT !.funcs = Append(@, [name |-> name, params |-> <<>>, result |-> Void,
                                         blocks |-> <<>>, block_names |-> {}]),
                    !.reg_name_assigner = Append(@, FuncRegNameIndex),
                    !.register_defs = Append(@, <<>>)]
      draw(reply, param) ==
        LET drawn == name_for_reg(reply.ctx, param.name, func)
        IN  IF reply.out = None \/ drawn.out = None
            THEN Refused(IF reply.out = None THEN reply.ctx ELSE drawn.ctx)
            ELSE Returned(drawn.ctx, Append(reply.out[1], from_register(drawn.out[1], param.ty)))
      named == FoldLeft(draw, Returned(allocated, <<>>), params)
  IN  IF ~signature_allowed(ctx, name, tys, result) THEN Refused(ctx)
      ELSE IF named.out = None THEN named
      ELSE Returned([named.ctx EXCEPT !.funcs[func].params = named.out[1],
                                      !.funcs[func].result = result,
                                      !.globals = (name :> FuncSignature(tys, result)) @@ @,
                                      !.functions = Append(@, func)],
                    from_global(name))

add_basic_block(ctx, func, name) ==
  LET block == Len(ctx.blocks) + 1
  IN  IF name \in ctx.funcs[func].block_names THEN Refused(ctx)
      ELSE Returned([ctx EXCEPT
             !.blocks = Append(@, [name |-> name, is_first |-> ctx.funcs[func].blocks = <<>>,
                                   func_id |-> func, phis |-> <<>>, instructions |-> <<>>,
                                   is_locked |-> FALSE]),
             !.funcs[func].blocks = Append(@, block),
             !.funcs[func].block_names = @ \union {name}], [block |-> block])

-----------------------------------------------------------------------------
(* What a block is given                                                    *)

\* A slip: a block that ended takes more.
add_instruction_when_locked(ctx, block, instr) ==
  Returned([ctx EXCEPT !.blocks[block].instructions = Append(@, instr)],
           Len(ctx.blocks[block].instructions) + 1)

(* Returns the instruction's index in the block.                            *)
add_instruction(ctx, block, instr) ==
  IF ctx.blocks[block].is_locked THEN Refused(ctx)
  ELSE Returned([ctx EXCEPT !.blocks[block].instructions = Append(@, instr)],
                Len(ctx.blocks[block].instructions) + 1)

set_locked(ctx, block) == [ctx EXCEPT !.blocks[block].is_locked = TRUE]

add_terminator(ctx, block, instr) ==
  LET added == add_instruction(ctx, block, instr)
  IN  IF added.out = None THEN Refused(added.ctx)
      ELSE Returned(set_locked(added.ctx, block), Done)

add_phi(ctx, block, phi) ==
  IF \/ ctx.blocks[block].is_locked
     \/ ctx.blocks[block].is_first
     \/ ctx.blocks[block].instructions # <<>>
  THEN Refused(ctx)
  ELSE Returned([ctx EXCEPT !.blocks[block].phis = Append(@, phi)],
                [phi |-> Len(ctx.blocks[block].phis) + 1, block |-> block])

\* A slip: the branch pushed before it is checked.
add_branch_unchecked(ctx, handler, branch) ==
  LET phi == ctx.blocks[handler.block].phis[handler.phi]
      pushed == [ctx EXCEPT !.blocks[handler.block].phis[handler.phi].branches = Append(@, branch)]
  IN  IF branch.val.ty # phi.ref_ty THEN Refused(pushed) ELSE Returned(pushed, Done)

add_branch(ctx, handler, branch) ==
  LET phi == ctx.blocks[handler.block].phis[handler.phi]
  IN  IF branch.val.ty # phi.ref_ty \/ \E k \in DOMAIN phi.branches : phi.branches[k].block = branch.block
      THEN Refused(ctx)
      ELSE Returned([ctx EXCEPT !.blocks[handler.block].phis[handler.phi].branches = Append(@, branch)], Done)

(* The name is drawn first, so a number is used up even when the block no   *)
(* longer takes instructions.                                               *)
add_instruction_to_block_and_get_value(ctx, block, kind, result_ty, hint) ==
  LET func == ctx.blocks[block].func_id
      named == name_for_reg(ctx, hint, func)
      value == from_register(named.out[1], result_ty)
      added == add_instruction(named.ctx, block, [kind EXCEPT !.value = Some(value)])
      def == [block |-> block, instr_index |-> added.out[1]]
  IN  IF named.out = None THEN named
      ELSE IF added.out = None THEN added
      ELSE Returned([added.ctx EXCEPT !.register_defs[func] = (value.reg :> def) @@ @], value)

(* What a pointer was traced back to, if anything: the slot of an alloca,   *)
(* what the indices of a getelementptr landed on, what a symbol holds.      *)
try_inferring_pointee_ty(ctx, block, ptr) ==
  LET defs == ctx.register_defs[ctx.blocks[block].func_id]
      def == defs[ptr.reg]
      kind == ctx.blocks[def.block].instructions[def.instr_index]
  IN  CASE ~is_ptr(ptr.ty) -> None
        [] is_ptr(ptr.ty) /\ "reg" \in DOMAIN ptr ->
             IF ptr.reg \notin DOMAIN defs THEN None
             ELSE IF kind.op = "alloca" THEN Some(kind.ty)
             ELSE IF kind.op = "getelementptr" THEN result_pointee_ty(kind)
             ELSE None
        [] is_ptr(ptr.ty) /\ "gep" \in DOMAIN ptr -> result_pointee_ty(ptr.gep)
        [] is_ptr(ptr.ty) /\ "global" \in DOMAIN ptr -> Some(pointee_ty(ctx.globals[ptr.global]))
        [] OTHER -> None
=============================================================================
