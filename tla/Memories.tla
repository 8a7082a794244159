------------------------------- MODULE Memories -------------------------------
(***************************************************************************)
(* Both machines and a host function, each with an instance of its own,    *)
(* executing the same memory instructions one after another; a trap ends   *)
(* a call, not the instance.                                               *)
(*                                                                         *)
(*   wasm        the instance as WebAssembly defines it                    *)
(*   o, x        the instruction under way and its operands                *)
(*   result      what o should give, None for a trap                       *)
(*   count       the instructions so far                                   *)
(*   s, r        the instances [memory, data_vals] of the two machines     *)
(*   stack, height        the stack machine's operands and booked height   *)
(*   registers, next_reg  the register machine's operands in use           *)
(*   s_out, r_out         "ready", "done" or "trapped"                     *)
(***************************************************************************)
EXTENDS LinearMemory

(* The instructions as WebAssembly's specification defines them: unbounded  *)
(* sums, one bound, and no step in between.  Wasm is [memory, segments]; an *)
(* instruction gives its result, or None for a trap.                        *)

Ints == {"I32", "I64"}

(* The accesses narrower than their type: how many bytes they touch.        *)
Partial == [I32 |-> {8, 16}, I64 |-> {8, 16, 32}]

Load(ty, bits_, ext_, offset_) == [f |-> "Load", ty |-> ty, n |-> bits_, ext |-> ext_, offset |-> offset_]
Store(ty, bits_, offset_) == [f |-> "Store", ty |-> ty, n |-> bits_, ext |-> "", offset |-> offset_]

Loads(offsets) ==
  {Load(ty, IF ty \in {"I32", "F32"} THEN 32 ELSE 64, "", k) : ty \in {"I32", "I64", "F32", "F64"}, k \in offsets}
    \cup UNION {{Load(ty, n, s, k) : n \in Partial[ty], s \in {"S", "U"}, k \in offsets} : ty \in Ints}

Stores(offsets) ==
  {Store(ty, IF ty \in {"I32", "F32"} THEN 32 ELSE 64, k) : ty \in {"I32", "I64", "F32", "F64"}, k \in offsets}
    \cup UNION {{Store(ty, n, k) : n \in Partial[ty], k \in offsets} : ty \in Ints}

Bulk(f, k) == [f |-> f, ty |-> "", n |-> 0, ext |-> "", offset |-> k]   \* k: the segment, if any

Trap(wasm) == [wasm |-> wasm, out |-> None]
Return(wasm, results) == [wasm |-> wasm, out |-> Some(results)]

Replaced(memory, at, data) ==
  [k \in DOMAIN memory |-> IF k \in at + 1 .. at + Len(data) THEN data[k - at] ELSE memory[k]]

Slice(s, at, len) == [k \in 1 .. len |-> s[at + k]]

(* Writes a slice of a sequence of bytes over the memory, if both ranges    *)
(* exist.                                                                   *)
Transfer(wasm, dest, source, src, len) ==
  IF src + len > Len(source) \/ dest + len > Len(wasm.memory) THEN Trap(wasm)
  ELSE Return([wasm EXCEPT !.memory = Replaced(@, dest, Slice(source, src, len))], <<>>)

Width_of(n) == CASE n = 8 -> W8 [] n = 16 -> W16 [] n = 32 -> W32 [] n = 64 -> W64
Extended(o, v) ==
  IF o.ext = "S" THEN unsigned(IF o.ty = "I32" THEN W32 ELSE W64, signed(Width_of(o.n), v)) ELSE v

(* o on the operands x, the deepest first, in an instance that may hold at  *)
(* most max pages.                                                          *)
Reference(o, x, wasm, max) ==
  LET bytes == o.n \div 8
      pages == Len(wasm.memory) \div PAGE
  IN  CASE o.f = "Load" ->
             IF x[1] + o.offset + bytes > Len(wasm.memory) THEN Trap(wasm)
             ELSE Return(wasm, <<Extended(o, from_le_bytes(Slice(wasm.memory, x[1] + o.offset, bytes)))>>)
        [] o.f = "Store" -> Transfer(wasm, x[1] + o.offset, to_le_bytes(bytes, x[2]), 0, bytes)
        [] o.f = "Size" -> Return(wasm, <<pages>>)
        [] o.f = "Grow" ->
             IF pages + x[1] > max THEN Return(wasm, <<UMax(W32)>>)
             ELSE Return([wasm EXCEPT !.memory = @ \o [k \in 1 .. x[1] * PAGE |-> 0]], <<pages>>)
        [] o.f \in {"Copy", "HostCopy"} -> Transfer(wasm, x[1], wasm.memory, x[2], x[3])
        [] o.f \in {"Fill", "HostFill"} ->
             IF x[1] + x[3] > Len(wasm.memory) THEN Trap(wasm)
             ELSE Transfer(wasm, x[1], [k \in 1 .. x[3] |-> x[2] % 2^W8], 0, x[3])
        [] o.f = "HostRead" ->
             IF x[1] + x[2] > Len(wasm.memory) THEN Trap(wasm)
             ELSE Return(wasm, Slice(wasm.memory, x[1], x[2]))
        [] o.f = "Init" -> Transfer(wasm, x[1], wasm.segments[o.offset], x[2], x[3])
        [] o.f = "Drop" -> Return([wasm EXCEPT !.segments[o.offset] = <<>>], <<>>)

-----------------------------------------------------------------------------
(* The machines on them.                                                    *)
CONSTANTS
  Images,                \* the memories an instance may start with
  Segments,              \* its passive data segments
  get_max_memory_size_in_pages,   \* the cap its config settled on
  Instructions(_)        \* the pairs of instruction and operands tried as the n-th

VARIABLES wasm, o, x, result, count, s, stack, height, s_out, r, registers, next_reg, r_out

chosen == <<wasm, o, x, result, count>>
stack_machine == <<s, stack, height, s_out>>
register_machine == <<r, registers, next_reg, r_out>>
vars == <<chosen, stack_machine, register_machine>>

S == INSTANCE StackMemory
R == INSTANCE RegMemory

Below == 1   \* an operand no instruction may touch

Init ==
  /\ \E image \in Images :
       /\ wasm = [memory |-> image, segments |-> Segments]
       /\ s = [memory |-> image, data_vals |-> [k \in DOMAIN Segments |-> Some(Segments[k])]]
       /\ r = s
  /\ o = Bulk("Size", 0) /\ x = <<>> /\ result = None /\ count = 0
  /\ stack = <<>> /\ height = 0 /\ s_out = "done"
  /\ registers = <<>> /\ next_reg = 0 /\ r_out = "done"

(* The next instruction finds its operands on top of another one.           *)
Fetch ==
  /\ s_out # "ready" /\ r_out # "ready"
  /\ \E instruction \in Instructions(count + 1) :
       LET reference == Reference(instruction.o, instruction.x, wasm, get_max_memory_size_in_pages)
       IN  /\ o' = instruction.o /\ x' = instruction.x
           /\ wasm' = reference.wasm /\ result' = reference.out
           /\ stack' = <<Below>> \o instruction.x /\ registers' = stack'
  /\ height' = Len(stack') /\ next_reg' = Len(stack') /\ count' = count + 1
  /\ s_out' = "ready" /\ r_out' = "ready"
  /\ UNCHANGED <<s, r>>

-----------------------------------------------------------------------------
(* An arm on the operands it pops, the last first.                          *)
StackArm(Arm(_), effect) ==
  LET n == Len(x)
      kept == SubSeq(stack, 1, Len(stack) - n)
      arm == Arm([k \in 1 .. n |-> stack[Len(stack) - k + 1]])
  IN  /\ s_out = "ready"
      /\ height' = height - effect.pops + effect.pushes
      /\ s' = arm.i
      /\ stack' = IF arm.out = None THEN kept ELSE kept \o arm.out[1]
      /\ s_out' = IF arm.out = None THEN "trapped" ELSE "done"
      /\ UNCHANGED <<chosen, register_machine>>

StackBulk(f, Arm(_)) == o.f = f /\ StackArm(Arm, S!MemoryEffect(f))

StackMemorySize == StackBulk("Size", LAMBDA p : S!MemorySize(s))
StackMemoryGrow == StackBulk("Grow", LAMBDA p : S!MemoryGrow(s, p, get_max_memory_size_in_pages))
StackMemoryCopy == StackBulk("Copy", LAMBDA p : S!MemoryCopy(s, p))
StackMemoryFill == StackBulk("Fill", LAMBDA p : S!MemoryFill(s, p))
StackMemoryInit == StackBulk("Init", LAMBDA p : S!MemoryInit(s, o.offset, p))
StackDataDrop   == StackBulk("Drop", LAMBDA p : S!DataDrop(s, o.offset))

StackLoad ==
  /\ o.f = "Load"
  /\ StackArm(LAMBDA p : CASE o.ty = "I32" -> S!I32Loads(o, s, p) [] o.ty = "I64" -> S!I64Loads(o, s, p)
                           [] o.ty = "F32" -> S!F32Load(o, s, p) [] o.ty = "F64" -> S!F64Load(o, s, p),
              S!LoadEffect)
StackStore ==
  /\ o.f = "Store"
  /\ StackArm(LAMBDA p : CASE o.ty = "I32" -> S!I32Stores(o, s, p) [] o.ty = "I64" -> S!I64Stores(o, s, p)
                           [] o.ty = "F32" -> S!F32Store(o, s, p) [] o.ty = "F64" -> S!F64Store(o, s, p),
              S!StoreEffect)

-----------------------------------------------------------------------------
(* An arm on the registers its signature takes off those in use; the first  *)
(* of them is its output.                                                   *)
RegArm(Arm(_), sig) ==
  LET base == next_reg - sig.inputs
      arm == Arm(SubSeq(registers, base + 1, next_reg))
      outputs == SubSeq(registers, 1, base) \o (IF arm.out = None THEN <<>> ELSE arm.out[1])
  IN  /\ r_out = "ready"
      /\ next_reg' = base + sig.outputs
      /\ r' = arm.i
      /\ registers' = outputs \o SubSeq(registers, Len(outputs) + 1, Len(registers))
      /\ r_out' = IF arm.out = None THEN "trapped" ELSE "done"
      /\ UNCHANGED <<chosen, stack_machine>>

RegBulk(f, Arm(_)) == o.f = f /\ RegArm(Arm, R!MemorySignature(f))

RegMemorySize == RegBulk("Size", LAMBDA in : R!MemorySize(r))
RegMemoryGrow == RegBulk("Grow", LAMBDA in : R!MemoryGrow(r, in, get_max_memory_size_in_pages))
RegMemoryCopy == RegBulk("Copy", LAMBDA in : R!MemoryCopy(r, in))
RegMemoryFill == RegBulk("Fill", LAMBDA in : R!MemoryFill(r, in))
RegMemoryInit == RegBulk("Init", LAMBDA in : R!MemoryInit(r, o.offset, in))
RegDataDrop   == RegBulk("Drop", LAMBDA in : R!DataDrop(r, o.offset))

RegLoad ==
  /\ o.f = "Load"
  /\ RegArm(LAMBDA in : CASE o.ty = "I32" -> R!I32Loads(o, r, in) [] o.ty = "I64" -> R!I64Loads(o, r, in)
                          [] o.ty = "F32" -> R!F32Load(o, r, in) [] o.ty = "F64" -> R!F64Load(o, r, in),
            R!LoadSignature)
RegStore ==
  /\ o.f = "Store"
  /\ RegArm(LAMBDA in : CASE o.ty = "I32" -> R!I32Stores(o, r, in) [] o.ty = "I64" -> R!I64Stores(o, r, in)
                          [] o.ty = "F32" -> R!F32Store(o, r, in) [] o.ty = "F64" -> R!F64Store(o, r, in),
            R!StoreSignature)

-----------------------------------------------------------------------------
(* A host function's MemoryView, at any offset a usize holds; its result    *)
(* is what it read.                                                         *)
HostArm(i) ==
  CASE o.f = "HostFill" -> S!Stored(i, fill(i.memory, x[1], x[2], x[3]))
    [] o.f = "HostCopy" -> S!Stored(i, copy_within(i.memory, x[1], x[2], x[3]))
    [] o.f = "HostRead" -> LET data == read(i.memory, x[1], x[2])
                           IN  [i |-> i, out |-> IF data = None THEN None ELSE Some(data[1])]

Host ==
  /\ o.f \in {"HostFill", "HostCopy", "HostRead"}
  /\ \/ StackArm(LAMBDA p : HostArm(s), S!PopPush(Len(x), IF HostArm(s).out = None THEN 0 ELSE Len(HostArm(s).out[1])))
     \/ RegArm(LAMBDA in : HostArm(r), R!Sig(Len(x), IF HostArm(r).out = None THEN 0 ELSE Len(HostArm(r).out[1])))

Next ==
  \/ Fetch \/ Host
  \/ StackMemorySize \/ StackMemoryGrow \/ StackMemoryCopy \/ StackMemoryFill
  \/ StackMemoryInit \/ StackDataDrop \/ StackLoad \/ StackStore
  \/ RegMemorySize \/ RegMemoryGrow \/ RegMemoryCopy \/ RegMemoryFill
  \/ RegMemoryInit \/ RegDataDrop \/ RegLoad \/ RegStore

Spec == Init /\ [][Next]_vars

-----------------------------------------------------------------------------
(* An instance holds the reference's bytes, and its segments, the dropped   *)
(* ones empty.                                                              *)
Holds(i) ==
  /\ i.memory = wasm.memory
  /\ \A k \in DOMAIN wasm.segments :
       wasm.segments[k] = IF i.data_vals[k] = None THEN <<>> ELSE i.data_vals[k][1]

(* The stack machine: after every instruction, trapped or not, the whole    *)
(* memory and every segment are as WebAssembly leaves them, it trapped      *)
(* exactly when it should, and the result is in place at the booked height. *)
StackMemoryCorrect ==
  /\ s_out # "ready" => Holds(s)
  /\ s_out = "trapped" => result = None
  /\ s_out = "done" /\ count > 0 =>
       result # None /\ stack = <<Below>> \o result[1] /\ height = Len(stack)

(* The register machine, likewise: its output register holds the result     *)
(* and the registers below its operands keep theirs.                        *)
RegMemoryCorrect ==
  /\ r_out # "ready" => Holds(r)
  /\ r_out = "trapped" => result = None
  /\ r_out = "done" /\ count > 0 =>
       /\ result # None
       /\ next_reg = 1 + Len(result[1])
       /\ SubSeq(registers, 1, next_reg) = <<Below>> \o result[1]

(* A copy, fill, init, write or store that traps, in either machine or for  *)
(* the host, has changed no byte and dropped no segment.                    *)
TrapsChangeNothing ==
  [][/\ s_out' = "trapped" /\ s_out = "ready" => s' = s
     /\ r_out' = "trapped" /\ r_out = "ready" => r' = r]_vars
=============================================================================
