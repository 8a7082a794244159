------------------------------ MODULE RegMemory ------------------------------
(***************************************************************************)
(* The memory arms of RegInstruction::execute, in the operands of their    *)
(* signature, the deepest first, and the signatures themselves.            *)
(***************************************************************************)
EXTENDS LinearMemory

(* A slip: the sum wraps around the 32-bit address space.                   *)
effective_address_wrapping(offset, slot) == Some(unsigned(W32, as_u32(slot) + offset))

(* None when the sum leaves the 32-bit address space.                       *)
effective_address(offset, slot) == checked_add(W32, as_u32(slot), offset)

At(offset, slot, i, Access(_)) ==
  LET effective == effective_address(offset, slot)
  IN  IF effective = None THEN Trapped(i) ELSE Access(effective[1])

-----------------------------------------------------------------------------
MemorySize(i) == Push(i, from_i32(size_in_pages(i.memory)))

MemoryGrow(i, in, max_pages) ==
  LET g == grow(i.memory, as_u32(in[1]), max_pages)
      grown == [i EXCEPT !.memory = g.memory]
  IN  IF g.old # None THEN Push(grown, from_i32(g.old[1])) ELSE Push(grown, from_i32(-1))

MemoryCopy(i, in) ==
  Stored(i, copy_within(i.memory, as_usize(in[1]), as_usize(in[2]), as_usize(in[3])))

MemoryFill(i, in) ==
  Stored(i, fill(i.memory, as_usize(in[1]), as_u32(in[2]), as_usize(in[3])))

(* A dropped segment reads as an empty one.                                 *)
segment(i, k) == IF i.data_vals[k] = None THEN <<>> ELSE i.data_vals[k][1]

MemoryInit(i, k, in) ==
  LET src == as_usize(in[2])
      end == checked_add(W64, src, as_usize(in[3]))
  IN  IF end = None \/ end[1] > Len(segment(i, k)) THEN Trapped(i)
      ELSE Stored(i, write(i.memory, as_usize(in[1]), SubSeq(segment(i, k), src + 1, end[1])))

DataDrop(i, k) == Done([i EXCEPT !.data_vals[k] = None])

-----------------------------------------------------------------------------
I32Loads(o, i, in) ==
  At(o.offset, in[1], i, LAMBDA at :
     CASE o.n = 32 -> Loaded(i, read_i32(i.memory, at), from_i32)
       [] o.n = 8 /\ o.ext = "S" -> Loaded(i, read_i8(i.memory, at), from_i32)
       [] o.n = 8 /\ o.ext = "U" -> Loaded(i, read_u8(i.memory, at), from_i32)
       [] o.n = 16 /\ o.ext = "S" -> Loaded(i, read_i16(i.memory, at), from_i32)
       [] o.n = 16 /\ o.ext = "U" -> Loaded(i, read_u16(i.memory, at), from_i32))

I64Loads(o, i, in) ==
  At(o.offset, in[1], i, LAMBDA at :
     CASE o.n = 64 -> Loaded(i, read_i64(i.memory, at), from_i64)
       [] o.n = 8 /\ o.ext = "S" -> Loaded(i, read_i8(i.memory, at), from_i64)
       [] o.n = 8 /\ o.ext = "U" -> Loaded(i, read_u8(i.memory, at), from_i64)
       [] o.n = 16 /\ o.ext = "S" -> Loaded(i, read_i16(i.memory, at), from_i64)
       [] o.n = 16 /\ o.ext = "U" -> Loaded(i, read_u16(i.memory, at), from_i64)
       [] o.n = 32 /\ o.ext = "S" -> Loaded(i, read_i32(i.memory, at), from_i64)
       [] o.n = 32 /\ o.ext = "U" -> Loaded(i, read_u32(i.memory, at), from_i64))

F32Load(o, i, in) == At(o.offset, in[1], i, LAMBDA at : Loaded(i, read_f32(i.memory, at), from_f32))
F64Load(o, i, in) == At(o.offset, in[1], i, LAMBDA at : Loaded(i, read_f64(i.memory, at), from_f64))

I32Stores(o, i, in) ==
  At(o.offset, in[1], i, LAMBDA at :
     CASE o.n = 32 -> Stored(i, write_u32(i.memory, at, as_u32(in[2])))
       [] o.n = 8 -> Stored(i, write_u8(i.memory, at, unsigned(W8, as_i32(in[2]))))
       [] o.n = 16 -> Stored(i, write_u16(i.memory, at, unsigned(W16, as_i32(in[2])))))

I64Stores(o, i, in) ==
  At(o.offset, in[1], i, LAMBDA at :
     CASE o.n = 64 -> Stored(i, write_u64(i.memory, at, as_u64(in[2])))
       [] o.n = 8 -> Stored(i, write_u8(i.memory, at, unsigned(W8, as_i64(in[2]))))
       [] o.n = 16 -> Stored(i, write_u16(i.memory, at, unsigned(W16, as_i64(in[2]))))
       [] o.n = 32 -> Stored(i, write_u32(i.memory, at, unsigned(W32, as_i64(in[2])))))

F32Store(o, i, in) == At(o.offset, in[1], i, LAMBDA at : Stored(i, write_f32(i.memory, at, as_f32(in[2]))))
F64Store(o, i, in) == At(o.offset, in[1], i, LAMBDA at : Stored(i, write_f64(i.memory, at, as_f64(in[2]))))

-----------------------------------------------------------------------------
(* Signature<I, O>, with the output the lowering keeps or discards.         *)
Sig(inputs, outputs) == [inputs |-> inputs, outputs |-> outputs]

MemorySignature(f) ==
  CASE f = "Size" -> Sig(0, 1)
    [] f = "Grow" -> Sig(1, 1)
    [] f \in {"Copy", "Fill", "Init"} -> Sig(3, 0)
    [] f = "Drop" -> Sig(0, 0)
LoadSignature == Sig(1, 1)
StoreSignature == Sig(2, 0)
=============================================================================
