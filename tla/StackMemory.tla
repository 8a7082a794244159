----------------------------- MODULE StackMemory -----------------------------
(***************************************************************************)
(* The memory arms of StackInstruction::execute, p the operands in the     *)
(* order an arm pops them, and the effects their lowering books.           *)
(***************************************************************************)
EXTENDS LinearMemory

(* None when the sum leaves the 32-bit address space.                       *)
pop_effective_address(offset, addr) == checked_add(W32, as_u32(addr), offset)

At(offset, addr, i, Access(_)) ==
  LET effective == pop_effective_address(offset, addr)
  IN  IF effective = None THEN Trapped(i) ELSE Access(effective[1])

-----------------------------------------------------------------------------
MemorySize(i) == Push(i, from_i32(size_in_pages(i.memory)))

MemoryGrow(i, p, max_pages) ==
  LET g == grow(i.memory, as_u32(p[1]), max_pages)
  IN  Push([i EXCEPT !.memory = g.memory],
           from_i32(IF g.old = None THEN -1 ELSE g.old[1]))

MemoryCopy(i, p) ==
  Stored(i, copy_within(i.memory, as_usize(p[3]), as_usize(p[2]), as_usize(p[1])))

MemoryFill(i, p) ==
  Stored(i, fill(i.memory, as_usize(p[3]), as_u32(p[2]), as_usize(p[1])))

(* A dropped segment reads as an empty one.                                 *)
MemoryInit(i, k, p) ==
  LET segment == IF i.data_vals[k] = None THEN <<>> ELSE i.data_vals[k][1]
      src == as_usize(p[2])
      end == checked_add(W64, src, as_usize(p[1]))
  IN  IF end = None \/ end[1] > Len(segment) THEN Trapped(i)
      ELSE Stored(i, write(i.memory, as_usize(p[3]), SubSeq(segment, src + 1, end[1])))

DataDrop(i, k) == Done([i EXCEPT !.data_vals[k] = None])

-----------------------------------------------------------------------------
I32Loads(o, i, p) ==
  At(o.offset, p[1], i, LAMBDA at :
     CASE o.n = 32 -> Loaded(i, read_i32(i.memory, at), from_i32)
       [] o.n = 8 /\ o.ext = "U" -> Loaded(i, read_u8(i.memory, at), from_i32)
       [] o.n = 8 /\ o.ext = "S" -> Loaded(i, read_i8(i.memory, at), from_i32)
       [] o.n = 16 /\ o.ext = "U" -> Loaded(i, read_u16(i.memory, at), from_i32)
       [] o.n = 16 /\ o.ext = "S" -> Loaded(i, read_i16(i.memory, at), from_i32))

I64Loads(o, i, p) ==
  At(o.offset, p[1], i, LAMBDA at :
     CASE o.n = 64 -> Loaded(i, read_i64(i.memory, at), from_i64)
       [] o.n = 8 /\ o.ext = "U" -> Loaded(i, read_u8(i.memory, at), from_i64)
       [] o.n = 8 /\ o.ext = "S" -> Loaded(i, read_i8(i.memory, at), from_i64)
       [] o.n = 16 /\ o.ext = "U" -> Loaded(i, read_u16(i.memory, at), from_i64)
       [] o.n = 16 /\ o.ext = "S" -> Loaded(i, read_i16(i.memory, at), from_i64)
       [] o.n = 32 /\ o.ext = "U" -> Loaded(i, read_u32(i.memory, at), from_i64)
       [] o.n = 32 /\ o.ext = "S" -> Loaded(i, read_i32(i.memory, at), from_i64))

F32Load(o, i, p) == At(o.offset, p[1], i, LAMBDA at : Loaded(i, read_f32(i.memory, at), from_f32))
F64Load(o, i, p) == At(o.offset, p[1], i, LAMBDA at : Loaded(i, read_f64(i.memory, at), from_f64))

(* The value is popped first, the address below it second.                  *)
I32Stores(o, i, p) ==
  At(o.offset, p[2], i, LAMBDA at :
     CASE o.n = 32 -> Stored(i, write_u32(i.memory, at, as_u32(p[1])))
       [] o.n = 8 -> Stored(i, write_u8(i.memory, at, unsigned(W8, as_i32(p[1]))))
       [] o.n = 16 -> Stored(i, write_u16(i.memory, at, unsigned(W16, as_i32(p[1])))))

I64Stores(o, i, p) ==
  At(o.offset, p[2], i, LAMBDA at :
     CASE o.n = 64 -> Stored(i, write_u64(i.memory, at, as_u64(p[1])))
       [] o.n = 8 -> Stored(i, write_u8(i.memory, at, unsigned(W8, as_i64(p[1]))))
       [] o.n = 16 -> Stored(i, write_u16(i.memory, at, unsigned(W16, as_i64(p[1]))))
       [] o.n = 32 -> Stored(i, write_u32(i.memory, at, unsigned(W32, as_i64(p[1])))))

F32Store(o, i, p) == At(o.offset, p[2], i, LAMBDA at : Stored(i, write_f32(i.memory, at, as_f32(p[1]))))
F64Store(o, i, p) == At(o.offset, p[2], i, LAMBDA at : Stored(i, write_f64(i.memory, at, as_f64(p[1]))))

-----------------------------------------------------------------------------
(* StackEffectResult, what the lowering books.                              *)
PopPush(pops, pushes) == [pops |-> pops, pushes |-> pushes]

MemoryEffect(f) ==
  CASE f = "Size" -> PopPush(0, 1)
    [] f = "Grow" -> PopPush(1, 1)
    [] f \in {"Copy", "Fill", "Init"} -> PopPush(3, 0)
    [] f = "Drop" -> PopPush(0, 0)
LoadEffect == PopPush(1, 1)
StoreEffect == PopPush(2, 0)
=============================================================================
