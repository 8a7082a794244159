----------------------------- MODULE LinearMemory -----------------------------
(***************************************************************************)
(* LinearMemory, a Vec of bytes, and the default methods of Memory and     *)
(* MemoryView it keeps.  A memory is the sequence of its bytes; the byte   *)
(* at offset k is memory[k + 1].                                           *)
(***************************************************************************)
EXTENDS RuntimeValues, Sequences, SequencesExt

CONSTANTS
  PAGE,    \* bytes of a page (WASM_MEMORY_PAGE_SIZE)
  CHUNK    \* bytes fill writes at once (CHUNK_LEN)

(* What a method that changes the memory leaves behind.                     *)
Ok(memory) == [ok |-> TRUE, memory |-> memory]
Err(memory) == [ok |-> FALSE, memory |-> memory]

checked_add(w, a, b) == IF a + b < 2^w THEN Some(a + b) ELSE None

allocate_initial_memory(pages) == [k \in 1 .. pages * PAGE |-> 0]

size_in_pages(memory) == unsigned(W32, Len(memory) \div PAGE)

(* The page count before; too large a request changes nothing.              *)
grow(memory, delta, max) ==
  LET old == size_in_pages(memory)
      new == checked_add(W32, delta, old)
      fits == new # None /\ new[1] <= max
  IN  [old |-> IF fits THEN Some(old) ELSE None,
       memory |-> IF fits THEN memory \o allocate_initial_memory(new[1] - old) ELSE memory]

(* The bound of every access of len bytes at an offset.                     *)
in_bounds(memory, offset, len) ==
  LET end == checked_add(W64, offset, len) IN end # None /\ end[1] <= Len(memory)

read(memory, offset, len) ==
  IF in_bounds(memory, offset, len) THEN Some(SubSeq(memory, offset + 1, offset + len)) ELSE None

write(memory, offset, data) ==
  IF in_bounds(memory, offset, Len(data))
  THEN Ok(SubSeq(memory, 1, offset) \o data \o SubSeq(memory, offset + Len(data) + 1, Len(memory)))
  ELSE Err(memory)

(* A slip: ascending byte by byte, which reads what it has just written.    *)
moved_bytewise(memory, dest, src, len) ==
  FoldLeft(LAMBDA m, k : [m EXCEPT ![dest + k] = m[src + k]], memory, [k \in 1 .. len |-> k])

(* slice::copy_within, a memmove: every byte is read before one is written. *)
moved(memory, dest, src, len) ==
  [k \in DOMAIN memory |-> IF k \in dest + 1 .. dest + len THEN memory[k - dest + src] ELSE memory[k]]

copy_within(memory, dest, src, len) ==
  IF in_bounds(memory, src, len) /\ in_bounds(memory, dest, len)
  THEN Ok(moved(memory, dest, src, len))
  ELSE Err(memory)

(* Chunk after chunk through write, once the whole range has been checked.  *)
written_in_chunks(memory, dest, val, len) ==
  FoldLeft(LAMBDA r, written :
             IF r.ok THEN write(r.memory, dest + written,
                                [k \in 1 .. IF len - written < CHUNK THEN len - written ELSE CHUNK
                                   |-> unsigned(W8, val)])
             ELSE r,
           Ok(memory), [c \in 1 .. (len + CHUNK - 1) \div CHUNK |-> (c - 1) * CHUNK])

(* A slip: each chunk's own bound is taken to be enough.                    *)
fill_unchecked(memory, dest, val, len) == written_in_chunks(memory, dest, val, len)

fill(memory, dest, val, len) ==
  IF in_bounds(memory, dest, len) THEN written_in_chunks(memory, dest, val, len) ELSE Err(memory)

-----------------------------------------------------------------------------
(* The sized accessors.                                                     *)
number_at(memory, offset, len) ==
  Then(read(memory, offset, len), from_le_bytes)

read_u8(memory, offset)  == number_at(memory, offset, 1)
read_u16(memory, offset) == number_at(memory, offset, 2)
read_u32(memory, offset) == number_at(memory, offset, 4)
read_u64(memory, offset) == number_at(memory, offset, 8)
read_f32(memory, offset) == number_at(memory, offset, 4)
read_f64(memory, offset) == number_at(memory, offset, 8)

read_i8(memory, offset)  == Then(read_u8(memory, offset), LAMBDA v : signed(W8, v))
read_i16(memory, offset) == Then(read_u16(memory, offset), LAMBDA v : signed(W16, v))
read_i32(memory, offset) == Then(read_u32(memory, offset), LAMBDA v : signed(W32, v))
read_i64(memory, offset) == Then(read_u64(memory, offset), LAMBDA v : signed(W64, v))

write_u8(memory, offset, v)  == write(memory, offset, to_le_bytes(1, v))
write_u16(memory, offset, v) == write(memory, offset, to_le_bytes(2, v))
write_u32(memory, offset, v) == write(memory, offset, to_le_bytes(4, v))
write_u64(memory, offset, v) == write(memory, offset, to_le_bytes(8, v))
write_f32(memory, offset, f) == write(memory, offset, to_le_bytes(4, f))
write_f64(memory, offset, f) == write(memory, offset, to_le_bytes(8, f))

-----------------------------------------------------------------------------
(* What the memory arms of the two machines share.  An arm takes the        *)
(* instance i = [memory, data_vals] and leaves an instance and the values   *)
(* it produces, None for an error.                                          *)
Push(i, v) == [i |-> i, out |-> Some(<<v>>)]
Done(i) == [i |-> i, out |-> Some(<<>>)]
Trapped(i) == [i |-> i, out |-> None]

(* Reads and writes end in the `?` of their result.                         *)
Loaded(i, option, From(_)) == IF option = None THEN Trapped(i) ELSE Push(i, From(option[1]))
Stored(i, r) == IF r.ok THEN Done([i EXCEPT !.memory = r.memory])
                ELSE Trapped([i EXCEPT !.memory = r.memory])

as_usize(v) == as_u32(v)   \* as_i32() as u32 as usize
=============================================================================
