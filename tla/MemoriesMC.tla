----------------------------- MODULE MemoriesMC -----------------------------
(* Bytes of two bits, addresses of eight: every byte of a type's width is   *)
(* its own, and a memory of two pages ends well inside the address space.   *)
EXTENDS Memories

ASSUME /\ W16 = 2 * W8 /\ W32 = 4 * W8 /\ W64 = 8 * W8
       /\ (get_max_memory_size_in_pages + 1) * PAGE < 2^W32 - 1

(* No instruction here computes on floats.                                  *)
MCIeee(w, f, a, b) == 0

Image == [k \in 1 .. PAGE |-> ((k + (k \div 3)) % 2^W8)]

MCImages == {<<>>, Image}
MCSegments == <<<<1, 2, 3>>, <<>>>>

(* Around the ends of the memory and of the 32-bit address space.           *)
Addresses == {0, 1, PAGE - 4, PAGE - 1, PAGE, 2 * PAGE - 1, 2 * PAGE, 2^W32 - 2, 2^W32 - 1}
Lengths == {0, 1, 3, PAGE, 2^W32 - 1}
Offsets == {0, 1, PAGE, 2^W32 - 2}

Patterns(ty) ==
  IF ty \in {"I32", "F32"} THEN {0, 27, 2^(W32 - 1) + 27} ELSE {27, 2^(W64 - 1) + 228 * 2^W32 + 54}

Usizes == {0, 2, PAGE, 2^W64 - 1}
HostLengths == {0, 2, PAGE, PAGE + 1}

On(os, xs) == {[o |-> p, x |-> q] : p \in os, q \in xs}
Triples(a, b, c) == {<<p, q, t>> : p \in a, q \in b, t \in c}

Changes ==
  On({Bulk("Grow", 0)}, {<<d>> : d \in {0, 1, 2, 2^W32 - 1}})
    \cup On({Bulk("Drop", 1)}, {<<>>})
    \cup On({Bulk("Fill", 0)}, {<<1, 7, 3>>, <<PAGE - 1, 2, 1>>})

Everything ==
  Changes \cup On({Bulk("Size", 0)}, {<<>>})
    \cup On({Bulk("Copy", 0)}, Triples(Addresses, Addresses, Lengths))
    \cup On({Bulk("Fill", 0)}, Triples(Addresses, {2^W8 + 2}, Lengths))
    \cup On({Bulk("Init", k) : k \in {1, 2}}, Triples(Addresses, {0, 1, 3, 4, 2^W32 - 1}, Lengths))
    \cup On(Loads(Offsets), {<<a>> : a \in Addresses})
    \cup UNION {On({st}, {<<a, v>> : a \in Addresses, v \in Patterns(st.ty)}) : st \in Stores(Offsets)}
    \cup On({Bulk("HostFill", 0)}, Triples(Usizes, {2}, HostLengths))
    \cup On({Bulk("HostCopy", 0)}, Triples(Usizes, Usizes, HostLengths))
    \cup On({Bulk("HostRead", 0)}, {<<a, n>> : a \in Usizes, n \in HostLengths})

MCInstructions(n) == CASE n \in {1, 2} -> Changes [] n = 3 -> Everything [] n > 3 -> {}
=============================================================================
