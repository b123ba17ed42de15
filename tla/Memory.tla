------------------------------- MODULE Memory -------------------------------
(***************************************************************************)
(* A memory instance, MemoryInstance of                                    *)
(* src/include/executor/instance/memory.h, as operators on a record        *)
(* [pages, max, data].  Its member functions are only declared under src/  *)
(* (the bodies are in memory.ipp and memory.cpp), so their behaviour is    *)
(* taken from the spec (sections 3 and 4.4.3): data is CurrPage pages of  *)
(* PageBytes bytes, an access of Length bytes at Offset is in bounds when  *)
(* Offset + Length <= |data|, and growing past MaxPage fails.              *)
(*                                                                         *)
(* A byte is one bit in the model (0 or 1), so an i32 of ValueBits bits    *)
(* takes ValueBits bytes; values are stored little-endian.                 *)
(***************************************************************************)
LOCAL INSTANCE Naturals
LOCAL INSTANCE Sequences

\* setLimit(Min, true, Max) and the initial page allocation.
NewMemory(min, max, pageBytes) ==
    [pages |-> min, max |-> max, data |-> [i \in 1..(min * pageBytes) |-> 0]]

\* checkDataSize: Data[Offset : Offset + Length - 1] exists.
InBounds(m, offset, length) == offset + length <= Len(m.data)

\* growPage(Count): fails past the maximum, else appends zeroed pages.
CanGrow(m, count) == m.pages + count <= m.max
GrowPage(m, count, pageBytes) ==
    [m EXCEPT !.pages = @ + count,
              !.data = @ \o [i \in 1..(count * pageBytes) |-> 0]]

\* Mutant: the bytes of a value are written most significant first.
EncodeBigEndian(v, w) == [i \in 1..w |-> (v \div 2^(w - i)) % 2]

\* storeValue(Value, Offset, Length): the Length low bytes, little-endian.
Encode(v, w) == [i \in 1..w |-> (v \div 2^(i - 1)) % 2]

\* setArray / storeValue: Data[Offset + 1 ..] := bytes.
StoreBytes(m, offset, bytes) ==
    [m EXCEPT !.data = [i \in DOMAIN @ |->
                          IF offset < i /\ i <= offset + Len(bytes)
                          THEN bytes[i - offset] ELSE @[i]]]

\* getArray: Data[Offset : Offset + Length - 1].
LoadBytes(m, offset, length) == SubSeq(m.data, offset + 1, offset + length)

\* loadValue: the little-endian number the bytes spell.
RECURSIVE Decode(_)
Decode(bytes) == IF bytes = <<>> THEN 0 ELSE bytes[1] + 2 * Decode(Tail(bytes))

\* Mutant: a narrow signed load is zero-extended.
SignExtendNone(v, from, bits) == v

\* The sign extension of a load8_s/load16_s: a value of from bits widened
\* to bits, its top bit copied into the new ones.
SignExtend(v, from, bits) ==
    IF v >= 2^(from - 1) THEN v + 2^bits - 2^from ELSE v

=============================================================================
