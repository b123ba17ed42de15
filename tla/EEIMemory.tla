----------------------------- MODULE EEIMemory -----------------------------
(***************************************************************************)
(* The memory helpers of EEI<T> (src/include/vm/hostfunc/ethereum/eei.h):  *)
(* loadUInt, loadAddress, loadBytes32, storeUInt, storeAddress,            *)
(* storeBytes32 and convToUInt128, which move EVM words between the wasm   *)
(* memory and the big-endian evmc types.  A word is WordBytes bytes        *)
(* (32 in the code), an address AddrBytes (20), and a byte is one bit as   *)
(* in Memory.  Word bytes are indexed 1..WordBytes, 1 the most significant *)
(* (evmc bytes[0]).                                                        *)
(*                                                                         *)
(* The host functions that call the helpers choose the words, offsets and  *)
(* widths; each action is one helper call.  getArray and setArray with     *)
(* IsReverse copy the bytes in reverse order (Memory, spec section 4.5).   *)
(***************************************************************************)
EXTENDS Naturals, Sequences, Memory

LOCAL SX == INSTANCE SequencesExt

CONSTANTS
    WordBytes,   \* bytes of an evmc_uint256be / evmc_bytes32
    AddrBytes,   \* bytes of an evmc_address
    MemBytes,    \* bytes of the memory instance
    Offsets,     \* offsets the host functions pass
    Widths       \* Bytes arguments the host functions pass to load/storeUInt

VARIABLES
    mem,       \* the memory instance
    ret,       \* ErrCode of the last helper call
    word,      \* the evmc word the last load filled
    roundTrip  \* ghost: [stored, loaded] of the last storeUInt read back

vars == <<mem, ret, word, roundTrip>>

Words == [1..WordBytes -> {0, 1}]
Zero == [i \in 1..WordBytes |-> 0]
NoTrip == [stored |-> Zero, loaded |-> Zero]

\* The number a big-endian word stands for.
WordValue(w) == Decode(SX!Reverse(w))

\* getArray(Arr, Off, Len, IsReverse) / setArray(...) as byte sequences.
GetArray(m, off, len, rev) ==
    IF rev THEN SX!Reverse(LoadBytes(m, off, len)) ELSE LoadBytes(m, off, len)
SetArray(m, bytes, off, rev) ==
    StoreBytes(m, off, IF rev THEN SX!Reverse(bytes) ELSE bytes)
ArrayErr(m, off, len) == IF InBounds(m, off, len) THEN "Success" ELSE "AccessForbidMemory"

Clamp(b) == IF b > WordBytes THEN WordBytes ELSE b

\* Mutant: the loaded bytes go to the front of Dst instead of its end.
LoadUIntAtFront(m, off, bytes) ==
    LET b == Clamp(bytes) IN
    [err |-> ArrayErr(m, off, b),
     dst |-> IF ~InBounds(m, off, b) THEN Zero
             ELSE [i \in 1..WordBytes |-> IF i <= b THEN GetArray(m, off, b, TRUE)[i] ELSE 0]]

\* loadUInt: Dst = {}; getArray(Dst.bytes + (32 - Bytes), Off, Bytes, true).
LoadUInt(m, off, bytes) ==
    LET b == Clamp(bytes) IN
    [err |-> ArrayErr(m, off, b),
     dst |-> IF ~InBounds(m, off, b) THEN Zero
             ELSE [i \in 1..WordBytes |->
                     IF i > WordBytes - b THEN GetArray(m, off, b, TRUE)[i - (WordBytes - b)]
                     ELSE 0]]

\* storeUInt: the bytes above the low Bytes must be zero, then setArray of
\* Src.bytes + (32 - Bytes), reversed.
StoreUIntResult(m, src, off, bytes) ==
    LET b == Clamp(bytes)
        low == [i \in 1..b |-> src[WordBytes - b + i]]
    IN IF \E i \in 1..(WordBytes - b) : src[i] # 0
       THEN [err |-> "ExecutionFailed", mem |-> m]
       ELSE IF ~InBounds(m, off, b) THEN [err |-> "AccessForbidMemory", mem |-> m]
       ELSE [err |-> "Success", mem |-> SetArray(m, low, off, TRUE)]

\* Mutant: the loop over the high bytes stops one byte short.
ConvToUInt128ShortCheck(src) ==
    LET h == WordBytes \div 2 IN
    IF \E i \in 1..(h - 1) : src[i] # 0
    THEN [err |-> "ExecutionFailed", v |-> 0]
    ELSE [err |-> "Success",
          v |-> WordValue([i \in 1..(WordBytes - h) |-> src[h + i]])]

\* convToUInt128: fails when the high 16 bytes are not zero, else the
\* number the low 16 bytes spell, most significant first.
ConvToUInt128(src) ==
    LET h == WordBytes \div 2 IN
    IF \E i \in 1..h : src[i] # 0
    THEN [err |-> "ExecutionFailed", v |-> 0]
    ELSE [err |-> "Success",
          v |-> WordValue([i \in 1..(WordBytes - h) |-> src[h + i]])]

Init ==
    /\ mem = NewMemory(1, 1, MemBytes)
    /\ ret = "Success"
    /\ word = Zero
    /\ roundTrip = NoTrip

\* A host function loads a uint (a value or a balance) from memory.
LoadUIntStep ==
    \E off \in Offsets, b \in Widths :
        LET r == LoadUInt(mem, off, b) IN
        /\ ret' = r.err
        /\ word' = IF r.err = "Success" THEN r.dst ELSE word
        /\ UNCHANGED <<mem, roundTrip>>

\* loadAddress and loadBytes32: plain getArray into a zeroed destination.
LoadPlain(len) ==
    \E off \in Offsets :
        /\ ret' = ArrayErr(mem, off, len)
        /\ word' = IF ret' = "Success"
                   THEN [i \in 1..WordBytes |-> IF i <= len THEN LoadBytes(mem, off, len)[i] ELSE 0]
                   ELSE word
        /\ UNCHANGED <<mem, roundTrip>>

\* A host function stores a uint result; the same helper reads it back.
StoreUIntStep ==
    \E src \in Words, off \in Offsets, b \in Widths :
        LET r == StoreUIntResult(mem, src, off, b) IN
        /\ mem' = r.mem
        /\ ret' = r.err
        /\ roundTrip' = IF r.err = "Success"
                        THEN [stored |-> src, loaded |-> LoadUInt(r.mem, off, b).dst]
                        ELSE roundTrip
        /\ UNCHANGED word

\* storeAddress and storeBytes32: plain setArray of the leading len bytes.
StorePlain(len) ==
    \E src \in Words, off \in Offsets :
        /\ ret' = ArrayErr(mem, off, len)
        /\ mem' = IF ret' = "Success"
                  THEN SetArray(mem, [i \in 1..len |-> src[i]], off, FALSE) ELSE mem
        /\ UNCHANGED <<word, roundTrip>>

Next ==
    \/ LoadUIntStep \/ LoadPlain(AddrBytes) \/ LoadPlain(WordBytes)
    \/ StoreUIntStep \/ StorePlain(AddrBytes) \/ StorePlain(WordBytes)

Spec == Init /\ [][Next]_vars

-----------------------------------------------------------------------------
(***************************************************************************)
(* What storeUInt wrote at an offset with a width, loadUInt reads back at  *)
(* the same offset and width as the same word: the (32 - Bytes) padding    *)
(* of the two helpers and the byte reversal of setArray and getArray       *)
(* match, for every width, clamped ones included.                          *)
(***************************************************************************)
UIntRoundTrip ==
    roundTrip.loaded = roundTrip.stored

(***************************************************************************)
(* The last word a host function loaded fits the uint128 convToUInt128     *)
(* makes of it exactly when its value is below 2^(8 * 16), and then the    *)
(* conversion gives that value.                                            *)
(***************************************************************************)
ConvKeepsValue ==
    LET c == ConvToUInt128(word)
        fits == WordValue(word) < 2^(WordBytes - WordBytes \div 2)
    IN /\ (c.err = "Success") = fits
       /\ fits => c.v = WordValue(word)

=============================================================================
