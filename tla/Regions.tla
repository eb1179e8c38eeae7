------------------------------ MODULE Regions ------------------------------
(***************************************************************************)
(* The EVM word of evm/prelude.py: unsigned arithmetic modulo 2^WordBits,  *)
(* two's-complement views, bit and byte access.  The width is a parameter  *)
(* (256 bits in 32 bytes in the code, four limbs each); bytes keep their   *)
(* own width, so that BYTE and SIGNEXTEND have in-range and out-of-range   *)
(* indices at any size.                                                    *)
(*                                                                         *)
(* The byte and word stores that all frames of a transaction share, as the *)
(* reference host keeps them (contract/HostContract.py): one flat memory,  *)
(* one flat operand stack with the bases of the nested frames, and one     *)
(* output buffer.  A frame sees its own part through a base and a height   *)
(* that the machine carries (evm/machine.py), never through a copy.        *)
(*                                                                         *)
(* A machine state m is a record with, of the host, memory, stack, bases   *)
(* and output; of the running frame, gas, sp, base, height, calldata and   *)
(* returndata.                                                             *)
(***************************************************************************)
EXTENDS Integers, Sequences, FiniteSets, FiniteSetsExt, SequencesExt

CONSTANTS
    WordBytes,      \* 32
    ByteBits,       \* 8
    AddressBytes,   \* 20
    MaxHeight,      \* 2^32 - 1
    STACK_LIMIT,    \* 1024
    InputBytes,     \* the transaction's calldata in the stateless input
    FrameCode,      \* bytes of the running code
    ExternalCode    \* bytes of the account EXTCODECOPY reads

ASSUME WordsAssumption ==
    /\ {WordBytes, ByteBits, AddressBytes} \subseteq Nat \ {0}
    /\ AddressBytes <= WordBytes

WordBits == WordBytes * ByteBits
WordLimit == 2 ^ WordBits
ByteLimit == 2 ^ ByteBits
Word == 0 .. WordLimit - 1
Byte == 0 .. ByteLimit - 1

WORD_ZERO == 0
WORD_ONE == 1
WORD_ALL_ONES == WordLimit - 1

(* A word as the set of its one bits. *)
BitsOf(w) == {i \in 0 .. WordBits - 1 : (w \div 2 ^ i) % 2 = 1}
WordOf(bits) == MapThenSumSet(LAMBDA i : 2 ^ i, bits)

word_bit(w, i) == (w \div 2 ^ i) % 2
sign_bit(w) == word_bit(w, WordBits - 1)
word_low_byte(w) == w % ByteLimit
word_of_bool(b) == IF b THEN WORD_ONE ELSE WORD_ZERO

(* Big-endian bytes: hashes are all of them, addresses the last few. *)
word_to_hash(w) ==
    [k \in 1 .. WordBytes |-> (w \div ByteLimit ^ (WordBytes - k)) % ByteLimit]
hash_to_word(bytes) == FoldLeft(LAMBDA acc, x : acc * ByteLimit + x, 0, bytes)
word_to_address(w) ==
    [k \in 1 .. AddressBytes |->
        (w \div ByteLimit ^ (AddressBytes - k)) % ByteLimit]
address_to_word(bytes) == hash_to_word(bytes)

word_add_word(l, r) == (l + r) % WordLimit
(* The code avoids a negative intermediate: max - (r - l) + 1. *)
word_sub_word(l, r) ==
    IF r <= l THEN l - r ELSE WORD_ALL_ONES - (r - l) + 1
word_mul_word(l, r) == (l * r) % WordLimit
word_div_word(l, r) == IF r = 0 THEN WORD_ZERO ELSE l \div r
word_mod_word(l, r) == IF r = 0 THEN WORD_ZERO ELSE l % r
word_and(l, r) == WordOf(BitsOf(l) \cap BitsOf(r))
word_or(l, r) == WordOf(BitsOf(l) \cup BitsOf(r))
word_xor(l, r) == WordOf(SymDiff(BitsOf(l), BitsOf(r)))
word_not(w) == WordOf((0 .. WordBits - 1) \ BitsOf(w))
word_shift_right(w, n) == w \div 2 ^ n
word_shift_left(w, n) == WordOf({i + n : i \in BitsOf(w)} \cap 0 .. WordBits - 1)
word_negate(w) == word_sub_word(WORD_ZERO, w)
word_abs(w) == IF sign_bit(w) = 1 THEN word_negate(w) ELSE w
word_ult(l, r) == l < r
word_slt(l, r) ==
    IF sign_bit(l) # sign_bit(r) THEN sign_bit(l) = 1 ELSE word_ult(l, r)

(* The highest non-zero limb decides, then its leading zeros. *)
LimbBits == WordBits \div 4
word_bit_length(w) ==
    LET limb(k) == (w \div 2 ^ (k * LimbBits)) % 2 ^ LimbBits
        length(v) == Cardinality({i \in 0 .. LimbBits - 1 : 2 ^ i <= v})
        top == {k \in 1 .. 3 : limb(k) # 0}
        high == IF top = {} THEN 0 ELSE Max(top)
    IN  high * LimbBits + length(limb(high))
word_byte_length(w) == (word_bit_length(w) + ByteBits - 1) \div ByteBits

word_arithmetic_shift_right(w, n) ==
    IF sign_bit(w) = 1
    THEN word_or(word_shift_right(w, n),
                 word_shift_left(WORD_ALL_ONES, WordBits - n))
    ELSE word_shift_right(w, n)

alu_sdiv(a, b) ==
    LET q == word_div_word(word_abs(a), word_abs(b))
    IN  IF b = 0 THEN WORD_ZERO
        ELSE IF sign_bit(a) # sign_bit(b) THEN word_negate(q) ELSE q
alu_smod(a, b) ==
    LET m == word_mod_word(word_abs(a), word_abs(b))
    IN  IF b = 0 THEN WORD_ZERO
        ELSE IF sign_bit(a) = 1 THEN word_negate(m) ELSE m
alu_addmod(a, b, n) == IF n = 0 THEN WORD_ZERO ELSE (a + b) % n
alu_mulmod(a, b, n) == IF n = 0 THEN WORD_ZERO ELSE (a * b) % n

(* One round of square and multiply for each bit of the exponent; the base *)
(* is not squared in the last one.                                         *)
ExpRound(s, left) ==
    [result |-> IF s.e % 2 = 1 THEN word_mul_word(s.result, s.b) ELSE s.result,
     b |-> IF left > 1 THEN word_mul_word(s.b, s.b) ELSE s.b,
     e |-> s.e \div 2]
alu_exp(base, exponent) ==
    LET rounds == word_bit_length(exponent)
    IN  FoldLeft(LAMBDA s, k : ExpRound(s, rounds - k + 1),
                 [result |-> WORD_ONE, b |-> base, e |-> exponent],
                 [k \in 1 .. rounds |-> k]).result

alu_signextend(i, v) ==
    LET width == i * ByteBits + ByteBits
        mask == word_sub_word(word_shift_left(WORD_ONE, width), WORD_ONE)
    IN  IF i >= WordBytes THEN v
        ELSE IF word_and(word_shift_right(v, width - 1), WORD_ONE) = WORD_ONE
             THEN word_or(word_and(v, mask), word_not(mask))
             ELSE word_and(v, mask)

alu_byte(i, x) ==
    IF i < WordBytes
    THEN word_low_byte(word_shift_right(x, (WordBytes - 1 - i) * ByteBits))
    ELSE WORD_ZERO
alu_shl(s, v) == IF s < WordBits THEN word_shift_left(v, s) ELSE WORD_ZERO
alu_shr(s, v) == IF s < WordBits THEN word_shift_right(v, s) ELSE WORD_ZERO
alu_sar(s, v) ==
    IF s < WordBits THEN word_arithmetic_shift_right(v, s)
    ELSE IF sign_bit(v) = 1 THEN WORD_ALL_ONES ELSE WORD_ZERO
alu_clz(x) == WordBits - word_bit_length(x)

-----------------------------------------------------------------------------
(* Buffers. *)

(* bytes.ljust, and the slices of Python that stop at the end. *)
Padded(bytes, start, count) ==
    [i \in 1 .. count |->
        IF start + i <= Len(bytes) THEN bytes[start + i] ELSE 0]
(* _ensure_length, then an assignment to a slice. *)
Patched(bytes, start, new) ==
    [i \in 1 .. Max({Len(bytes), start + Len(new)}) |->
        IF i \in start + 1 .. start + Len(new) THEN new[i - start]
        ELSE IF i <= Len(bytes) THEN bytes[i] ELSE 0]
Zeros(n) == [i \in 1 .. n |-> 0]

_region_bytes(region, slice) ==
    SubSeq(region, slice.off + 1, Min({slice.off + slice.len, Len(region)}))
Fatal(m) == [m EXCEPT !.status = "fatal"]

-----------------------------------------------------------------------------
(* Memory. *)
mem_load_word(m, offset) == hash_to_word(Padded(m.memory, offset, WordBytes))
mem_store_word(m, offset, w) ==
    [m EXCEPT !.memory = Patched(@, offset, word_to_hash(w))]
mem_write_byte(m, offset, b) == [m EXCEPT !.memory = Patched(@, offset, <<b>>)]
(* The windows may overlap. *)
mem_move(m, dst, src, len) ==
    [m EXCEPT !.memory = Patched(@, dst, Padded(@, src, len))]

(* What lies above the established height is left over from ended frames:  *)
(* it is cleared when the height rises.                                    *)
mem_expand(m, established, required) ==
    [m EXCEPT !.memory =
        Patched(@, m.base + established, Zeros(required - established))]

expand_memory(m, requested) ==
    IF requested > MaxHeight - m.base THEN Fatal(m)
    ELSE IF m.height < requested
         THEN [mem_expand(m, m.height, requested) EXCEPT !.height = requested]
         ELSE m

memory_absolute(base, relative) == base + relative
MutMemoryParentBase(child_base, parent_height) == child_base

memory_parent_base(child_base, parent_height) == child_base - parent_height

EMPTY_SLICE == [off |-> 0, len |-> 0]
active_memory_slice(m, off, len) ==
    IF len = 0 THEN EMPTY_SLICE
    ELSE [off |-> memory_absolute(m.base, off), len |-> len]

(* mem_view refuses a window beyond the established height. *)
ViewAllowed(m, off, len) ==
    len > 0 => off + len <= m.height /\ m.base + m.height <= Len(m.memory)

_copy_to_memory(m, bytes, destination, source, count) ==
    [m EXCEPT !.memory = Patched(@, destination, Padded(bytes, source, count))]

-----------------------------------------------------------------------------
(* Calldata lies in the transaction input or in the caller's memory. *)
calldata_bytes(m) ==
    IF m.calldata.kind = "input"
    THEN _region_bytes(InputBytes, m.calldata)
    ELSE _region_bytes(m.memory, m.calldata)
calldata_slice_load_word_offset(m, off) ==
    IF off < m.calldata.len
    THEN hash_to_word(Padded(calldata_bytes(m), off, WordBytes)) ELSE WORD_ZERO
(* An offset beyond the slice copies zeros. *)
SliceFrom(bytes, off) == IF off < Len(bytes) THEN SubSeq(bytes, off + 1, Len(bytes)) ELSE <<>>

-----------------------------------------------------------------------------
(* Operand stack: a cursor over the flat list, above the frame's base. *)
_stack_base(m) == IF m.bases = <<>> THEN 0 ELSE Last(m.bases)
_stack_slot_position(m, index) == _stack_base(m) + m.sp - index
stack_slot_read(m, index) == m.stack[_stack_slot_position(m, index)]
stack_slot_write(m, index, w) ==
    [m EXCEPT !.stack = Patched(@, _stack_slot_position(m, index) - 1, <<w>>)]
stack_top_advance(m, count) == [m EXCEPT !.sp = @ + count]
stack_top_retreat(m, count) == [m EXCEPT !.sp = @ - count]
PushWord(m, w) == stack_slot_write(stack_top_advance(m, 1), 0, w)

operand_stack_push_empty_frame(m) == [m EXCEPT !.bases = Append(@, Len(m.stack)), !.sp = 0]
operand_stack_pop_frame(m) ==
    [m EXCEPT !.bases = Front(@), !.stack = SubSeq(@, 1, Last(m.bases))]

-----------------------------------------------------------------------------
(* One output buffer: a result is its first bytes. *)
freeze_memory_output(m, slice) ==
    IF slice.len = 0 THEN m
    ELSE [m EXCEPT !.output = _region_bytes(m.memory, slice)]
output_bytes(m, slice) == _region_bytes(m.output, slice)
returndata_clear == EMPTY_SLICE
returndata_copy_prefix(m, slice, dst, want) ==
    _copy_to_memory(m, output_bytes(m, slice), dst, 0, Min({want, slice.len}))
=============================================================================
