-------------------------------- MODULE Ssz ---------------------------------
(***************************************************************************)
(* The SSZ views of the stateless input (lib/ssz): containers cut at their *)
(* offsets, lists with an offset table, lists of fixed-size items, the     *)
(* decoded input reference and the chain configuration; and the hash tree  *)
(* root of the payload request (lib/htr).  Nothing is copied: a slice is a *)
(* range of the input.  The input's bytes are the function "at", zero      *)
(* wherever it is not defined.                                             *)
(***************************************************************************)
EXTENDS Naturals, Sequences, SequencesExt

CONSTANT Refused      \* fatal_error: no value

IsRefused(x) == x = Refused
Slice(at, off, len) == [at |-> at, off |-> off, len |-> len]
stateless_input_sub_slice(s, off, len) == Slice(s.at, s.off + off, len)
stateless_input_slice_suffix(s, off) == Slice(s.at, s.off + off, s.len - off)

(* The bytes behind the end of a slice read as zero. *)
stateless_input_slice_byte(s, i) ==
    IF i < s.len /\ s.off + i \in DOMAIN s.at THEN s.at[s.off + i] ELSE 0

(* An unsigned number as its base-256 digits, the lowest first; the input is
   little endian. *)
Digits(s, pos, width) == [k \in 1 .. width |-> stateless_input_slice_byte(s, pos + k - 1)]
decode_ssz_uint(s, pos) == Digits(s, pos, 8)

(* ssz_u256 starts from the last byte and multiplies its way down. *)
ssz_u256(s, pos) == FoldLeft(LAMBDA digits, k : <<stateless_input_slice_byte(s, pos + 31 - k)>> \o digits,
                             <<>>, [i \in 1 .. 32 |-> i - 1])

(* Little endian; offsets from 2^31 on all exceed every length here, so they
   are read as 2^31 - 1. *)
ssz_u32_at(s, pos) ==
    LET b(i) == stateless_input_slice_byte(s, pos + i)
    IN  IF b(3) >= 128 THEN 2147483647 ELSE b(0) + b(1) * 256 + b(2) * 65536 + b(3) * 16777216

ssz_u32(s, pos) == ssz_u32_at(s, pos)
(* The table may reach past the slice: such a read is refused. *)
ssz_u32_in_slice(s, pos) == IF pos <= s.len /\ 4 <= s.len - pos THEN ssz_u32_at(s, pos) ELSE Refused

----------------------------------------------------------------------------
(* Lists of variable-size items: the first offset gives the count. *)
ListRef(bytes, count, max_item_length) ==
    [bytes |-> bytes, count |-> count, max_item_length |-> max_item_length]

ssz_bounded_variable_list_ref(bytes, maximum_count, maximum_item_length) ==
    LET first == ssz_u32(bytes, 0)
        count == first \div 4
    IN  IF bytes.len = 0 THEN ListRef(bytes, 0, maximum_item_length)
        ELSE IF \/ bytes.len < 4
                \/ first % 4 # 0 \/ count = 0 \/ first > bytes.len
                \/ count > maximum_count
               THEN Refused
               ELSE ListRef(bytes, count, maximum_item_length)

ssz_offset_table_position(index) == index * 4

(* The item between two offsets, if they are in order, inside, and not too
   far apart. *)
Item(items, start, stop) ==
    IF \/ IsRefused(start) \/ IsRefused(stop) THEN Refused
    ELSE IF ~(start <= stop /\ stop <= items.bytes.len) THEN Refused
    ELSE IF items.max_item_length # 0 /\ items.max_item_length < stop - start THEN Refused
    ELSE stateless_input_sub_slice(items.bytes, start, stop - start)

ssz_list_cursor(items) ==
    [items |-> items, index |-> 0,
     current |-> IF items.count # 0 THEN ssz_u32(items.bytes, 0) ELSE items.bytes.len]

ssz_list_cursor_empty(cursor) == cursor.items.count <= cursor.index

(* Where item next_index starts: the last item ends with the list. *)
NextOffset(items, next_index) ==
    IF next_index < items.count
      THEN ssz_u32_in_slice(items.bytes, ssz_offset_table_position(next_index))
      ELSE items.bytes.len

MutListPop(cursor) ==
    LET next == NextOffset(cursor.items, cursor.index + 1)
        item == Item(cursor.items, cursor.current, next)
    IN  IF ssz_list_cursor_empty(cursor) THEN Refused
        ELSE IF IsRefused(item) THEN Refused
        ELSE [item |-> item, next |-> [cursor EXCEPT !.index = @ + 1]]

(* The item and the cursor behind it. *)
ssz_list_pop(cursor) ==
    LET next == NextOffset(cursor.items, cursor.index + 1)
        item == Item(cursor.items, cursor.current, next)
    IN  IF ssz_list_cursor_empty(cursor) THEN Refused
        ELSE IF IsRefused(item) THEN Refused
        ELSE [item |-> item, next |-> [cursor EXCEPT !.index = @ + 1, !.current = next]]

ssz_list_at(items, index) ==
    IF index >= items.count THEN Refused
    ELSE Item(items, ssz_u32_in_slice(items.bytes, ssz_offset_table_position(index)),
              NextOffset(items, index + 1))

(* Lists of items of one size. *)
ssz_bounded_fixed_list_ref(bytes, item_size, maximum_count) ==
    LET count == bytes.len \div item_size
    IN  IF bytes.len # count * item_size \/ count > maximum_count THEN Refused
        ELSE ListRef(bytes, count, item_size)

ssz_fixed_list_at(items, index, item_size) ==
    IF index < items.count /\ (index + 1) * item_size <= items.bytes.len
      THEN stateless_input_sub_slice(items.bytes, index * item_size, item_size)
      ELSE Refused

----------------------------------------------------------------------------
(* Containers: the first offset is the fixed length, and each variable field
   reaches to the next offset, the last one to the end. *)
ssz_take(cursor, stop) ==
    IF IsRefused(cursor) THEN Refused
    ELSE IF ~(cursor.current <= stop /\ stop <= cursor.bytes.len) THEN Refused
    ELSE [cursor EXCEPT !.current = stop,
                        !.taken = Append(@, stateless_input_sub_slice(cursor.bytes, cursor.current, stop - cursor.current))]

ssz_finish(cursor) ==
    IF IsRefused(cursor) THEN Refused
    ELSE Append(cursor.taken,
                stateless_input_sub_slice(cursor.bytes, cursor.current, cursor.bytes.len - cursor.current))

(* The spans of a container's variable fields, offsets at "positions". *)
ContainerSpans(bytes, fixed_length, positions) ==
    IF bytes.len < fixed_length THEN Refused
    ELSE IF ssz_u32(bytes, positions[1]) # fixed_length THEN Refused
    ELSE ssz_finish(FoldLeft(LAMBDA c, p : ssz_take(c, ssz_u32(bytes, p)),
                             [bytes |-> bytes, current |-> fixed_length, taken |-> <<>>], Tail(positions)))

(* Some field of a record of decoded fields failed. *)
AllOrFatal(fields) == IF \E name \in DOMAIN fields : IsRefused(fields[name]) THEN Refused ELSE fields

----------------------------------------------------------------------------
(* The input reference. *)
STATELESS_INPUT_FIXED_LENGTH == 18
SSZ_BODY == 2
STATELESS_INPUT_BODY_FIXED_LENGTH == 16
NEW_PAYLOAD_REQUEST_FIXED_LENGTH == 44
EXECUTION_PAYLOAD_FIXED_LENGTH == 540
EXECUTION_REQUESTS_FIXED_LENGTH == 20
EXECUTION_WITNESS_FIXED_LENGTH == 12
WD_SIZE == 44
PUBLIC_KEY_LENGTH == 65
CHAIN_CONFIG_MIN_LENGTH == 24
(* Where the fields of the payload and of a withdrawal start, and where the
   offsets of the containers stand. *)
PL == [fee_recipient |-> 32, state_root |-> 52, receipts_root |-> 84, logs_bloom |-> 116, prev_randao |-> 372,
       block_number |-> 404, gas_limit |-> 412, gas_used |-> 420, timestamp |-> 428, extra_off |-> 436,
       base_fee |-> 440, block_hash |-> 472, txs_off |-> 504, wds_off |-> 508, blob_gas_used |-> 512,
       excess_blob_gas |-> 520, bal_off |-> 528, slot_number |-> 532]
WD == [index |-> 0, validator_index |-> 8, address |-> 16, amount |-> 36]
IN_OFFSETS == <<0, 4, 8, 12>>
NPR_OFFSETS == <<0, 4, 40>>
NPR_BEACON_ROOT == 8
REQ_OFFSETS == <<0, 4, 8, 12, 16>>
WIT_OFFSETS == <<0, 4, 8>>
CC == [chain_id |-> 0, active_fork_off |-> 8, activation_off |-> 12, activation |-> 16]
AtMost(s, limit) == IF s.len <= limit THEN s ELSE Refused

(* The parts of decode_stateless_input_ref.  The requests stay plain ranges,
   and the transaction table is checked in its first offset only. *)
decode_payload_ref(payload) ==
    LET p == ContainerSpans(payload, EXECUTION_PAYLOAD_FIXED_LENGTH,
                            <<PL.extra_off, PL.txs_off, PL.wds_off, PL.bal_off>>)
    IN  IF IsRefused(p) THEN Refused
        ELSE AllOrFatal([extra_data |-> AtMost(p[1], 2 ^ 5),
                         transactions |-> ssz_bounded_variable_list_ref(p[2], 2 ^ 20, 2 ^ 30),
                         withdrawals |-> ssz_bounded_fixed_list_ref(p[3], WD_SIZE, 2 ^ 4),
                         block_access_list |-> AtMost(p[4], 2 ^ 30)])

decode_requests_ref(requests) ==
    LET q == ContainerSpans(requests, EXECUTION_REQUESTS_FIXED_LENGTH, REQ_OFFSETS)
    IN  IF IsRefused(q) THEN Refused
        ELSE [deposits |-> q[1], withdrawal_requests |-> q[2], consolidation_requests |-> q[3],
              builder_deposit_requests |-> q[4], builder_exit_requests |-> q[5]]

decode_witness_ref(witness) ==
    LET w == ContainerSpans(witness, EXECUTION_WITNESS_FIXED_LENGTH, WIT_OFFSETS)
    IN  IF IsRefused(w) THEN Refused
        ELSE AllOrFatal([state |-> ssz_bounded_variable_list_ref(w[1], 2 ^ 22, 2 ^ 10),
                         codes |-> ssz_bounded_variable_list_ref(w[2], 2 ^ 18, 2 ^ 16),
                         headers |-> ssz_bounded_variable_list_ref(w[3], 2 ^ 8, 2 ^ 10)])

(* The schema bytes name the fork (10 is Berlin, 21 Amsterdam) and the version. *)
SCHEMA_FORKS == 10 .. 21

decode_stateless_input_ref(input) ==
    LET schema_fork == stateless_input_slice_byte(input, 0)
        b == ContainerSpans(stateless_input_slice_suffix(input, SSZ_BODY),
                            STATELESS_INPUT_BODY_FIXED_LENGTH, IN_OFFSETS)
        n == ContainerSpans(b[1], NEW_PAYLOAD_REQUEST_FIXED_LENGTH, NPR_OFFSETS)
    IN  IF input.len < STATELESS_INPUT_FIXED_LENGTH THEN Refused
        ELSE IF stateless_input_slice_byte(input, 1) # 1 \/ schema_fork \notin SCHEMA_FORKS THEN Refused
        ELSE IF IsRefused(b) THEN Refused
        ELSE IF IsRefused(n) THEN Refused
        ELSE AllOrFatal([schema_fork |-> schema_fork,
                         new_payload_request |-> b[1],
                         execution_payload |-> n[1],
                         payload |-> decode_payload_ref(n[1]),
                         versioned_hashes |-> LET items == ssz_bounded_fixed_list_ref(n[2], 32, 2 ^ 12)
                                              IN  IF IsRefused(items) THEN Refused ELSE n[2],
                         requests |-> decode_requests_ref(n[3]),
                         witness |-> decode_witness_ref(b[2]),
                         chain_config |-> b[3],
                         public_keys |-> LET items == ssz_bounded_fixed_list_ref(b[4], PUBLIC_KEY_LENGTH, 2 ^ 15)
                                         IN  IF IsRefused(items) THEN Refused ELSE b[4]])

(* The number of some digits, as far as it can be told from 2^31 - 1. *)
NumberOf(digits) ==
    IF digits[4] >= 128 \/ \E k \in 5 .. Len(digits) : digits[k] # 0 THEN 2147483647
    ELSE digits[1] + digits[2] * 256 + digits[3] * 65536 + digits[4] * 16777216

(* decode_chain_config: one activation of up to two optional numbers.  The
   block must not precede either; at least one is present. *)
Reached(s, value) == s.len = 0 \/ NumberOf(decode_ssz_uint(s, 0)) <= value

decode_chain_config(cc, number, timestamp) ==
    LET spans == ContainerSpans(stateless_input_slice_suffix(cc, CC.activation), 8, <<0, 4>>)
    IN  IF cc.len < CHAIN_CONFIG_MIN_LENGTH THEN Refused
        ELSE IF ssz_u32(cc, CC.active_fork_off) # 12 \/ ssz_u32(cc, CC.activation_off) # 4 THEN Refused
        ELSE IF IsRefused(spans) THEN Refused
        ELSE IF \/ \E i \in {1, 2} : spans[i].len \notin {0, 8}
                \/ spans[1].len = 0 /\ spans[2].len = 0
                \/ ~Reached(spans[1], number) \/ ~Reached(spans[2], timestamp)
               THEN Refused
               ELSE decode_ssz_uint(cc, CC.chain_id)

----------------------------------------------------------------------------
(* The SSZ hash tree root of the payload request (lib/htr).  A hash is the *)
(* term it was computed from: a chunk of 32 bytes, the zero tree of a      *)
(* depth, or the pair of two hashes.                                       *)

Chunk(bytes) == IF \A k \in 1 .. 32 : bytes[k] = 0 THEN <<"zero", 0>> ELSE <<"chunk", bytes>>

(* The table of zero-tree hashes ends at depth 25. *)
ssz_zero_hash(level) == <<"zero", IF level < 25 THEN level ELSE 25>>

(* External.  Two zero trees of one depth are the zero tree of the next: that
   is what the table's constants are. *)
sha256_pair(left, right) ==
    IF IsRefused(left) \/ IsRefused(right) THEN Refused
    ELSE IF left = right /\ left[1] = "zero" THEN <<"zero", left[2] + 1>>
    ELSE <<"pair", left, right>>

htr_leaf_capacity(depth) == 2 ^ (IF depth < 25 THEN depth ELSE 25)

(* How many of "count" leaves go to the left and to the right subtree. *)
Split(count, half) == IF count < half THEN <<count, 0>> ELSE <<half, count - half>>

(* The subtree shared by merkleize and the five list roots: the leaf at "start"
   is leaves[start + 1].  Nothing below an empty subtree is visited. *)
RECURSIVE Subtree(_, _, _, _)
Subtree(leaves, start, count, depth) ==
    IF count = 0 THEN ssz_zero_hash(depth)
    ELSE IF depth = 0 THEN IF count = 1 /\ start < Len(leaves) THEN leaves[start + 1] ELSE Refused
    ELSE LET half == htr_leaf_capacity(depth - 1)
             sides == Split(count, half)
         IN  sha256_pair(Subtree(leaves, start, sides[1], depth - 1),
                         Subtree(leaves, start + half, sides[2], depth - 1))

merkleize(leaves, depth) ==
    IF Len(leaves) <= htr_leaf_capacity(depth) THEN Subtree(leaves, 0, Len(leaves), depth) ELSE Refused

----------------------------------------------------------------------------
(* Leaves.  A number's chunk holds its digits from the lowest on; a hash, an
   address and a chunk of a byte string keep their bytes' order. *)
Padded(bytes) == Chunk([k \in 1 .. 32 |-> IF k <= Len(bytes) THEN bytes[k] ELSE 0])
htr_uint(v) == Padded(v)
htr_u256(value) == Padded(value)
htr_bytes32(b) == Padded(b)
htr_addr(address_bytes) == Padded(address_bytes)

(* ssz_bytes32 and ssz_addr load big endian and write big endian. *)
BigEndianLoad(s, pos, width) == Reverse(Digits(s, pos, width))
BigEndianStore(digits) == Reverse(digits)
ssz_bytes32(s, pos) == BigEndianStore(BigEndianLoad(s, pos, 32))
ssz_addr(s, pos) == BigEndianStore(BigEndianLoad(s, pos, 20))

htr_ssz_uint(s, pos) == htr_uint(decode_ssz_uint(s, pos))
htr_ssz_u256(s, pos) == htr_u256(ssz_u256(s, pos))
htr_ssz_bytes32(s, pos) == htr_bytes32(ssz_bytes32(s, pos))
htr_ssz_addr(s, pos) == htr_addr(ssz_addr(s, pos))

(* Lengths stay below 2^31. *)
htr_length_chunk(len) ==
    htr_u256(<<len % 256, (len \div 256) % 256, (len \div 65536) % 256, len \div 16777216>>)

mix_in_length(root, len) == sha256_pair(root, htr_length_chunk(len))

halvings[remaining \in Nat] == IF remaining = 0 THEN 0 ELSE 1 + halvings[remaining \div 2]
clog2(n) == halvings[IF n = 0 THEN 0 ELSE n - 1]

HTR_BYTE_LIST_LIMIT == 2 ^ 30
htr_chunk(s, index) == Padded(BigEndianStore(BigEndianLoad(s, index * 32, 32)))
htr_chunk_count(len) == IF len <= HTR_BYTE_LIST_LIMIT THEN (len + 31) \div 32 ELSE Refused

htr_bytes_root(s, depth) ==
    LET count == htr_chunk_count(s.len)
    IN  IF IsRefused(count) THEN Refused
        ELSE IF count > htr_leaf_capacity(depth) THEN Refused
        ELSE Subtree([i \in 1 .. count |-> htr_chunk(s, i - 1)], 0, count, depth)

htr_bytevector(s) == htr_bytes_root(s, clog2(htr_chunk_count(s.len)))

htr_ssz_bytevector(s, pos, len) ==
    IF pos + len <= s.len THEN htr_bytevector(stateless_input_sub_slice(s, pos, len)) ELSE Refused

htr_bytelist(s, limit_bytes) ==
    mix_in_length(htr_bytes_root(s, clog2(htr_chunk_count(limit_bytes))), s.len)

----------------------------------------------------------------------------
(* Containers and lists of the request. *)
htr_withdrawal(w) ==
    merkleize(<<htr_ssz_uint(w, WD.index), htr_ssz_uint(w, WD.validator_index), htr_ssz_addr(w, WD.address),
                htr_ssz_uint(w, WD.amount)>>, 2)

(* The layouts of the requests: deposits and builder deposits share theirs,
   the others start with an address. *)
PUBKEY_LENGTH == 48
DEPOSIT == [length |-> 192, pubkey |-> 0, credentials |-> 48, amount |-> 80, signature |-> 88, index |-> 184]
BUILDER_DEPOSIT_LENGTH == 184
SIGNATURE_LENGTH == 96
REQUEST == [address |-> 0, pubkey |-> 20, amount |-> 68, target |-> 68]
WITHDRAWAL_REQUEST_LENGTH == 76
CONSOLIDATION_REQUEST_LENGTH == 116
BUILDER_EXIT_LENGTH == 68

(* Mutant: the index of a deposit is taken for its amount. *)
MutDeposit(d) ==
    merkleize(<<htr_ssz_bytevector(d, DEPOSIT.pubkey, PUBKEY_LENGTH), htr_ssz_bytes32(d, DEPOSIT.credentials),
                htr_ssz_uint(d, DEPOSIT.index), htr_ssz_bytevector(d, DEPOSIT.signature, SIGNATURE_LENGTH),
                htr_ssz_uint(d, DEPOSIT.index)>>, 3)

htr_deposit(d) ==
    merkleize(<<htr_ssz_bytevector(d, DEPOSIT.pubkey, PUBKEY_LENGTH), htr_ssz_bytes32(d, DEPOSIT.credentials),
                htr_ssz_uint(d, DEPOSIT.amount), htr_ssz_bytevector(d, DEPOSIT.signature, SIGNATURE_LENGTH),
                htr_ssz_uint(d, DEPOSIT.index)>>, 3)

htr_withdrawal_request(r) ==
    merkleize(<<htr_ssz_addr(r, REQUEST.address), htr_ssz_bytevector(r, REQUEST.pubkey, PUBKEY_LENGTH),
                htr_ssz_uint(r, REQUEST.amount)>>, 2)

htr_consolidation_request(r) ==
    merkleize(<<htr_ssz_addr(r, REQUEST.address), htr_ssz_bytevector(r, REQUEST.pubkey, PUBKEY_LENGTH),
                htr_ssz_bytevector(r, REQUEST.target, PUBKEY_LENGTH)>>, 2)

htr_builder_deposit_request(r) ==
    merkleize(<<htr_ssz_bytevector(r, DEPOSIT.pubkey, PUBKEY_LENGTH), htr_ssz_bytes32(r, DEPOSIT.credentials),
                htr_ssz_uint(r, DEPOSIT.amount),
                htr_ssz_bytevector(r, DEPOSIT.signature, SIGNATURE_LENGTH)>>, 2)

htr_builder_exit_request(r) ==
    merkleize(<<htr_ssz_addr(r, REQUEST.address), htr_ssz_bytevector(r, REQUEST.pubkey, PUBKEY_LENGTH)>>, 1)

(* A list of "count" leaves in a tree of 2^depth places, with its length. *)
ListRoot(leaves, depth) == mix_in_length(Subtree(leaves, 0, Len(leaves), depth), Len(leaves))

htr_transactions(transactions) ==
    ListRoot([i \in 1 .. transactions.count |->
                LET transaction == ssz_list_at(transactions, i - 1)
                IN  IF IsRefused(transaction) THEN Refused ELSE htr_bytelist(transaction, HTR_BYTE_LIST_LIMIT)], 20)

htr_withdrawals(withdrawals) ==
    ListRoot([i \in 1 .. withdrawals.count |->
                htr_withdrawal(ssz_fixed_list_at(withdrawals, i - 1, WD_SIZE))], 4)

htr_versioned_hashes(hashes) ==
    ListRoot([i \in 1 .. hashes.len \div 32 |-> htr_chunk(hashes, i - 1)], 12)

htr_request_leaf(requests, index, length, Root(_)) ==
    IF (index + 1) * length <= requests.len
      THEN Root(stateless_input_sub_slice(requests, index * length, length))
      ELSE Refused

(* The five request lists: a length, a limit 2^depth and a container each. *)
RequestsRoot(requests, length, depth, Root(_)) ==
    LET items == ssz_bounded_fixed_list_ref(requests, length, 2 ^ depth)
    IN  IF IsRefused(items) THEN Refused
        ELSE ListRoot([i \in 1 .. items.count |-> htr_request_leaf(requests, i - 1, length, Root)], depth)

htr_deposits(requests) == RequestsRoot(requests, DEPOSIT.length, 13, htr_deposit)
htr_withdrawal_requests(requests) == RequestsRoot(requests, WITHDRAWAL_REQUEST_LENGTH, 4, htr_withdrawal_request)
htr_consolidation_requests(requests) == RequestsRoot(requests, CONSOLIDATION_REQUEST_LENGTH, 1, htr_consolidation_request)
htr_builder_deposit_requests(requests) == RequestsRoot(requests, BUILDER_DEPOSIT_LENGTH, 6, htr_builder_deposit_request)
htr_builder_exit_requests(requests) == RequestsRoot(requests, BUILDER_EXIT_LENGTH, 4, htr_builder_exit_request)

htr_execution_requests(r) ==
    merkleize(<<htr_deposits(r.deposits), htr_withdrawal_requests(r.withdrawal_requests),
                htr_consolidation_requests(r.consolidation_requests),
                htr_builder_deposit_requests(r.builder_deposit_requests),
                htr_builder_exit_requests(r.builder_exit_requests)>>, 3)

htr_execution_payload(ref) ==
    LET p == ref.execution_payload
    IN  merkleize(<<htr_ssz_bytes32(p, 0), htr_ssz_addr(p, PL.fee_recipient), htr_ssz_bytes32(p, PL.state_root),
                    htr_ssz_bytes32(p, PL.receipts_root), htr_ssz_bytevector(p, PL.logs_bloom, 256),
                    htr_ssz_bytes32(p, PL.prev_randao), htr_ssz_uint(p, PL.block_number),
                    htr_ssz_uint(p, PL.gas_limit), htr_ssz_uint(p, PL.gas_used), htr_ssz_uint(p, PL.timestamp),
                    htr_bytelist(ref.payload.extra_data, 32), htr_ssz_u256(p, PL.base_fee),
                    htr_ssz_bytes32(p, PL.block_hash), htr_transactions(ref.payload.transactions),
                    htr_withdrawals(ref.payload.withdrawals), htr_ssz_uint(p, PL.blob_gas_used),
                    htr_ssz_uint(p, PL.excess_blob_gas),
                    htr_bytelist(ref.payload.block_access_list, HTR_BYTE_LIST_LIMIT),
                    htr_ssz_uint(p, PL.slot_number)>>, 5)

htr_new_payload_request(ref) ==
    merkleize(<<htr_execution_payload(ref), htr_versioned_hashes(ref.versioned_hashes),
                htr_ssz_bytes32(ref.new_payload_request, NPR_BEACON_ROOT), htr_execution_requests(ref.requests)>>, 2)
=============================================================================
