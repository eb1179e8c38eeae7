-------------------------------- MODULE Rlp ---------------------------------
(***************************************************************************)
(* Recursive length prefix encoding (lib/rlp/encoding, lib/rlp/decoding).  *)
(* A byte string is a sequence of bytes, a word its minimal big-endian     *)
(* byte string.  Every write operator returns the bytes the code pushes,   *)
(* and has a size operator of its own: the code sizes a value first,       *)
(* reserves that much scratch and then writes.                             *)
(*                                                                         *)
(* The second half are the codecs (lib/rlp/codecs, lib/address, lib/tx):   *)
(* signing preimages, contract addresses, state accounts, withdrawals,     *)
(* receipts and block headers are written, transactions and accounts are   *)
(* read.  An encoder returns the length it announces to rlp_encoder_begin  *)
(* and the bytes it pushes; rlp_encoder_finish asserts that they agree.  A *)
(* hash is not computed: its preimage stands for it.                       *)
(***************************************************************************)
EXTENDS ForkOrder, Naturals, SequencesExt, FiniteSetsExt

CONSTANTS
    LengthCap,    \* decoded lengths saturate here, above every buffer
    Fatal,        \* fatal_error ends the process; an operator that calls it returns this
    SECP_N_FULL, SECP_N_HALF,    \* the signature bounds, as words
    CONFIGURED_CHAIN_ID          \* k_chain_id

IsFatal(r) == r = Fatal

RLP_SHORT_LENGTH_LIMIT  == 55
RLP_WORD_LENGTH_LIMIT   == 32
RLP_UINT64_LENGTH_LIMIT == 8

(* The minimal big-endian bytes of a number, and back. *)
NumberBytes(n) == LET width == CHOOSE k \in 0 .. 3 : n < 256 ^ k /\ (k = 0 \/ n >= 256 ^ (k - 1))
                  IN  [i \in 1 .. width |-> (n \div 256 ^ (width - i)) % 256]
BytesNumber(bytes) == FoldLeft(LAMBDA n, b : Min({n * 256 + b, LengthCap}), 0, bytes)
Minimal(bytes) == LET nonzero == {i \in DOMAIN bytes : bytes[i] # 0}
                  IN  IF nonzero = {} THEN <<>> ELSE SubSeq(bytes, Min(nonzero), Len(bytes))

----------------------------------------------------------------------------
(* Encoding. *)
rlp_length_prefix_len(len) ==
    IF len <= RLP_SHORT_LENGTH_LIMIT THEN 1 ELSE 1 + Len(NumberBytes(len))

(* A single byte below 0x80 is its own encoding. *)
IsOwnEncoding(len, first) == len = 1 /\ first < 128
First(data) == IF data = <<>> THEN 0 ELSE Head(data)

rlp_string_size(len, first) ==
    IF IsOwnEncoding(len, first) THEN 1 ELSE rlp_length_prefix_len(len) + len
rlp_slice_size(data) == rlp_string_size(Len(data), First(data))

rlp_uint_word_size(w) == IF Len(w) = 1 /\ w[1] < 128 THEN 1 ELSE 1 + Len(w)

rlp_word_size == 33
rlp_addr_size == 21
rlp_list_size(content_len) == rlp_length_prefix_len(content_len) + content_len

Prefix(base, len) ==
    IF len <= RLP_SHORT_LENGTH_LIMIT THEN <<base + len>>
    ELSE <<base + RLP_SHORT_LENGTH_LIMIT + Len(NumberBytes(len))>> \o NumberBytes(len)

rlp_write_string_prefix(len, first) == IF IsOwnEncoding(len, first) THEN <<>> ELSE Prefix(128, len)
rlp_write_list_prefix(content_len) == Prefix(192, content_len)
rlp_write_slice(data) == rlp_write_string_prefix(Len(data), First(data)) \o data
rlp_write_uint_word(w) == rlp_write_string_prefix(Len(w), IF Len(w) = 1 THEN w[1] ELSE 0) \o w
rlp_write_word(h) == rlp_write_string_prefix(32, 0) \o h
rlp_write_addr(a) == rlp_write_string_prefix(20, a[1]) \o a

----------------------------------------------------------------------------
(* Decoding: a header gives the offset and the length of the content.  The *)
(* code has every decoder twice, over the stateless input and over scratch *)
(* (scratch_rlp_...); the operators stand for both.                        *)
Header(is_list, off, len) == [is_list |-> is_list, off |-> off, len |-> len]

rlp_ref_hdr(b) ==
    LET h     == b[1]
        width == IF h < 192 THEN h - 183 ELSE h - 247
    IN  IF b = <<>>                   THEN Fatal
        ELSE IF h < 128               THEN Header(FALSE, 0, 1)
        ELSE IF h < 184               THEN Header(FALSE, 1, h - 128)
        ELSE IF h >= 192 /\ h < 248   THEN Header(TRUE, 1, h - 192)
        ELSE IF width > Len(b) - 1    THEN Fatal
        ELSE Header(h >= 192, 1 + width, BytesNumber(SubSeq(b, 2, 1 + width)))

Field(source, header) == [source |-> source, is_list |-> header.is_list, content_len |-> header.len]

rlp_decode_item(cursor) ==
    LET header == rlp_ref_hdr(cursor)
    IN  IF IsFatal(header) THEN Fatal
        ELSE IF Len(cursor) < header.off + header.len THEN Fatal
        ELSE Field(SubSeq(cursor, 1, header.off + header.len), header)

rlp_cursor_advance(cursor, field) == SubSeq(cursor, Len(field.source) + 1, Len(cursor))

rlp_single_ref(item) ==
    LET header == rlp_ref_hdr(item)
    IN  IF IsFatal(header) THEN Fatal
        ELSE IF Len(item) # header.off + header.len THEN Fatal
        ELSE Field(item, header)

rlp_item_content(f) == SubSeq(f.source, Len(f.source) - f.content_len + 1, Len(f.source))
rlp_decode_list(f) == IF f.is_list THEN rlp_item_content(f) ELSE Fatal
rlp_node_cursor(node) ==
    LET item == rlp_single_ref(node) IN IF IsFatal(item) THEN Fatal ELSE rlp_decode_list(item)

(* The framing test looks at the header bytes again instead of encoding.  *)
rlp_ref_framing_canonical(f) ==
    LET n     == f.content_len
        width == Len(NumberBytes(n))
        base  == IF f.is_list THEN 192 ELSE 128
        first == rlp_item_content(f)[1]
    IN  IF ~f.is_list /\ n = 1 /\ first < 128 THEN Len(f.source) = 1 /\ f.source[1] = first
        ELSE IF n <= RLP_SHORT_LENGTH_LIMIT THEN Len(f.source) = n + 1 /\ f.source[1] = base + n
        ELSE /\ Len(f.source) = 1 + width + n
             /\ f.source[1] = base + RLP_SHORT_LENGTH_LIMIT + width
             /\ SubSeq(f.source, 2, 1 + width) = NumberBytes(n)

MutUintCanonical(f) == ~f.is_list /\ rlp_ref_framing_canonical(f)

rlp_item_uint_canonical(f) ==
    /\ ~f.is_list
    /\ rlp_ref_framing_canonical(f)
    /\ f.content_len = 0 \/ rlp_item_content(f)[1] # 0

rlp_decode_word(f) ==
    IF f.is_list \/ RLP_WORD_LENGTH_LIMIT < f.content_len THEN Fatal
    ELSE Minimal(rlp_item_content(f))
rlp_decode_u256(f) == IF rlp_item_uint_canonical(f) THEN rlp_decode_word(f) ELSE Fatal
rlp_decode_uint64(f) ==
    IF ~rlp_item_uint_canonical(f) \/ RLP_UINT64_LENGTH_LIMIT < f.content_len THEN Fatal
    ELSE Minimal(rlp_item_content(f))

(* 0 and 1 are the Booleans; another canonical integer is not fatal. *)
rlp_decode_bool(f) ==
    LET value == rlp_decode_uint64(f)
    IN  CASE IsFatal(value)  -> Fatal
          [] value = <<>>    -> [ok |-> FALSE]
          [] value = <<1>>   -> [ok |-> TRUE]
          [] OTHER           -> [invalid |-> TRUE]

(* The items of a list content: Fatal, or their fields in order. *)
RECURSIVE Items(_)
Items(cursor) ==
    LET item == rlp_decode_item(cursor)
        rest == Items(rlp_cursor_advance(cursor, item))
    IN  IF cursor = <<>> THEN <<>>
        ELSE IF IsFatal(item) THEN Fatal
        ELSE IF IsFatal(rest) THEN Fatal ELSE <<item>> \o rest

----------------------------------------------------------------------------
(* A cursor over input that may be anything: the decoders take one item    *)
(* after another until the input is spent, an item does not fit (which is  *)
(* fatal) or the fields the caller wants are read.                         *)

CONSTANTS
    RlpInputs,    \* the byte strings to decode
    MaxFields     \* how many fields the caller reads

ASSUME CursorAssumption == MaxFields \in Nat

VARIABLES
    rlp_input,     \* the whole input
    rlp_cursor,    \* what is left of it
    fields_read,   \* the fields read so far
    outcome        \* "reading", "end" (rlp_cursor_expect_end passed) or "fatal"

reader == <<rlp_input, rlp_cursor, fields_read, outcome>>

CursorInit == /\ rlp_input \in RlpInputs
              /\ rlp_cursor = rlp_input
              /\ fields_read = <<>>
              /\ outcome = "reading"

TakesFields == outcome = "reading" /\ UNCHANGED rlp_input

(* rlp_decode_item and rlp_cursor_advance, as every decoder pairs them. *)
NextField ==
    /\ TakesFields
    /\ Len(fields_read) < MaxFields
    /\ LET item == rlp_decode_item(rlp_cursor)
       IN  /\ ~IsFatal(item)
           /\ fields_read' = Append(fields_read, item)
           /\ rlp_cursor' = rlp_cursor_advance(rlp_cursor, item)
           /\ UNCHANGED outcome

(* An item that does not fit what is left. *)
NoField ==
    /\ TakesFields
    /\ Len(fields_read) < MaxFields
    /\ IsFatal(rlp_decode_item(rlp_cursor))
    /\ outcome' = "fatal"
    /\ UNCHANGED <<rlp_cursor, fields_read>>

rlp_cursor_expect_end ==
    /\ TakesFields
    /\ outcome' = IF rlp_cursor = <<>> THEN "end" ELSE "fatal"
    /\ UNCHANGED <<rlp_cursor, fields_read>>

CursorNext == NextField \/ NoField \/ rlp_cursor_expect_end

----------------------------------------------------------------------------
(* The one encoding of a string and of a list with a given content. *)
Encoded(is_list, content) ==
    IF is_list THEN rlp_write_list_prefix(Len(content)) \o content ELSE rlp_write_slice(content)

(* The fields lie in the input one after another without a gap, each with  *)
(* its content at its end, and an input that passes rlp_cursor_expect_end  *)
(* is exactly its fields: no byte is read twice or skipped, whatever       *)
(* lengths the headers announce (rlp_ref_hdr, rlp_decode_item).            *)
FieldsTile ==
    /\ FlattenSeq([i \in DOMAIN fields_read |-> fields_read[i].source]) \o rlp_cursor = rlp_input
    /\ \A i \in DOMAIN fields_read : Len(rlp_item_content(fields_read[i])) = fields_read[i].content_len
    /\ outcome = "end" => rlp_cursor = <<>>

(* A field passes the canonical-framing test exactly when encoding its     *)
(* content gives its bytes back, and the integer test exactly when writing *)
(* its value as an integer does: two encodings of one value never both     *)
(* pass, although the test re-reads header bytes and never encodes         *)
(* (rlp_ref_framing_canonical, rlp_item_uint_canonical).                   *)
CanonicalMeansEncoded ==
    \A i \in DOMAIN fields_read :
        LET f == fields_read[i]  content == rlp_item_content(f)
        IN  /\ rlp_ref_framing_canonical(f) <=> f.source = Encoded(f.is_list, content)
            /\ rlp_item_uint_canonical(f) <=>
                   ~f.is_list /\ f.source = rlp_write_uint_word(Minimal(content))

(* What the sizes announce is what the writers write, at every boundary of *)
(* the prefix: a byte below and above 0x80, 55 and 56, 255 and 256 bytes   *)
(* (rlp_string_size, rlp_uint_word_size, rlp_list_size).                   *)
SizesAreExact ==
    \A i \in DOMAIN fields_read :
        LET content == rlp_item_content(fields_read[i])
        IN  /\ rlp_slice_size(content) = Len(rlp_write_slice(content))
            /\ rlp_list_size(Len(content)) = Len(Encoded(TRUE, content))
            /\ Len(content) <= RLP_WORD_LENGTH_LIMIT =>
                   rlp_uint_word_size(Minimal(content)) = Len(rlp_write_uint_word(Minimal(content)))

(* Reading RLP is exact: fields tile the input, one encoding of a value is *)
(* canonical, and sizes are the lengths of what is written (lib/rlp).      *)
FieldsTileTheInput == FieldsTile /\ CanonicalMeansEncoded /\ SizesAreExact

-----------------------------------------------------------------------------
(* The codecs. *)
Encoding(announced, bytes) == [announced |-> announced, bytes |-> bytes]
ListEncoding(content_len, content) ==
    Encoding(rlp_list_size(content_len), rlp_write_list_prefix(content_len) \o content)
AfterByte(b, encoding) == Encoding(1 + encoding.announced, <<b>> \o encoding.bytes)

(* The one member of {F(x) : x \in {e}} is F(e) with e evaluated once. *)
Only(singleton) == CHOOSE x \in singleton : TRUE

Concat(f(_), seq) == FlattenSeq([i \in DOMAIN seq |-> f(seq[i])])
SumOf(f(_), seq) == FoldLeft(LAMBDA n, x : n + f(x), 0, seq)

Zeros(n) == [i \in 1 .. n |-> 0]
(* word_to_address: the low twenty bytes. *)
word_to_address(w) ==
    LET padded == Zeros(20) \o w IN SubSeq(padded, Len(padded) - 19, Len(padded))
word_ult(a, b) == \/ Len(a) < Len(b)
                  \/ /\ Len(a) = Len(b)
                     /\ \E i \in DOMAIN a : a[i] < b[i] /\ \A j \in 1 .. i - 1 : a[j] = b[j]

----------------------------------------------------------------------------
(* Accounts and storage values of the state trie. *)
encode_storage_value(value) == Encoding(rlp_uint_word_size(value), rlp_write_uint_word(value))

encode_state_account(info) ==
    ListEncoding(rlp_uint_word_size(info.nonce) + rlp_uint_word_size(info.balance) + 2 * rlp_word_size,
                 rlp_write_uint_word(info.nonce) \o rlp_write_uint_word(info.balance)
                 \o rlp_write_word(info.storage_root) \o rlp_write_word(info.code_hash))

(* Reads n fields and expects the end. *)
ExactFields(cursor, n) ==
    LET items == IF IsFatal(cursor) THEN Fatal ELSE Items(cursor)
    IN  IF IsFatal(items) THEN Fatal ELSE IF Len(items) # n THEN Fatal ELSE items

(* An empty root or code hash reads as the hash of the empty one. *)
word_to_hash(w) == Zeros(32 - Len(w)) \o w
HashOr(f, default) ==
    LET w == rlp_decode_word(f)
    IN  IF f.content_len = 0 THEN default ELSE IF IsFatal(w) THEN Fatal ELSE word_to_hash(w)

StateAccount(account) ==
    IF \E name \in DOMAIN account : IsFatal(account[name]) THEN Fatal ELSE account

decode_state_account(value, empty_root, keccak_empty) ==
    Only({IF IsFatal(f) THEN Fatal
          ELSE Only({StateAccount(account) : account \in
                 {[nonce        |-> rlp_decode_uint64(f[1]), balance   |-> rlp_decode_u256(f[2]),
                   storage_root |-> HashOr(f[3], empty_root), code_hash |-> HashOr(f[4], keccak_empty)]}})
          : f \in {ExactFields(rlp_node_cursor(value), 4)}})

----------------------------------------------------------------------------
(* Withdrawals and contract addresses. *)
withdrawal_rlp(wd) ==
    LET numbers == <<wd.index, wd.validator_index, wd.amount>>
        content_length == SumOf(rlp_uint_word_size, numbers) + rlp_slice_size(wd.address)
    IN  IF 48 < content_length THEN Fatal
        ELSE ListEncoding(content_length,
                 rlp_write_uint_word(wd.index) \o rlp_write_uint_word(wd.validator_index)
                 \o rlp_write_slice(wd.address) \o rlp_write_uint_word(wd.amount))

create_address(sender, nonce) ==
    ListEncoding(rlp_addr_size + rlp_uint_word_size(nonce),
                 rlp_write_addr(sender) \o rlp_write_uint_word(nonce))

create2_address(sender, salt, init_hash) == Encoding(85, <<255>> \o sender \o salt \o init_hash)

----------------------------------------------------------------------------
(* Signing preimages. *)
TxType == {"legacy", "access_list", "fee_market", "blob", "set_code"}
tx_envelope_type(t) == CASE t = "legacy" -> 0 [] t = "access_list" -> 1 [] t = "fee_market" -> 2
                         [] t = "blob" -> 3 [] t = "set_code" -> 4

legacy_sig_chain_id(v) == (v - 35) \div 2

(* The span of the unsigned fields is copied; from EIP-155 on the chain    *)
(* identifier and two empty strings follow a legacy one.                   *)
tx_signing_hash(t, span, v) ==
    LET eip155  == t = "legacy" /\ v >= 35
        chain   == NumberBytes(legacy_sig_chain_id(v))
        suffix  == IF eip155 THEN rlp_uint_word_size(chain) + 2 ELSE 0
        content == ListEncoding(Len(span) + suffix,
                       span \o IF eip155 THEN rlp_write_uint_word(chain) \o <<128, 128>> ELSE <<>>)
    IN  IF t = "legacy" THEN content ELSE AfterByte(tx_envelope_type(t), content)

auth_signing_hash(chain_id, addr, nonce) ==
    AfterByte(5, ListEncoding(rlp_uint_word_size(chain_id) + rlp_addr_size + rlp_uint_word_size(nonce),
        rlp_write_uint_word(chain_id) \o rlp_write_addr(addr) \o rlp_write_uint_word(nonce)))

(* The parity of the recovered key, or Fatal. *)
tx_signature_parity(t, v) ==
    IF t = "legacy"
    THEN IF v \in {27, 28} \/ (v >= 35 /\ legacy_sig_chain_id(v) = CONFIGURED_CHAIN_ID)
         THEN IF v % 2 = 1 THEN 0 ELSE 1 ELSE Fatal
    ELSE IF v \in {0, 1} THEN v ELSE Fatal

----------------------------------------------------------------------------
(* Receipts: sizes are summed over the logs before anything is written. *)
LOGS_BLOOM_BYTE_LENGTH == 256
topics_rlp_content_size(log) == Len(log.topics) * rlp_word_size
log_entry_rlp_content_size(log) ==
    rlp_addr_size + rlp_list_size(topics_rlp_content_size(log)) + rlp_slice_size(log.data)
log_entry_rlp_size(log) == rlp_list_size(log_entry_rlp_content_size(log))
logs_rlp_content_size(logs) == SumOf(log_entry_rlp_size, logs)

rlp_write_topics(log) ==
    rlp_write_list_prefix(topics_rlp_content_size(log)) \o Concat(rlp_write_word, log.topics)
rlp_write_log_entry(log) ==
    rlp_write_list_prefix(log_entry_rlp_content_size(log))
    \o rlp_write_addr(log.address) \o rlp_write_topics(log) \o rlp_write_slice(log.data)
rlp_write_logs(logs) ==
    rlp_write_list_prefix(logs_rlp_content_size(logs)) \o Concat(rlp_write_log_entry, logs)
rlp_write_logs_bloom(bloom) == rlp_write_string_prefix(LOGS_BLOOM_BYTE_LENGTH, 0) \o bloom

Status(r) == IF r.success THEN <<1>> ELSE <<>>
receipt_payload_content_size(r, gas) ==
    rlp_uint_word_size(Status(r)) + rlp_uint_word_size(gas)
    + rlp_length_prefix_len(LOGS_BLOOM_BYTE_LENGTH) + LOGS_BLOOM_BYTE_LENGTH
    + rlp_list_size(logs_rlp_content_size(r.logs))

receipt_encoded(r, gas) ==
    LET payload == ListEncoding(receipt_payload_content_size(r, gas),
                       rlp_write_uint_word(Status(r)) \o rlp_write_uint_word(gas)
                       \o rlp_write_logs_bloom(r.bloom) \o rlp_write_logs(r.logs))
    IN  IF r.tx_type = "legacy" THEN payload ELSE AfterByte(tx_envelope_type(r.tx_type), payload)

(* Eight little-endian bytes in front of the record; the reader takes them *)
(* and the bytes they count.                                               *)
receipt_record_write_length(n) == Reverse(NumberBytes(n)) \o Zeros(8 - Len(NumberBytes(n)))

receipt_record_pop(records) ==
    LET length == BytesNumber(Reverse(SubSeq(records, 1, 8)))
    IN  IF Len(records) < 8 THEN Fatal
        ELSE IF Len(records) < 8 + length THEN Fatal
        ELSE [value |-> SubSeq(records, 9, 8 + length), rest |-> SubSeq(records, 9 + length, Len(records))]

----------------------------------------------------------------------------
(* The block header: its fields by fork, with the way each is written. *)
From(fork, since, fields) == IF fork >= since THEN fields ELSE <<>>

HeaderFields(fork) ==
    <<"parent_hash", "ommer_hash", "fee_recipient", "state_root", "transactions_root",
      "receipts_root", "logs_bloom", "difficulty", "number", "gas_limit", "gas_used",
      "timestamp", "extra_data", "prev_randao", "nonce">>
    \o From(fork, London, <<"base_fee">>)
    \o From(fork, Shanghai, <<"withdrawals_root">>)
    \o From(fork, Cancun, <<"blob_gas_used", "excess_blob_gas", "parent_beacon_block_root">>)
    \o From(fork, Prague, <<"requests_hash">>)
    \o From(fork, Amsterdam, <<"block_access_list_hash", "slot_number">>)

HeaderNumbers == {"difficulty", "number", "gas_limit", "gas_used", "timestamp", "base_fee",
                  "blob_gas_used", "excess_blob_gas", "slot_number"}

HeaderFieldSize(header, name) ==
    CASE name \in HeaderNumbers    -> rlp_uint_word_size(header[name])
      [] name = "fee_recipient"    -> rlp_addr_size
      [] name = "logs_bloom"       -> 3 + LOGS_BLOOM_BYTE_LENGTH
      [] name = "extra_data"       -> rlp_slice_size(header.extra_data)
      [] name = "nonce"            -> 1 + 8
      [] OTHER                     -> rlp_word_size
HeaderFieldBytes(header, name) ==
    CASE name \in HeaderNumbers    -> rlp_write_uint_word(header[name])
      [] name = "fee_recipient"    -> rlp_write_addr(header.fee_recipient)
      [] name = "logs_bloom"       -> rlp_write_logs_bloom(header.logs_bloom)
      [] name = "extra_data"       -> rlp_write_slice(header.extra_data)
      [] name = "nonce"            -> rlp_write_string_prefix(8, 0) \o Zeros(8)
      [] OTHER                     -> rlp_write_word(header[name])

block_header_hash(fork, header) ==
    LET names == HeaderFields(fork)
        content_length == SumOf(LAMBDA name : HeaderFieldSize(header, name), names)
    IN  IF 749 < content_length THEN Fatal
        ELSE ListEncoding(content_length, Concat(LAMBDA name : HeaderFieldBytes(header, name), names))

----------------------------------------------------------------------------
(* The definition of RLP the codecs are compared with: a tree of byte      *)
(* strings and lists, and the encoding of a tree.                          *)
Str(bytes) == [bytes |-> bytes]
Tree(items) == [items |-> items]
IsStr(t) == "bytes" \in DOMAIN t

RECURSIVE RlpOf(_)
RlpOf(t) ==
    LET body == IF IsStr(t) THEN t.bytes ELSE FlattenSeq([i \in DOMAIN t.items |-> RlpOf(t.items[i])])
        base == IF IsStr(t) THEN 128 ELSE 192
    IN  IF IsStr(t) /\ Len(body) = 1 /\ body[1] < 128 THEN body
        ELSE IF Len(body) < 56 THEN <<base + Len(body)>> \o body
        ELSE IF Len(body) < 256 THEN <<base + 56, Len(body)>> \o body
        ELSE <<base + 57, Len(body) \div 256, Len(body) % 256>> \o body

(* A typed envelope (EIP-2718); the legacy type has no type byte. *)
Typed(type_byte, tree) == (IF type_byte = 0 THEN <<>> ELSE <<type_byte>>) \o RlpOf(tree)
=============================================================================
