------------------------------- MODULE Codecs -------------------------------
(***************************************************************************)
(* The codecs over RLP.                                                    *)
(*                                                                         *)
(* Transaction envelopes (lib/rlp/codecs/transactions): the five types and *)
(* their field lists, access lists and blob hashes counted where they lie, *)
(* authorizations counted first and decoded after the validity checks, and *)
(* the signed span taken from the raw bytes of the envelope.               *)
(*                                                                         *)
(* The scratch arena and everything that encodes into it while a block     *)
(* runs.  The arena is one append-only buffer with marks: an encoder takes *)
(* all bytes since its mark.  Receipt records stay in the arena from the   *)
(* first transaction to the receipts root, under every temporary encoding  *)
(* that transactions make, and are taken as all bytes since the first mark.*)
(***************************************************************************)
EXTENDS Rlp

CONSTANTS
    Envelopes,       \* the inputs: [bytes, and what they were made from]
    BlobLimit,       \* most blob hashes of a transaction
    AuthorizationBound,   \* the gas-derived bound of prepare_authorizations
    NotYet           \* no result yet

VARIABLES
    envelope,      \* the input
    transaction,   \* NotYet, Fatal, or what rlp_decode_tx returns
    authorizations \* NotYet, Fatal, or what prepare_authorizations returns

decoding == <<envelope, transaction, authorizations>>

----------------------------------------------------------------------------
(* The fields of a type, in the order they are read. *)
FieldNames(t) ==
    CASE t = "legacy" -> <<"nonce", "max_fee", "gas", "to", "value", "data", "v", "r", "s">>
      [] OTHER ->
         <<"chain_id", "nonce">>
         \o (IF t = "access_list" THEN <<"max_fee">> ELSE <<"max_priority_fee", "max_fee">>)
         \o <<"gas", "to", "value", "data", "access_list">>
         \o (CASE t = "blob" -> <<"max_blob_fee", "blob_hashes">> [] t = "set_code" -> <<"authorizations">> [] OTHER -> <<>>)
         \o <<"v", "r", "s">>

Uint64Fields(t) == {"chain_id", "gas"} \cup (IF t = "set_code" THEN {"nonce"} ELSE {})

ListItems(f) == IF f.is_list THEN Items(rlp_item_content(f)) ELSE Fatal

(* One [address, [key, ...]] entry: Fatal, or how many keys it has. *)
KeyCount(keys) ==
    IF IsFatal(keys) THEN Fatal
    ELSE IF \E i \in DOMAIN keys : IsFatal(rlp_decode_word(keys[i])) THEN Fatal
    ELSE Len(keys)

EntryCount(entry) ==
    IF IsFatal(entry) THEN Fatal
    ELSE IF IsFatal(rlp_decode_word(entry[1])) THEN Fatal
    ELSE Only({KeyCount(keys) : keys \in {ListItems(entry[2])}})

EntryKeys(entry) == Only({EntryCount(fields) : fields \in {ExactFields(rlp_decode_list(entry), 2)}})

(* The counts of a list, from the counts of its entries. *)
AccessListCounts(counts) ==
    IF \E i \in DOMAIN counts : IsFatal(counts[i]) THEN Fatal
    ELSE [addresses |-> Len(counts), slots |-> FoldLeft(+, 0, counts)]

decode_access_list(f) ==
    Only({IF IsFatal(entries) THEN Fatal
          ELSE Only({AccessListCounts(counts) : counts \in {[i \in DOMAIN entries |-> EntryKeys(entries[i])]}})
          : entries \in {ListItems(f)}})

(* Each hash is 0xa0 and thirty-two bytes, the first the version. *)
IsBlobHash(item) == /\ ~item.is_list /\ Len(item.source) = 33 /\ item.source[1] = 160
                    /\ item.source[2] = 1
decode_blob_hashes(f) ==
    Only({IF IsFatal(items) THEN Fatal
          ELSE IF Len(items) > BlobLimit \/ \E i \in DOMAIN items : ~IsBlobHash(items[i]) THEN Fatal
          ELSE [count |-> Len(items)]
          : items \in {ListItems(f)}})

(* Only the tuples' framing is checked here; they are kept as they lie. *)
decode_auth_list(f) ==
    Only({IF IsFatal(tuples) THEN Fatal
          ELSE IF \E i \in DOMAIN tuples : ~tuples[i].is_list THEN Fatal
          ELSE [count |-> Len(tuples), encoded |-> rlp_item_content(f)]
          : tuples \in {ListItems(f)}})

(* The six values of a tuple, in wire order. *)
AuthorizationValues(f) ==
    IF IsFatal(f) THEN <<Fatal>>
    ELSE <<rlp_decode_u256(f[1]), rlp_decode_word(f[2]), rlp_decode_uint64(f[3]),
           rlp_decode_bool(f[4]), rlp_decode_u256(f[5]), rlp_decode_u256(f[6])>>

valid_sig(nonce, y, r, s) ==
    /\ "ok" \in DOMAIN y
    /\ <<>> # r /\ word_ult(r, SECP_N_FULL)
    /\ <<>> # s /\ ~word_ult(SECP_N_HALF, s)
    /\ nonce # [i \in 1 .. 8 |-> 255]

Authorization(v) ==
    IF \E i \in DOMAIN v : IsFatal(v[i]) THEN Fatal
    ELSE [chain_id |-> v[1], address |-> word_to_address(v[2]), nonce |-> v[3],
          signed |-> auth_signing_hash(v[1], word_to_address(v[2]), v[3]).bytes,
          valid_sig |-> valid_sig(v[3], v[4], v[5], v[6])]

decode_authorization(tuple) ==
    Only({Only({Authorization(values) : values \in {AuthorizationValues(fields)}})
          : fields \in {ExactFields(rlp_decode_list(tuple), 6)}})

prepare_authorizations(list) ==
    Only({IF list.count > AuthorizationBound \/ Len(entries) # list.count THEN Fatal
          ELSE IF \E i \in DOMAIN entries : IsFatal(entries[i]) THEN Fatal ELSE entries
          : entries \in {[i \in DOMAIN tuples |-> decode_authorization(tuples[i])] : tuples \in {Items(list.encoded)}}})

DecodeField(t, name, f) ==
    CASE name \in Uint64Fields(t) -> rlp_decode_uint64(f)
      [] name \in {"max_fee", "max_priority_fee", "max_blob_fee", "value", "r", "s"} -> rlp_decode_u256(f)
      [] name = "nonce" /\ t # "set_code" -> rlp_decode_u256(f)
      [] name = "v" -> rlp_decode_word(f)
      [] name = "to" -> IF IsFatal(rlp_decode_word(f)) THEN Fatal
                        ELSE [is_create |-> f.content_len = 0, recipient |-> word_to_address(rlp_decode_word(f))]
      [] name = "data" -> rlp_item_content(f)
      [] name = "access_list" -> decode_access_list(f)
      [] name = "blob_hashes" -> decode_blob_hashes(f)
      [] name = "authorizations" -> decode_auth_list(f)

MutSigSpan(fields, first, signature) == FlattenSeq([i \in first .. signature |-> fields[i].source])

(* The raw bytes from the first field to the start of the v field. *)
tx_sig_span(fields, first, signature) ==
    FlattenSeq([i \in 1 .. signature - first |-> fields[i + first - 1].source])

(* The decoded fields of a type as a transaction. *)
Transaction(t, fields, decoded) ==
    IF \E name \in DOMAIN decoded : IsFatal(decoded[name]) THEN Fatal
    ELSE Only({[type |-> t, fields |-> decoded,
                signed |-> tx_signing_hash(t, tx_sig_span(fields, 1, Len(fields) - 2), v).bytes,
                parity |-> tx_signature_parity(t, v)] : v \in {BytesNumber(decoded["v"])}})

DecodeAs(t, cursor) ==
    LET names == FieldNames(t)
        At(name) == CHOOSE i \in DOMAIN names : names[i] = name
    IN  Only({IF IsFatal(fields) THEN Fatal
              ELSE Only({Transaction(t, fields, decoded)
                         : decoded \in {[name \in Range(names) |-> DecodeField(t, name, fields[At(name)])]}})
              : fields \in {ExactFields(cursor, Len(names))}})

rlp_decode_tx(tx) ==
    LET ttype   == IF tx[1] >= 192 THEN 0 ELSE tx[1]
        payload == IF ttype # 0 THEN Tail(tx) ELSE tx
        types   == {t \in TxType : tx_envelope_type(t) = ttype}
    IN  IF tx = <<>> THEN Fatal
        ELSE IF types = {} THEN Fatal
        ELSE Only({DecodeAs(t, cursor) : t \in types, cursor \in {rlp_node_cursor(payload)}})

----------------------------------------------------------------------------
EnvelopeInit == envelope \in Envelopes /\ transaction = NotYet /\ authorizations = NotYet

DecodeTransaction ==
    /\ transaction = NotYet
    /\ transaction' = rlp_decode_tx(envelope.bytes)
    /\ UNCHANGED <<envelope, authorizations>>

PrepareAuthorizations ==
    /\ transaction \notin {NotYet, Fatal}
    /\ transaction.type = "set_code"
    /\ authorizations = NotYet
    /\ authorizations' = prepare_authorizations(transaction.fields.authorizations)
    /\ UNCHANGED <<envelope, transaction>>

EnvelopeNext == DecodeTransaction \/ PrepareAuthorizations

----------------------------------------------------------------------------
Decoded == transaction \notin {NotYet, Fatal}

(* What a field of a well-formed envelope stands for. *)
Pairs(items) == FlattenSeq([i \in DOMAIN items |-> items[i].items[2].items])
FieldMeaning(name, tree) ==
    CASE name = "to" -> [is_create |-> tree.bytes = <<>>,
                         recipient |-> IF tree.bytes = <<>> THEN Zeros(20) ELSE tree.bytes]
      [] name = "access_list" -> [addresses |-> Len(tree.items), slots |-> Len(Pairs(tree.items))]
      [] name = "blob_hashes" -> [count |-> Len(tree.items)]
      [] name = "authorizations" -> [count |-> Len(tree.items),
                                     encoded |-> FlattenSeq([i \in DOMAIN tree.items |-> RlpOf(tree.items[i])])]
      [] OTHER -> tree.bytes

Unsigned(tx) == [i \in 1 .. Len(tx.items) - 3 |-> tx.items[i]]
Eip155(tx) == LET v == BytesNumber(tx.items[Len(tx.items) - 2].bytes)
              IN  IF tx.type = "legacy" /\ v >= 35
                  THEN <<Str(NumberBytes((v - 35) \div 2)), Str(<<>>), Str(<<>>)>> ELSE <<>>

(* A well-formed transaction of any type reads back as the fields it was   *)
(* made from, and what it signs is the list of its unsigned fields, with   *)
(* the EIP-155 suffix where v asks for it (decode_legacy_tx to             *)
(* decode_set_code_tx, tx_signing_hash).  Its authorizations come out in   *)
(* wire order, as many as were counted, each with its own signed message.  *)
FieldsReadBack ==
    LET tx == envelope.from
        expected == [i \in DOMAIN tx.items |-> FieldMeaning(tx.names[i], tx.items[i])]
    IN  envelope.damage = "none" /\ transaction # NotYet =>
        /\ Decoded
        /\ transaction.type = tx.type
        /\ \A i \in DOMAIN tx.names : transaction.fields[tx.names[i]] = expected[i]
        /\ transaction.signed = Typed(tx_envelope_type(tx.type), Tree(Unsigned(tx) \o Eip155(tx)))
        /\ authorizations # NotYet =>
               LET tuples == tx.items[Len(tx.items) - 3].items
               IN  /\ Len(authorizations) = Len(tuples)
                   /\ \A i \in DOMAIN tuples :
                        authorizations[i].signed = <<5>> \o RlpOf(Tree(SubSeq(tuples[i].items, 1, 3)))

(* Whatever bytes are accepted, all of them are accounted for: the content *)
(* of the envelope is the signed span followed by the three signature      *)
(* fields, so no byte of an accepted transaction escapes the signature     *)
(* (tx_sig_span, rlp_cursor_expect_end).                                   *)
NothingEscapesTheSignature ==
    Decoded =>
        LET typed   == transaction.type # "legacy"
            fields  == Items(rlp_node_cursor(IF typed THEN Tail(envelope.bytes) ELSE envelope.bytes))
            message == Items(rlp_node_cursor(IF typed THEN Tail(transaction.signed) ELSE transaction.signed))
            k       == Len(fields) - 3
        IN  /\ k = Len(FieldNames(transaction.type)) - 3
            /\ SubSeq(message, 1, k) = SubSeq(fields, 1, k)
            /\ Len(message) \in {k, k + 3}
            /\ Len(message) = k + 3 => ~typed

(* An integer with a leading zero, a list in place of a string, a missing  *)
(* or an extra field, a truncated or an overlong envelope and an unknown   *)
(* type are refused.  The three fields the code reads more loosely are     *)
(* left out: to and v may be padded, data may be a list.                   *)
DamageIsRefused ==
    envelope.damage \notin {"none", "loose"} => transaction \in {NotYet, Fatal}

(* A signature that is accepted names the configured chain, or no chain,   *)
(* and its recovery bit is the one v was made from: v is 27 + bit or       *)
(* 35 + 2 * chain + bit for legacy, the bit itself for typed transactions. *)
SignatureNamesTheChain ==
    Decoded => LET v == BytesNumber(transaction.fields["v"])  bit == transaction.parity
               IN  ~IsFatal(bit) => v \in IF transaction.type = "legacy"
                                          THEN {27 + bit, 35 + 2 * CONFIGURED_CHAIN_ID + bit} ELSE {bit}

(* A transaction that is accepted is the one its sender signed, for this   *)
(* chain, and one that is damaged is refused (rlp_decode_tx).              *)
TransactionsReadBack ==
    /\ FieldsReadBack
    /\ NothingEscapesTheSignature
    /\ DamageIsRefused
    /\ SignatureNamesTheChain

----------------------------------------------------------------------------
(* The scratch arena. *)

CONSTANTS
    Receipts,        \* receipts, each with its cumulative gas
    Values,          \* the temporary encodings: signing hashes, addresses, trie values, headers
    MaxReceipts,     \* bound on the receipts of a block
    MaxScratch       \* bound on what trie encodings leave in the arena

ASSUME ScratchAssumption == MaxReceipts \in Nat /\ MaxScratch \in Nat

VARIABLES
    scratch_arena,    \* the bytes in use
    records_start,    \* mark of the receipt store, or NoMark
    appended,         \* the receipts appended since (history)
    encoded           \* the last encoding: what was asked, announced and taken

scratch == <<scratch_arena, records_start, appended, encoded>>

NoMark == 0 - 1
Nothing == [value |-> <<>>, announced |-> 0, taken |-> <<>>]

scratch_finish(arena, mark) == SubSeq(arena, mark + 1, Len(arena))
scratch_rewind(arena, mark) == SubSeq(arena, 1, mark)

ScratchInit ==
    scratch_arena = <<>> /\ records_start = NoMark /\ appended = <<>> /\ encoded = Nothing

(* The encoder that a value asks for. *)
Encoder(v) ==
    CASE v.kind = "signing"    -> tx_signing_hash(v.type, v.span, v.v)
      [] v.kind = "auth"       -> auth_signing_hash(v.chain_id, v.address, v.nonce)
      [] v.kind = "create"     -> create_address(v.address, v.nonce)
      [] v.kind = "create2"    -> create2_address(v.address, v.salt, v.init_hash)
      [] v.kind = "storage"    -> encode_storage_value(v.value)
      [] v.kind = "account"    -> encode_state_account(v.info)
      [] v.kind = "withdrawal" -> withdrawal_rlp(v.withdrawal)
      [] v.kind = "header"     -> block_header_hash(v.fork, v.header)

(* These hash their encoding and rewind; the others leave it for the trie. *)
Rewinds == {"signing", "auth", "create", "create2", "header"}

(* Reserve, write, finish; nothing is read or written in between. *)
Encode(v, rewind) ==
    LET encoding == Encoder(v)
        mark     == Len(scratch_arena)
        arena    == scratch_arena \o encoding.bytes
    IN  /\ IF IsFatal(encoding)
           THEN /\ encoded' = [value |-> v, announced |-> 0, taken |-> Fatal]
                /\ UNCHANGED scratch_arena
           ELSE /\ encoded' = [value |-> v, announced |-> encoding.announced,
                               taken |-> scratch_finish(arena, mark)]
                /\ scratch_arena' = IF rewind THEN scratch_rewind(arena, mark) ELSE arena
        /\ UNCHANGED <<records_start, appended>>

receipt_store_begin ==
    /\ records_start = NoMark
    /\ records_start' = Len(scratch_arena)
    /\ appended' = <<>>
    /\ UNCHANGED <<scratch_arena, encoded>>

MutTemporary == \E v \in Values : v.kind \in Rewinds /\ Encode(v, v.kind # "create2")

(* tx_signing_hash, auth_signing_hash, create_address, create2_address and *)
(* block_header_hash, at any time.                                         *)
Temporary == \E v \in Values : v.kind \in Rewinds /\ Encode(v, TRUE)

(* encode_storage_value, encode_state_account and withdrawal_rlp run while *)
(* a root is computed, before the store is begun or after its root.        *)
ForTheTrie == /\ records_start = NoMark
              /\ Len(scratch_arena) < MaxScratch
              /\ \E v \in Values : v.kind \notin Rewinds /\ Encode(v, FALSE)

receipt_record_append ==
    /\ records_start # NoMark
    /\ Len(appended) < MaxReceipts
    /\ \E r \in Receipts :
           LET encoding == receipt_encoded(r.receipt, r.gas)
               arena    == scratch_arena \o receipt_record_write_length(encoding.announced)
                           \o encoding.bytes
           IN  /\ scratch_arena' = arena
               /\ encoded' = [value |-> [kind |-> "receipt"] @@ r, announced |-> encoding.announced,
                              taken |-> scratch_finish(arena, Len(scratch_arena) + 8)]
               /\ appended' = Append(appended, r)
               /\ UNCHANGED records_start

(* receipt_store_root reads the records and rewinds to the first mark. *)
receipt_store_root ==
    /\ records_start # NoMark
    /\ scratch_arena' = scratch_rewind(scratch_arena, records_start)
    /\ records_start' = NoMark
    /\ encoded' = Nothing
    /\ UNCHANGED appended

scratch_reset ==
    /\ records_start = NoMark
    /\ scratch_arena' = <<>>
    /\ UNCHANGED <<records_start, appended, encoded>>

ScratchNext == receipt_store_begin \/ Temporary \/ ForTheTrie \/ receipt_record_append
               \/ receipt_store_root \/ scratch_reset

----------------------------------------------------------------------------
(* The meaning of an encoding: the value as an RLP tree. *)
LogTree(log) == Tree(<<Str(log.address), Tree([i \in DOMAIN log.topics |-> Str(log.topics[i])]), Str(log.data)>>)
TypedRlp(t, tree) == Typed(tx_envelope_type(t), tree)
HeaderItem(h, name) == Str(IF name = "nonce" THEN Zeros(8) ELSE h[name])

Meaning(v) ==
    CASE v.kind = "signing"    -> TypedRlp(v.type, Tree(v.fields \o
                                    IF v.type = "legacy" /\ v.v >= 35
                                    THEN <<Str(NumberBytes((v.v - 35) \div 2)), Str(<<>>), Str(<<>>)>> ELSE <<>>))
      [] v.kind = "auth"       -> <<5>> \o RlpOf(Tree(<<Str(v.chain_id), Str(v.address), Str(v.nonce)>>))
      [] v.kind = "create"     -> RlpOf(Tree(<<Str(v.address), Str(v.nonce)>>))
      [] v.kind = "create2"    -> <<255>> \o v.address \o v.salt \o v.init_hash
      [] v.kind = "storage"    -> RlpOf(Str(v.value))
      [] v.kind = "account"    -> RlpOf(Tree(<<Str(v.info.nonce), Str(v.info.balance),
                                               Str(v.info.storage_root), Str(v.info.code_hash)>>))
      [] v.kind = "withdrawal" -> RlpOf(Tree(<<Str(v.withdrawal.index), Str(v.withdrawal.validator_index),
                                               Str(v.withdrawal.address), Str(v.withdrawal.amount)>>))
      [] v.kind = "header"     -> RlpOf(Tree([i \in DOMAIN HeaderFields(v.fork) |->
                                               HeaderItem(v.header, HeaderFields(v.fork)[i])]))
      [] v.kind = "receipt"    -> TypedRlp(v.receipt.tx_type,
                                    Tree(<<Str(Status(v.receipt)), Str(v.gas), Str(v.receipt.bloom),
                                           Tree([i \in DOMAIN v.receipt.logs |-> LogTree(v.receipt.logs[i])])>>))

(* Every encoder takes exactly the bytes it announced, which are the RLP   *)
(* of the value's fields in order, and none ends in fatal_error: the       *)
(* largest header has exactly the 749 bytes and the largest withdrawal the *)
(* 48 their encoders allow (rlp_encoder_finish asserts the length).        *)
EncodingsAreTheValues ==
    encoded # Nothing => /\ encoded.taken = Meaning(encoded.value)
                         /\ encoded.announced = Len(encoded.taken)

(* An account read back from its encoding is the account, so the state a   *)
(* later block reads is the state this one wrote (encode_state_account,    *)
(* decode_state_account).                                                  *)
AccountsReadBack ==
    encoded # Nothing /\ encoded.value.kind = "account" =>
        decode_state_account(encoded.taken, Zeros(32), Zeros(32)) = encoded.value.info

RECURSIVE Popped(_)
Popped(records) ==
    LET r == receipt_record_pop(records)
    IN  IF records = <<>> THEN <<>> ELSE IF IsFatal(r) THEN <<Fatal>> ELSE <<r.value>> \o Popped(r.rest)

(* The bytes since the mark of the store are at every moment the records   *)
(* appended so far and nothing else, so that reading them by their lengths *)
(* gives the receipts back in order: no signature, address or authorization*)
(* hashed between two receipts leaves a byte behind (receipt_store_root    *)
(* takes everything since records_start).                                  *)
RecordsReadBack ==
    records_start # NoMark =>
        Popped(scratch_finish(scratch_arena, records_start)) =
            [i \in DOMAIN appended |-> receipt_encoded(appended[i].receipt, appended[i].gas).bytes]

(* What is written while a block runs is what is read later: encodings are *)
(* their values, accounts and receipts come back as they went in.          *)
EncodingsReadBack == EncodingsAreTheValues /\ AccountsReadBack /\ RecordsReadBack
=============================================================================
