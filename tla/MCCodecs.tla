------------------------------ MODULE MCCodecs ------------------------------
(* The four codecs, each over inputs of its own: RLP input at the edges of *)
(* every header form; encodings at the edges of every prefix form, in one  *)
(* arena; transactions of the five types, plain, differing in one field,   *)
(* or damaged; stateless inputs of many shapes, with something in every    *)
(* field, and with every offset of a rich one damaged.                     *)
EXTENDS Codecs, StatelessRun

VARIABLE part
vars == <<reader, scratch, decoding, run, part>>

(* Inputs of up to three header bytes and a tail long enough for both      *)
(* length widths.                                                          *)
Heads == {0, 1, 127, 128, 129, 130, 183, 184, 185, 191, 192, 193, 194, 247, 248, 249, 255}
HeaderLengths == {0, 1, 2, 55, 56, 128, 255}
Tails == {0, 1, 2, 55, 56, 57, 255, 256, 257, 300}

Run(n, b) == [i \in 1 .. n |-> b]
MCRlpInputs == {<<>>}
            \cup {<<h>> \o Run(n, b) : h \in Heads, n \in Tails, b \in {5, 200}}
            \cup {<<h, l>> \o Run(n, 5) : h \in Heads, l \in HeaderLengths, n \in Tails}
            \cup {<<h, l, m>> \o Run(n, 5) : h \in {130, 185, 249}, l \in HeaderLengths, m \in HeaderLengths, n \in Tails}

(* Integers of zero, one (below and above 0x80), two, eight and thirty-two *)
(* bytes, strings of 0, 1, 55 and 56 bytes, the largest header and         *)
(* withdrawal.                                                             *)
Fill(n, b) == [i \in 1 .. n |-> b]
Address == Fill(20, 7)
Hash == Fill(32, 9)
Zero == <<>>
U64 == Fill(8, 255)
U256 == Fill(32, 255)

Log(topics, n) == [address |-> Address, topics |-> Fill(topics, Hash), data |-> Fill(n, 1)]
Receipt(t, ok, logs) == [success |-> ok, tx_type |-> t, logs |-> logs, bloom |-> Fill(256, Len(logs))]
MCReceipts ==
    {[receipt |-> Receipt("legacy", TRUE, <<>>), gas |-> <<82, 8>>],
     [receipt |-> Receipt("blob", FALSE, <<Log(0, 0)>>), gas |-> <<128>>],
     [receipt |-> Receipt("legacy", TRUE, <<Log(1, 1), Log(4, 56)>>), gas |-> <<127>>]}

Signing(t, v, items) ==
    [kind |-> "signing", type |-> t, v |-> v, fields |-> items,
     span |-> FlattenSeq([i \in DOMAIN items |-> RlpOf(items[i])])]
Few == <<Str(<<1>>), Str(<<200>>)>>
Account(nonce, balance) == [kind |-> "account", info |-> [nonce |-> nonce, balance |-> balance,
                            storage_root |-> Hash, code_hash |-> [Hash EXCEPT ![1] = 0]]]
Withdrawal(n) == [kind |-> "withdrawal", withdrawal |->
                  [index |-> n, validator_index |-> n, amount |-> n, address |-> Address]]
BlockHeader(fork, n, base_fee, extra) ==
    [kind |-> "header", fork |-> fork, header |->
        [name \in {HeaderFields(Amsterdam)[i] : i \in DOMAIN HeaderFields(Amsterdam)} |->
            CASE name = "base_fee" -> base_fee
              [] name = "difficulty" -> Zero
              [] name \in HeaderNumbers \ {"base_fee", "difficulty"} -> n
              [] name = "fee_recipient" -> Address
              [] name = "logs_bloom" -> Fill(256, 3)
              [] name = "extra_data" -> extra
              [] OTHER -> Hash]]

MCValues ==
    {Signing("legacy", v, Few) : v \in {28, 35, 36 + 2 * 127, 36 + 2 * 128, 35 + 2 * 70000}}
    \cup {Signing("fee_market", 1, Append(Few, Str(Fill(n, 1)))) : n \in {52, 53, 300}}
    \cup {Signing("legacy", 27, <<Str(Fill(n, 255))>>) : n \in {54, 55}}
    \cup {Signing("legacy", 37, <<Str(Fill(n, 255))>>) : n \in {51, 52}}
    \cup {[kind |-> "auth", chain_id |-> c, address |-> Address, nonce |-> n] : c \in {Zero, U256}, n \in {Zero, U64}}
    \cup {[kind |-> "create", address |-> Address, nonce |-> n] : n \in {Zero, <<127>>, <<128>>, U64}}
    \cup {[kind |-> "create2", address |-> Address, salt |-> Hash, init_hash |-> Hash]}
    \cup {[kind |-> "storage", value |-> w] : w \in {<<1>>, <<128>>, U256}}
    \cup {Account(Zero, Zero), Account(<<128>>, <<1, 0>>), Account(U64, U256)}
    \cup {Withdrawal(Zero), Withdrawal(<<128>>), Withdrawal(U64)}
    \cup {BlockHeader(f, n, Zero, Zero) : f \in {10, 11}, n \in {<<127>>}}
    \cup {BlockHeader(f, U64, U256, Fill(32, 1)) : f \in {5, 6, 12, 16}}

MCNFull == Fill(15, 255) \o <<254>> \o Fill(16, 186)
MCNHalf == <<127>> \o Fill(14, 255) \o <<255>> \o Fill(16, 93)
BlobHash == [Hash EXCEPT ![1] = 1]
Auth(chain, nonce, y, r) == Tree(<<Str(chain), Str(Fill(20, 8)), Str(nonce), Str(y), Str(r), Str(<<7>>)>>)
Entry(n) == Tree(<<Str(Fill(20, 6)), Tree(Fill(n, Str(Hash)))>>)

(* The field lists of EIP-155, EIP-2930, EIP-1559, EIP-4844 and EIP-7702. *)
Fee == <<"chain_id", "nonce", "max_priority_fee", "max_fee", "gas", "to", "value", "data", "access_list">>
Wire(t) ==
    CASE t = "legacy" -> <<"nonce", "max_fee", "gas", "to", "value", "data", "v", "r", "s">>
      [] t = "access_list" -> <<"chain_id", "nonce", "max_fee", "gas", "to", "value", "data", "access_list", "v", "r", "s">>
      [] t = "fee_market" -> Fee \o <<"v", "r", "s">>
      [] t = "blob" -> Fee \o <<"max_blob_fee", "blob_hashes", "v", "r", "s">>
      [] t = "set_code" -> Fee \o <<"authorizations", "v", "r", "s">>

PlainField(name) ==
    CASE name = "to" -> Str(Fill(20, 7))
      [] name = "data" -> Str(<<1, 2>>)
      [] name = "access_list" -> Tree(<<Entry(1)>>)
      [] name = "blob_hashes" -> Tree(<<Str(BlobHash)>>)
      [] name = "authorizations" -> Tree(<<Auth(<<1>>, <<>>, <<1>>, <<3>>)>>)
      [] name = "v" -> Str(<<1>>)
      [] OTHER -> Str(<<5>>)

Others(name) ==
    CASE name = "to" -> {Str(<<>>)}
      [] name = "data" -> {Str(Fill(n, b)) : n \in {0, 1, 55, 56, 256}, b \in {0, 255}}
      [] name = "access_list" -> {Tree(<<>>), Tree(<<Entry(0), Entry(2)>>)}
      [] name = "blob_hashes" -> {Tree(<<>>), Tree(<<Str(BlobHash), Str(BlobHash)>>)}
      [] name = "authorizations" -> {Tree(<<>>), Tree(<<Auth(<<>>, <<1>>, <<>>, <<4>>), Auth(Fill(32, 255), Fill(8, 255), <<2>>, Fill(32, 255))>>)}
      [] name = "v" -> {Str(NumberBytes(v)) : v \in {0, 2, 27, 28, 35, 36, 37, 38, 39, 1000}}
      [] name \in {"chain_id", "gas"} -> {Str(<<>>), Str(<<128>>), Str(Fill(8, 255))}
      [] OTHER -> {Str(<<>>), Str(<<127>>), Str(Fill(8, 255))}

Tx(t, items) == [type |-> t, names |-> Wire(t), items |-> items]
PlainTx(t) == Tx(t, [i \in DOMAIN Wire(t) |-> PlainField(Wire(t)[i])])
WithField(tx, i, item) == [tx EXCEPT !.items[i] = item]
Bytes(tx) == Typed(tx_envelope_type(tx.type), Tree(tx.items))
Envelope(tx, damage, bytes) == [from |-> tx, damage |-> damage, bytes |-> bytes]

WellFormed(t) ==
    {Envelope(tx, "none", Bytes(tx)) : tx \in {PlainTx(t)} \cup
        UNION {{WithField(PlainTx(t), i, item) : item \in Others(Wire(t)[i])} : i \in DOMAIN Wire(t)}}

(* An item of one zero byte is the integer 0 badly written. *)
PaddedField(item) == Str(<<0>> \o item.bytes)
DamagedFields(t) ==
    LET tx == PlainTx(t)
        Name(i) == Wire(t)[i]
    IN  {Envelope(tx, IF Name(i) \in {"to", "v"} THEN "loose" ELSE "padded", Bytes(WithField(tx, i, PaddedField(tx.items[i]))))
            : i \in {k \in DOMAIN tx.items : IsStr(tx.items[k]) /\ Name(k) # "data"}}
        \cup {Envelope(tx, IF Name(i) = "data" THEN "loose" ELSE "listed", Bytes(WithField(tx, i, Tree(<<tx.items[i]>>))))
            : i \in {k \in DOMAIN tx.items : IsStr(tx.items[k])}}

DamagedEnvelopes(t) ==
    LET tx == PlainTx(t)  b == Bytes(tx)
    IN  {Envelope(tx, "extra", Bytes([tx EXCEPT !.items = Append(@, Str(<<>>))])),
         Envelope(tx, "short", Bytes([tx EXCEPT !.items = Front(@)])),
         Envelope(tx, "long", Append(b, 128)),
         Envelope(tx, "cut", Front(b)),
         Envelope(tx, "type", Typed(5, Tree(tx.items))),
         Envelope(tx, "type", <<0>> \o RlpOf(Tree(tx.items)))}

MCEnvelopes == UNION {WellFormed(t) \cup DamagedFields(t) \cup DamagedEnvelopes(t) : t \in TxType}

(* An encoding is a length, its bytes that are not zero, and the places of its
   offsets. *)
Piece(len, cells, offsets) == [len |-> len, cells |-> cells, offsets |-> offsets]
ZeroPiece(len) == Piece(len, {}, {})
U32Cells(pos, n) ==
    {c \in {<<pos, n % 256>>, <<pos + 1, (n \div 256) % 256>>, <<pos + 2, (n \div 65536) % 256>>,
            <<pos + 3, n \div 16777216>>} : c[2] # 0}
Offset(n) == Piece(4, U32Cells(0, n), {0})
Uint64(n) == Piece(8, U32Cells(0, n), {})
Blob(len, last) == Piece(len, IF last = 0 THEN {} ELSE {<<len - 1, last>>}, {})

Cat(a, b) == Piece(a.len + b.len, a.cells \cup {<<c[1] + a.len, c[2]>> : c \in b.cells},
                   a.offsets \cup {o + a.len : o \in b.offsets})
CatAll(pieces) == FoldLeft(Cat, ZeroPiece(0), pieces)

LengthBefore(pieces, i) == FoldLeft(LAMBDA n, p : n + p.len, 0, SubSeq(pieces, 1, i - 1))

(* A container: a fixed part of pieces, where a number stands for the offset of
   that variable part. *)
FixedLength(fixed) == FoldLeft(LAMBDA n, f : n + IF f.var = 0 THEN f.piece.len ELSE 4, 0, fixed)
Fixed(piece) == [var |-> 0, piece |-> piece]
Var(i) == [var |-> i, piece |-> ZeroPiece(4)]

Container(fixed, parts) ==
    LET start == FixedLength(fixed)
    IN  CatAll([i \in 1 .. Len(fixed) |->
                  IF fixed[i].var = 0 THEN fixed[i].piece ELSE Offset(start + LengthBefore(parts, fixed[i].var))]
               \o parts)

List(items) == Container([i \in 1 .. Len(items) |-> Var(i)], items)
PlainBlob(len) == Blob(len, IF len = 0 THEN 0 ELSE 5)

Withdrawals(n) == CatAll([i \in 1 .. n |-> Cat(Uint64(i), ZeroPiece(36))])

Payload(s) ==
    Container(<<Fixed(ZeroPiece(404)), Fixed(Uint64(s.number)), Fixed(ZeroPiece(16)), Fixed(Uint64(9)), Var(1),
                Fixed(ZeroPiece(64)), Var(2), Var(3), Fixed(ZeroPiece(16)), Var(4), Fixed(ZeroPiece(8))>>,
              <<PlainBlob(s.extra), List(s.transactions), Withdrawals(s.withdrawals), PlainBlob(s.access_list)>>)

Requests(r) == Container([i \in 1 .. 5 |-> Var(i)], [i \in 1 .. 5 |-> PlainBlob(r[i])])

Request(s) == Container(<<Var(1), Var(2), Fixed(ZeroPiece(32)), Var(3)>>,
                        <<Payload(s), PlainBlob(32 * s.hashes), Requests(s.requests)>>)

Witness(w) == Container([i \in 1 .. 3 |-> Var(i)], [i \in 1 .. 3 |-> List(w[i])])

ChainConfig(s) ==
    CatAll(<<Uint64(1), Piece(4, U32Cells(0, 12), {}), Piece(4, U32Cells(0, 4), {}),
             Container(<<Var(1), Var(2)>>,
                       [i \in 1 .. 2 |-> IF s.activation[i] = 0 THEN ZeroPiece(0) ELSE Uint64(s.activation[i])])>>)

StatelessInputOf(s, request) ==
    CatAll(<<Piece(2, {<<0, s.fork>>, <<1, 1>>}, {}),
             Container([i \in 1 .. 4 |-> Var(i)],
                       <<request, Witness(s.witness), ChainConfig(s), PlainBlob(65 * s.keys)>>)>>)
StatelessInput(s) == StatelessInputOf(s, Request(s))

(* The same piece without a zero byte outside of its offsets, and no two
   fields of one container alike. *)
Dense(piece) ==
    LET tables == UNION {o .. o + 3 : o \in piece.offsets}
    IN  [piece EXCEPT !.cells = {c \in @ : c[1] \in tables}
                                  \cup {<<k, 1 + (k % 251)>> : k \in (0 .. piece.len - 1) \ tables}]

----------------------------------------------------------------------------
Base == [fork |-> 21, number |-> 7, extra |-> 0, transactions |-> <<>>, withdrawals |-> 0, access_list |-> 0,
         hashes |-> 0, requests |-> <<0, 0, 0, 0, 0>>, witness |-> <<<<>>, <<>>, <<>>>>,
         activation |-> <<7, 0>>, keys |-> 0]

(* One or two differences each: lengths at the chunk boundary, lists of one,
   two and three items, request lists full and overfull, activations around
   the block. *)
Shapes ==
    {Base}
    \cup {[Base EXCEPT !.transactions = ts] :
            ts \in {<<Blob(1, 0)>>, <<Blob(2, 0)>>, <<Blob(32, 3)>>, <<Blob(33, 3)>>, <<Blob(65, 3)>>,
                    <<Blob(1, 1), Blob(1, 0)>>, <<Blob(0, 0)>>, <<Blob(0, 0), Blob(0, 0)>>,
                    <<Blob(2, 4), Blob(0, 0), Blob(3, 4)>>}}
    \cup {[Base EXCEPT !.withdrawals = n, !.extra = n] : n \in {1, 2, 3, 16}}
    \cup {[Base EXCEPT !.access_list = n] : n \in {1, 31, 32, 33, 64, 65}}
    \cup {[Base EXCEPT !.hashes = n] : n \in {1, 2, 3}}
    \cup {[Base EXCEPT !.requests = r] :
            r \in {<<192, 0, 0, 0, 0>>, <<384, 0, 0, 0, 0>>, <<0, 76, 0, 0, 0>>, <<0, 0, 116, 0, 0>>,
                   <<0, 0, 232, 0, 0>>, <<0, 0, 0, 184, 0>>, <<0, 0, 0, 0, 68>>, <<0, 152, 0, 0, 136>>}}
    \cup {[Base EXCEPT !.witness = w, !.keys = 1] :
            w \in {<<<<Blob(3, 1)>>, <<Blob(2, 0), Blob(1, 9)>>, <<Blob(4, 2)>>>>,
                   <<<<Blob(1, 1), Blob(0, 0), Blob(2, 2)>>, <<>>, <<Blob(1, 0)>>>>}}
    \cup {[Base EXCEPT !.activation = a] : a \in {<<0, 9>>, <<7, 9>>, <<6, 8>>, <<8, 0>>, <<0, 10>>, <<6, 10>>}}

(* Requests every field of which holds something. *)
DenseShapes ==
    {[Base EXCEPT !.transactions = <<Blob(2, 0), Blob(33, 0)>>, !.withdrawals = 2, !.extra = 32, !.access_list = 33,
                  !.hashes = 2, !.requests = r] :
        r \in {<<384, 152, 116, 184, 68>>, <<192, 76, 232, 368, 136>>}}

(* Requests a list of which does not divide, or has too many items. *)
BadRequests == {[Base EXCEPT !.requests = r, !.fork = 16] :
                  r \in {<<191, 0, 0, 0, 0>>, <<0, 0, 348, 0, 0>>, <<0, 0, 0, 0, 17 * 68>>}}

Image(piece) == [k \in {c[1] : c \in piece.cells} |-> (CHOOSE c \in piece.cells : c[1] = k)[2]]
InputOf(piece, shaped, shape) ==
    [bytes |-> Slice(Image(piece), 0, piece.len), shaped |-> shaped, shape |-> shape]
OffsetAt(piece, o) ==
    FoldLeft(LAMBDA n, k : LET b == {c \in piece.cells : c[1] = o + k}
                           IN  n * 256 + IF b = {} THEN 0 ELSE (CHOOSE c \in b : TRUE)[2],
             0, <<3, 2, 1, 0>>)

(* An offset a little off, swapped away to zero or far outside. *)
Damaged(piece) ==
    UNION {LET n == OffsetAt(piece, o)
           IN  {[piece EXCEPT !.cells = {c \in @ : c[1] \notin o .. o + 3} \cup U32Cells(o, m)] :
                  m \in ({n + 1, n + 4, 0, 2147483647} \cup {k \in {n - 1, n - 4} : n >= 4})}
           : o \in piece.offsets}

DamagedShapes ==
    {[Base EXCEPT !.transactions = <<Blob(2, 4), Blob(1, 0), Blob(3, 4)>>, !.witness =
        <<<<Blob(1, 1), Blob(5, 1)>>, <<>>, <<Blob(4, 2)>>>>, !.withdrawals = 1, !.extra = 4,
        !.requests = <<192, 76, 0, 0, 68>>]}

MCInputs ==
    {InputOf(StatelessInput(s), TRUE, s) : s \in Shapes}
    \cup {InputOf(StatelessInputOf(s, Dense(Request(s))), TRUE, s) : s \in DenseShapes}
    \cup UNION {{InputOf(d, FALSE, s) : d \in Damaged(StatelessInput(s))} : s \in DamagedShapes}
    \cup {InputOf(StatelessInput(s), FALSE, s) : s \in BadRequests}

----------------------------------------------------------------------------
NoReader == rlp_input = <<>> /\ rlp_cursor = <<>> /\ fields_read = <<>> /\ outcome = "end"
NoEnvelope == envelope = [from |-> PlainTx("legacy"), damage |-> "none", bytes |-> <<>>]
              /\ transaction = NotYet /\ authorizations = NotYet
NoRun == /\ input = InputOf(ZeroPiece(0), FALSE, Base)
         /\ ref = Refused /\ stage = "decode" /\ lists = <<>> /\ cursor = NoCursor
         /\ popped = <<>> /\ writing_error = FALSE /\ output = <<>>

Init ==
    /\ ScratchInit
    /\ \/ part = "reader" /\ CursorInit /\ NoEnvelope /\ NoRun
       \/ part = "scratch" /\ NoReader /\ NoEnvelope /\ NoRun
       \/ part = "envelope" /\ NoReader /\ EnvelopeInit /\ NoRun
       \/ part = "input" /\ NoReader /\ NoEnvelope /\ StatelessInit

Next ==
    /\ \/ part = "reader" /\ CursorNext /\ UNCHANGED <<scratch, decoding, run>>
       \/ part = "scratch" /\ ScratchNext /\ UNCHANGED <<reader, decoding, run>>
       \/ part = "envelope" /\ EnvelopeNext /\ UNCHANGED <<reader, scratch, run>>
       \/ part = "input" /\ StatelessNext /\ UNCHANGED <<reader, scratch, decoding>>
    /\ UNCHANGED part

Spec == Init /\ [][Next]_vars
=============================================================================
