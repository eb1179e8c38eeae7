---------------------------- MODULE StatelessRun ----------------------------
(***************************************************************************)
(* The guest's main: decode the input, read its lists while verifying the  *)
(* payload, publish one result.  Whatever fails calls fatal_error, which   *)
(* publishes the invalid result and ends the run; a failure while that is  *)
(* being written aborts.  What the verification finds is left open: it may *)
(* fail at any point.                                                      *)
(***************************************************************************)
EXTENDS Ssz

CONSTANT Inputs     \* records with the input's bytes, and what they encode

VARIABLES
    input,          \* the input of this run
    ref,            \* decoded_input, Refused while decoded_input_present is false
    stage,          \* "decode", "verify", "exited" or "aborted"
    lists,          \* the lists of the witness and the payload still to be read
    cursor,         \* the cursor in the first of them
    popped,         \* the items read from it
    writing_error,
    output          \* the results published

run == <<input, ref, stage, lists, cursor, popped, writing_error, output>>
NoCursor == Refused

StatelessInit ==
    /\ input \in Inputs
    /\ ref = Refused
    /\ stage = "decode"
    /\ lists = <<>>
    /\ cursor = NoCursor
    /\ popped = <<>>
    /\ writing_error = FALSE
    /\ output = <<>>

Result(root, success, chain_config) == [root |-> root, success |-> success, chain_config |-> chain_config]
commit_validation_result(root, success, chain_config) ==
    output' = Append(output, Result(root, success, chain_config))

(* Nothing is known of the input: a root of zeros, a configuration without
   activations. *)
write_invalid_result == commit_validation_result(<<"zero", 0>>, FALSE, Refused)

write_validation_result(decoded, success) ==
    commit_validation_result(htr_new_payload_request(decoded), success, decoded.chain_config)

Unread == UNCHANGED <<input, lists, cursor, popped>>

(* fatal_error of the native hosts, given the decoded input if there is one. *)
fatal_error(decoded) ==
    IF writing_error THEN stage' = "aborted" /\ UNCHANGED <<writing_error, output>>
    ELSE /\ writing_error' = TRUE
         /\ IF IsRefused(decoded) THEN write_invalid_result /\ stage' = "exited"
            ELSE IF IsRefused(htr_new_payload_request(decoded)) THEN stage' = "aborted" /\ UNCHANGED output
            ELSE write_validation_result(decoded, FALSE) /\ stage' = "exited"

(* decode_stateless_input_ref and fatal_error_set_input. *)
Decode ==
    /\ stage = "decode"
    /\ LET decoded == decode_stateless_input_ref(input.bytes)
       IN  IF IsRefused(decoded) THEN fatal_error(Refused) /\ Unread /\ UNCHANGED ref
           ELSE /\ ref' = decoded
                /\ stage' = "verify"
                /\ lists' = <<decoded.witness.state, decoded.witness.codes, decoded.witness.headers,
                              decoded.payload.transactions>>
                /\ UNCHANGED <<input, cursor, popped, writing_error, output>>

(* decode_stateless_input, as far as it reads the chain configuration. *)
DecodeConfig ==
    /\ stage = "verify" /\ cursor = NoCursor /\ Len(lists) = 4 /\ popped = <<>>
    /\ LET number == NumberOf(decode_ssz_uint(ref.execution_payload, PL.block_number))
           timestamp == NumberOf(decode_ssz_uint(ref.execution_payload, PL.timestamp))
       IN  IF IsRefused(decode_chain_config(ref.chain_config, number, timestamp))
             THEN fatal_error(ref) /\ Unread /\ UNCHANGED ref
             ELSE /\ cursor' = ssz_list_cursor(Head(lists))
                  /\ UNCHANGED <<input, ref, stage, lists, popped, writing_error, output>>

Reading == stage = "verify" /\ cursor # NoCursor

(* index_witness_nodes, _codes and _headers, execute_block_transactions. *)
PopItem ==
    /\ Reading
    /\ ~ssz_list_cursor_empty(cursor)
    /\ LET item == ssz_list_pop(cursor)
       IN  IF IsRefused(item) THEN fatal_error(ref) /\ Unread /\ UNCHANGED ref
           ELSE /\ popped' = Append(popped, item.item)
                /\ cursor' = item.next
                /\ UNCHANGED <<input, ref, stage, lists, writing_error, output>>

NextList ==
    /\ Reading
    /\ ssz_list_cursor_empty(cursor)
    /\ Len(lists) > 1
    /\ lists' = Tail(lists)
    /\ cursor' = ssz_list_cursor(lists[2])
    /\ popped' = <<>>
    /\ UNCHANGED <<input, ref, stage, writing_error, output>>

(* Any other check of the verification that does not pass. *)
CheckFails == Reading /\ fatal_error(ref) /\ Unread /\ UNCHANGED ref

(* verify_stateless_payload has returned: the request's root may still fail,
   and then fails again for the invalid result. *)
Succeed ==
    /\ Reading
    /\ ssz_list_cursor_empty(cursor)
    /\ Len(lists) = 1
    /\ Unread /\ UNCHANGED ref
    /\ IF IsRefused(htr_new_payload_request(ref)) THEN fatal_error(ref)
       ELSE /\ write_validation_result(ref, TRUE)
            /\ stage' = "exited"
            /\ UNCHANGED writing_error

StatelessNext == Decode \/ DecodeConfig \/ PopItem \/ NextList \/ CheckFails \/ Succeed

----------------------------------------------------------------------------
(* The execution takes the items of a list one after another
   (ssz_list_pop), the hash tree root takes them by index (ssz_list_at): both
   see the same items, and refuse the same ones. *)
ReadersAgree ==
    cursor # NoCursor =>
        /\ \A i \in 1 .. Len(popped) : ssz_list_at(Head(lists), i - 1) = popped[i]
        /\ ~ssz_list_cursor_empty(cursor) =>
             (IsRefused(ssz_list_pop(cursor)) <=> IsRefused(ssz_list_at(Head(lists), cursor.index)))

(* The fixed parts and the leaves of a decoded input, in the order of their
   places. *)
Parts(r) ==
    LET fixed(s, len) == stateless_input_sub_slice(s, 0, len)
        requests == Slice(input.bytes.at, r.requests.deposits.off - 20, 20)
        witness == Slice(input.bytes.at, r.witness.state.bytes.off - 12, 12)
    IN  <<fixed(input.bytes, 18), fixed(r.new_payload_request, 44), fixed(r.execution_payload, 540),
          r.payload.extra_data, r.payload.transactions.bytes, r.payload.withdrawals.bytes,
          r.payload.block_access_list, r.versioned_hashes, requests, r.requests.deposits,
          r.requests.withdrawal_requests, r.requests.consolidation_requests,
          r.requests.builder_deposit_requests, r.requests.builder_exit_requests, witness,
          r.witness.state.bytes, r.witness.codes.bytes, r.witness.headers.bytes,
          r.chain_config, r.public_keys>>

(* A decoded input leaves nothing out and reads nothing twice: its fixed parts
   and its leaves lie side by side from the first byte to the last, so that no
   two encodings differ in bytes nobody looks at (ssz_take, ssz_finish). *)
PartsTile ==
    ref # Refused =>
        LET parts == Parts(ref)
        IN  /\ parts[1].off = 0
            /\ \A i \in 1 .. Len(parts) - 1 : parts[i].off + parts[i].len = parts[i + 1].off
            /\ parts[Len(parts)].off + parts[Len(parts)].len = input.bytes.len

(* A list that was read to its end is its offset table and its items, side by
   side (ssz_list_pop). *)
ItemsTileTheList ==
    cursor # NoCursor =>
        LET list == Head(lists)
            start(i) == IF i > Len(popped) THEN cursor.current + list.bytes.off ELSE popped[i].off
        IN  /\ list.count > 0 => start(1) = list.bytes.off + 4 * list.count
            /\ \A i \in 1 .. Len(popped) : popped[i].off + popped[i].len = start(i + 1)
            /\ ssz_list_cursor_empty(cursor) => cursor.current = list.bytes.len

(* One run publishes at most one verdict, and the valid one only when every
   list was read to the end and nothing failed before (main, fatal_error). *)
OneVerdict ==
    /\ Len(output) <= 1
    /\ stage = "exited" => Len(output) = 1
    /\ \A i \in 1 .. Len(output) :
          output[i].success => ~writing_error /\ Len(lists) = 1 /\ ssz_list_cursor_empty(cursor)

(* The fork of the inputs is active: they are of block 7 at time 9, or of a
   later one whose activation has passed. *)
Reached7(a) == a[1] <= 7 /\ a[2] <= 9
ItemLengths(items) == [i \in 1 .. Len(items) |-> items[i].len]

(* An encoded input is decoded to the parts it was made of, its request always
   has a root, up to the limits of the lists, and its chain configuration is
   refused exactly when the fork is not yet active at the block
   (decode_stateless_input_ref, decode_chain_config). *)
PartsReadBack ==
    input.shaped =>
        /\ stage # "aborted"
        /\ stage = "exited" => ref # Refused
        /\ ref # Refused =>
             LET s == input.shape
                 lists_meant == s.witness \o <<s.transactions>>
             IN  /\ cursor # NoCursor /\ ssz_list_cursor_empty(cursor) =>
                      ItemLengths(popped) = ItemLengths(lists_meant[5 - Len(lists)])
                 /\ ref.payload.withdrawals.count = s.withdrawals
                 /\ <<ref.requests.deposits.len, ref.requests.withdrawal_requests.len,
                      ref.requests.consolidation_requests.len, ref.requests.builder_deposit_requests.len,
                      ref.requests.builder_exit_requests.len>> = s.requests
                 /\ \A i \in 1 .. Len(output) : output[i].success => Reached7(s.activation)
                 /\ stage = "verify" /\ cursor # NoCursor => Reached7(s.activation)
                 /\ stage = "exited" /\ Reached7(s.activation) => cursor # NoCursor

(* Reading a root back: the subtree at a place, the bytes of a chunk. *)
Child(t, side) == CHOOSE c \in {IF s[1] = "pair" THEN s[side] ELSE IF s[1] = "zero" /\ s[2] > 0 THEN <<"zero", s[2] - 1>>
                                ELSE <<"zero", 0>> : s \in {t}} : TRUE
LeftOf(t) == Child(t, 2)
RightOf(t) == Child(t, 3)
RECURSIVE At(_, _, _)
At(t, depth, index) ==
    IF depth = 0 THEN t
    ELSE At(Child(t, IF index < 2 ^ (depth - 1) THEN 2 ELSE 3), depth - 1, index % (2 ^ (depth - 1)))
BytesOf(t) == IF t[1] = "chunk" THEN t[2] ELSE [k \in 1 .. 32 |-> 0]
LengthOf(t) == NumberOf(BytesOf(RightOf(t)))

(* The bytes of a slice, in the chunks of a tree. *)
HoldsBytes(t, depth, s) ==
    \A i \in 0 .. ((s.len + 31) \div 32) - 1 :
        \A chunk \in {BytesOf(At(t, depth, i))} :
            \A k \in 0 .. 31 :
                chunk[k + 1] = IF 32 * i + k < s.len THEN stateless_input_slice_byte(s, 32 * i + k) ELSE 0
HoldsByteList(t, depth, s) == LengthOf(t) = s.len /\ HoldsBytes(LeftOf(t), depth, s)

(* The depth of the tree with room for n leaves, and the sum of some sizes. *)
DepthFor(n) == CHOOSE d \in 0 .. n : n <= 2 ^ d /\ (d = 0 \/ 2 ^ (d - 1) < n)
Total(sizes) == FoldLeft(LAMBDA a, b : a + b, 0, sizes)

(* A container whose fields have these sizes: each of the named fields is at
   its own place, with the bytes that lie behind those of the fields before. *)
HoldsFields(t, s, sizes, named) ==
    \A i \in named :
        HoldsBytes(At(t, DepthFor(Len(sizes)), i - 1), DepthFor((sizes[i] + 31) \div 32),
                   stateless_input_sub_slice(s, Total(SubSeq(sizes, 1, i - 1)), sizes[i]))

(* A list of containers, with room for 2^depth. *)
HoldsItems(t, s, depth, sizes) ==
    LET size == Total(sizes)
        count == s.len \div size
    IN  /\ LengthOf(t) = count
        /\ \A i \in 0 .. count - 1 :
              HoldsFields(At(LeftOf(t), depth, i), stateless_input_sub_slice(s, i * size, size), sizes, DOMAIN sizes)

(* The SSZ containers, by the sizes of their fields; 4 stands for the offset
   of a field of variable size. *)
PayloadSizes == <<32, 20, 32, 32, 256, 32, 8, 8, 8, 8, 4, 32, 32, 4, 4, 8, 8, 4, 8>>
VariableFields == {i \in DOMAIN PayloadSizes : PayloadSizes[i] = 4}
WithdrawalSizes == <<8, 8, 20, 8>>
RequestSizes ==
    [deposits |-> <<48, 32, 8, 96, 8>>, withdrawal_requests |-> <<20, 48, 8>>,
     consolidation_requests |-> <<20, 48, 48>>, builder_deposit_requests |-> <<48, 32, 8, 96>>,
     builder_exit_requests |-> <<20, 48>>]

(* The published root commits to the request: every field of the payload and
   of its withdrawals, the beacon root, the versioned hashes, every byte of
   the byte lists and of the transactions, every field of the five kinds of
   requests, and the lengths of all lists can be read back from it at the
   places SSZ gives them (the htr_ operators over merkleize, Subtree and
   mix_in_length). *)
RootNamesTheRequest ==
    \A o \in 1 .. Len(output) :
        output[o].root # <<"zero", 0>> =>
            LET root == output[o].root
                payload == At(root, 2, 0)
                transactions == At(payload, 5, 13)
                hashes == At(root, 2, 1)
                HoldsRequests(place, name, depth) ==
                    HoldsItems(At(At(root, 2, 3), 3, place), ref.requests[name], depth, RequestSizes[name])
            IN  /\ HoldsFields(payload, ref.execution_payload, PayloadSizes, DOMAIN PayloadSizes \ VariableFields)
                /\ HoldsByteList(At(payload, 5, 10), 0, ref.payload.extra_data)
                /\ HoldsByteList(At(payload, 5, 17), 25, ref.payload.block_access_list)
                /\ LengthOf(transactions) = ref.payload.transactions.count
                /\ \A i \in 0 .. ref.payload.transactions.count - 1 :
                      LET item == ssz_list_at(ref.payload.transactions, i)
                      IN  ~IsRefused(item) => HoldsByteList(At(LeftOf(transactions), 20, i), 25, item)
                /\ HoldsItems(At(payload, 5, 14), ref.payload.withdrawals.bytes, 4, WithdrawalSizes)
                /\ HoldsItems(hashes, ref.versioned_hashes, 12, <<32>>)
                /\ HoldsBytes(At(root, 2, 2), 0, stateless_input_sub_slice(ref.new_payload_request, 8, 32))
                /\ HoldsRequests(0, "deposits", 13) /\ HoldsRequests(1, "withdrawal_requests", 4)
                /\ HoldsRequests(2, "consolidation_requests", 1)
                /\ HoldsRequests(3, "builder_deposit_requests", 6) /\ HoldsRequests(4, "builder_exit_requests", 4)

(* The input is read once, whole and one way, and answered once: its parts
   and items tile it, the two readers of a list agree, an encoding reads back,
   and one verdict is published. *)
InputIsTiled == PartsTile /\ ItemsTileTheList /\ ReadersAgree /\ PartsReadBack /\ OneVerdict
=============================================================================
