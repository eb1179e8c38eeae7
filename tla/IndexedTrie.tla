---------------------------- MODULE IndexedTrie -----------------------------
(***************************************************************************)
(* The tries a block builds over its lists: transactions and withdrawals   *)
(* by random access, receipts from a store of records appended one per     *)
(* transaction and read back once (executor/payload, executor/receipts,    *)
(* lib/mpt/indexed).  The key of an index is its RLP encoding, so keys     *)
(* ascend as 1 .. 127, 0, 128 .. and the trie is built in that order.      *)
(***************************************************************************)
EXTENDS MerkleTrie

CONSTANTS
    MaxCount,      \* bound on the length of the list
    EntrySize      \* size of an encoded entry

ASSUME IndexedAssumption == MaxCount \in Nat /\ EntrySize \in Nat

VARIABLES
    store,   \* the entries so far: transactions, or receipt records
    root     \* the root over the store, for each way to read it

lists == <<store, root>>

----------------------------------------------------------------------------
byte_nibbles(b) == <<b \div 16, b % 16>>

rlp_index_encoded_width(value) ==
    IF value < 256 THEN 1 ELSE IF value < 65536 THEN 2 ELSE 3

trie_index_key(index) ==
    LET width == rlp_index_encoded_width(index)
    IN  IF index = 0 THEN byte_nibbles(128)
        ELSE IF index <= 127 THEN byte_nibbles(index)
        ELSE byte_nibbles(128 + width)
             \o FlattenSeq([i \in 1 .. width |->
                  byte_nibbles((index \div 256 ^ (width - i)) % 256)])

MutIndexAt(count, position) == position

rlp_index_at_position(count, position) ==
    LET single == Min({count - 1, 127})
    IN  CASE position < single -> position + 1
          [] position = single -> 0
          [] OTHER             -> position

(* The cursor: a position, and the records not read yet.  The record of    *)
(* index 0 is set aside when the cursor is made.                           *)
indexed_trie_begin(receipts) ==
    [position |-> 0, remaining |-> IF receipts /\ store # <<>> THEN Tail(store) ELSE <<>>]

cursor_key(cursor) == trie_index_key(rlp_index_at_position(Len(store), cursor.position))

indexed_trie_next_under(cursor, prefix) ==
    cursor.position < Len(store) /\ path_prefix_of(prefix, cursor_key(cursor))

Entry(e) == [kind |-> "value", size |-> EntrySize, id |-> e]

indexed_trie_pop(receipts, cursor) ==
    LET index  == rlp_index_at_position(Len(store), cursor.position)
        pops   == receipts /\ index # 0
        entry  == IF pops THEN Head(cursor.remaining) ELSE store[index + 1]
    IN  IF pops /\ cursor.remaining = <<>> THEN Built(FatalItem, [cursor EXCEPT !.position = Len(store)])
        ELSE Built(trie_leaf(trie_index_key(index), Entry(entry)),
                   [position  |-> cursor.position + 1,
                    remaining |-> IF pops THEN Tail(cursor.remaining) ELSE cursor.remaining])

RECURSIVE indexed_trie_subtree(_, _, _), indexed_children(_, _, _, _)
indexed_trie_subtree(receipts, cursor, prefix) ==
    IF ~indexed_trie_next_under(cursor, prefix) THEN Built(EmptySubtree, cursor)
    ELSE IF cursor_key(cursor) = prefix THEN indexed_trie_pop(receipts, cursor)
    ELSE indexed_children(receipts, trie_children_empty, cursor, prefix)

indexed_children(receipts, children, cursor, prefix) ==
    LET nib == cursor_key(cursor)[Len(prefix) + 1]
        sub == indexed_trie_subtree(receipts, cursor, Append(prefix, nib))
    IN  IF ~indexed_trie_next_under(cursor, prefix)
        THEN Built(trie_children_finish(prefix, children), cursor)
        ELSE indexed_children(receipts, trie_children_add(children, prefix, nib, sub.item),
                              sub.rest, prefix)

indexed_trie_root(receipts) ==
    LET built == indexed_trie_subtree(receipts, indexed_trie_begin(receipts), <<>>)
    IN  IF built.rest.position # Len(store) \/ built.rest.remaining # <<>> THEN FatalRef
        ELSE trie_subtree_root(built.item)

----------------------------------------------------------------------------
IndexedInit == store = <<>> /\ root = <<>>

(* receipt_store_append, or one more transaction of the payload. *)
receipt_store_append ==
    /\ Len(store) < MaxCount
    /\ root = <<>>
    /\ store' = Append(store, Len(store))
    /\ UNCHANGED <<node_db, root>>

(* receipt_store_root, transaction_trie_root and withdrawals_trie_root. *)
ComputeRoots ==
    /\ root = <<>>
    /\ root' = [receipts |-> indexed_trie_root(TRUE), transactions |-> indexed_trie_root(FALSE)]
    /\ UNCHANGED <<node_db, store>>

IndexedNext == receipt_store_append \/ ComputeRoots

----------------------------------------------------------------------------
(* The content of a trie as a set of pairs, read back from the nodes. *)
RECURSIVE Pairs(_, _)
Pairs(ref, prefix) ==
    LET decoded == decode_trie_node(ref.node)
    IN  IF ref.kind \in {"empty", "fatal"} THEN {}
        ELSE CASE decoded.kind = "leaf"      -> {<<prefix \o decoded.path, decoded.value>>}
               [] decoded.kind = "extension" -> Pairs(decoded.ref, prefix \o decoded.path)
               [] OTHER -> UNION {Pairs(decoded.refs[n], Append(prefix, n)) : n \in Nibbles}

(* Every list length, across the change of key width at 128 and 256, gives *)
(* a root in which index i leads to the i-th entry and nothing else: no    *)
(* internal assertion ends the block, no entry is lost or filed under      *)
(* another index, and the receipts read once from their store give the     *)
(* same trie as random access.                                             *)
IndexesFindTheirEntries ==
    root # <<>> =>
        /\ root.receipts = root.transactions
        /\ root.receipts # FatalRef
        /\ Pairs(root.receipts, <<>>) =
             {<<trie_index_key(i - 1), Entry(store[i])>> : i \in 1 .. Len(store)}
=============================================================================
