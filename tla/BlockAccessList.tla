-------------------------- MODULE BlockAccessList --------------------------
(***************************************************************************)
(* The EIP-7928 block access list: the tables in which the host records    *)
(* what a block touched, read and changed (HostContract.py, bal_...), the  *)
(* canonical event stream it makes of them, and the walk that compares the *)
(* list supplied with the payload against that stream                      *)
(* (executor/block_access_list.py).                                        *)
(*                                                                         *)
(* The tables are one record `b`.  A supplied list is modelled after RLP   *)
(* decoding, as nested sequences.  Addresses and slots are numbers: the    *)
(* host sorts them.                                                        *)
(***************************************************************************)
EXTENDS Naturals, Integers, Sequences, FiniteSets, SequencesExt

CONSTANTS
  Addr,     \* account addresses, a set of naturals
  Slot,     \* storage slots, a set of naturals
  ItemGas   \* block gas that pays for one item of the list

EmptyBal == [accounts |-> {}, reads |-> {}, storage |-> <<>>, balance |-> <<>>,
             nonce |-> <<>>, code |-> <<>>]

(* The table g with the entries of f in place of its own. *)
Over(f, g) ==
  [x \in DOMAIN f \union DOMAIN g |-> IF x \in DOMAIN f THEN f[x] ELSE g[x]]

bal_account_touch(b, a) == [b EXCEPT !.accounts = @ \union {a}]
bal_storage_read(b, a, s) == [bal_account_touch(b, a) EXCEPT !.reads = @ \union {<<a, s>>}]
(* The changes one merge records, by account, slot and index; a later      *)
(* change at the same index replaces the earlier one.                      *)
bal_storage_change(b, changes) ==
  [b EXCEPT !.accounts = @ \union {k[1] : k \in DOMAIN changes},
            !.storage = Over(changes, @)]
(* bal_balance_change, bal_nonce_change, bal_code_change *)
bal_field_change(b, field, changes) ==
  [b EXCEPT !.accounts = @ \union {k[1] : k \in DOMAIN changes},
            ![field] = Over(changes, @)]

----------------------------------------------------------------------------
(* The canonical stream: accounts, slots and indices in ascending order. *)

Ascending(S) == SetToSortSeq(S, <)
Gather(op(_), S) == LET order == Ascending(S) IN FlattenSeq([n \in DOMAIN order |-> op(order[n])])

StorageKeys(b, a) == {k \in DOMAIN b.storage : k[1] = a}
ChangedSlots(b, a) == {k[2] : k \in StorageKeys(b, a)}
SlotIndices(b, a, s) == {i \in {k[3] : k \in StorageKeys(b, a)} : <<a, s, i>> \in DOMAIN b.storage}
FieldIndices(b, a, field) == {i \in {k[2] : k \in DOMAIN b[field]} : <<a, i>> \in DOMAIN b[field]}
ReadOnlySlots(b, a) == {s \in Slot : <<a, s>> \in b.reads} \ ChangedSlots(b, a)

StorageEvents(b, a) ==
  LET slot(s) == LET change(i) == <<[event |-> "storage", slot |-> s, index |-> i, value |-> b.storage[<<a, s, i>>]]>>
                 IN Gather(change, SlotIndices(b, a, s))
  IN Gather(slot, ChangedSlots(b, a))
ReadEvents(b, a) ==
  LET read(s) == <<[event |-> "read", slot |-> s]>> IN Gather(read, ReadOnlySlots(b, a))
FieldEvents(b, a, field) ==
  LET change(i) == <<[event |-> field, index |-> i, value |-> b[field][<<a, i>>]]>>
  IN Gather(change, FieldIndices(b, a, field))

bal_prepare_iter(b) ==
  LET account(a) == <<[event |-> "account", addr |-> a]>>
                      \o StorageEvents(b, a) \o ReadEvents(b, a)
                      \o FieldEvents(b, a, "balance") \o FieldEvents(b, a, "nonce")
                      \o FieldEvents(b, a, "code") \o <<[event |-> "end"]>>
  IN Gather(account, b.accounts)

----------------------------------------------------------------------------
(* The walk over a supplied list.  It draws one event for every value it   *)
(* decodes and compares the two; a mismatch, a missing event or an event   *)
(* left over is fatal.  So the walk accepts exactly when the values, in    *)
(* the order they are decoded, are the stream.                             *)

bal_validate_storage_changes(changes) ==
  LET slot(c) == [n \in 1 .. Len(c.changes) |->
                    [event |-> "storage", slot |-> c.slot,
                     index |-> c.changes[n].index, value |-> c.changes[n].value]]
  IN FlattenSeq([n \in 1 .. Len(changes) |-> slot(changes[n])])
bal_validate_storage_reads(reads) ==
  [n \in 1 .. Len(reads) |-> [event |-> "read", slot |-> reads[n]]]
(* bal_validate_balance_changes, bal_validate_nonce_changes, bal_validate_code_changes *)
bal_validate_field_changes(field, pairs) ==
  [n \in 1 .. Len(pairs) |-> [event |-> field, index |-> pairs[n].index, value |-> pairs[n].value]]

bal_validate_account(entry) ==
  <<[event |-> "account", addr |-> entry.addr]>>
    \o bal_validate_storage_changes(entry.storage)
    \o bal_validate_storage_reads(entry.reads)
    \o bal_validate_field_changes("balance", entry.balance)
    \o bal_validate_field_changes("nonce", entry.nonce)
    \o bal_validate_field_changes("code", entry.code)
    \o <<[event |-> "end"]>>

NoEmptySlot(list) ==
  \A n \in 1 .. Len(list) : \A m \in 1 .. Len(list[n].storage) : list[n].storage[m].changes # <<>>

BalItems(list) ==
  FoldLeft(LAMBDA acc, e : acc + 1 + Len(e.storage) + Len(e.reads), 0, list)

(* The verdict on a list when the host's stream is `events`. *)
WalkVerdict(events, list, gas_limit) ==
  IF \/ ~NoEmptySlot(list)
     \/ FlattenSeq([n \in 1 .. Len(list) |-> bal_validate_account(list[n])]) # events
  THEN "InvalidBlockAccessList"
  ELSE IF ItemGas * BalItems(list) > gas_limit THEN "BlockAccessListTooLarge"
  ELSE "accepted"

validate_block_access_list(b, list, gas_limit) == WalkVerdict(bal_prepare_iter(b), list, gas_limit)

----------------------------------------------------------------------------
(* What the list should be: one entry per account, one per changed slot,   *)
(* everything in ascending order, a slot read and changed only changed.    *)
Reconstructed(b) ==
  LET pairs(a, field) ==
        LET S == Ascending(FieldIndices(b, a, field))
        IN [n \in 1 .. Len(S) |-> [index |-> S[n], value |-> b[field][<<a, S[n]>>]]]
      slot(a, s) ==
        LET S == Ascending(SlotIndices(b, a, s))
        IN [slot |-> s, changes |-> [n \in 1 .. Len(S) |-> [index |-> S[n], value |-> b.storage[<<a, s, S[n]>>]]]]
      account(a) ==
        LET C == Ascending(ChangedSlots(b, a))
        IN [addr |-> a, storage |-> [n \in 1 .. Len(C) |-> slot(a, C[n])],
            reads |-> Ascending(ReadOnlySlots(b, a)), balance |-> pairs(a, "balance"),
            nonce |-> pairs(a, "nonce"), code |-> pairs(a, "code")]
      A == Ascending(b.accounts)
  IN [n \in 1 .. Len(A) |-> account(A[n])]
=============================================================================
