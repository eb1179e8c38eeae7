---------------------------- MODULE AccountStore ----------------------------
(***************************************************************************)
(* The account and storage tables of the executable host                   *)
(* (extractions/python/contract/HostContract.py): a block overlay over the *)
(* parent state, a transaction overlay over that, generations that hide    *)
(* every row of a cleared account at once, and the journal that undoes the *)
(* transaction overlay.                                                    *)
(*                                                                         *)
(* The host is one record `d`; an operation is an operator from a host to  *)
(* the next one.  Python dictionaries iterate and pop in insertion order,  *)
(* so the two transaction tables are sequences of rows.                    *)
(***************************************************************************)
EXTENDS BlockAccessList

CONSTANT NoCode  \* the hash of empty code

NoPrior == 0
InitialGeneration == 0

EmptyAccount ==
  [nonce |-> 0, balance |-> 0, code |-> NoCode, present |-> FALSE,
   created |-> FALSE, selfdestructed |-> FALSE, storage_cleared |-> TRUE]

HostInit ==
  [account_block |-> <<>>, account_tx |-> <<>>, storage_block |-> <<>>, storage_tx |-> <<>>,
   generations |-> [a \in Addr |-> InitialGeneration], next_generation |-> InitialGeneration,
   journal |-> <<>>, bal |-> EmptyBal]

Listed(rows, key) == \E i \in DOMAIN rows : rows[i].key = key
RowOf(rows, key) == CHOOSE i \in DOMAIN rows : rows[i].key = key
Pop(rows) == SubSeq(rows, 1, Len(rows) - 1)

Push(d, tag, key, prior) ==
  [d EXCEPT !.journal = Append(@, [tag |-> tag, key |-> key, prior |-> prior])]
PushIf(d, changed, tag, key, prior) == IF changed THEN Push(d, tag, key, prior) ELSE d

----------------------------------------------------------------------------
(* The account overlay. *)

acct_tx_found(d, a) == Listed(d.account_tx, a)
acct_tx_get(d, a) == d.account_tx[RowOf(d.account_tx, a)].current
SetRow(rows, a, acc) == [rows EXCEPT ![RowOf(rows, a)].current = acc]
SetAccount(d, a, acc) == [d EXCEPT !.account_tx = SetRow(@, a, acc)]
acct_block_found(d, a) == a \in DOMAIN d.account_block
acct_block_get(d, a) == d.account_block[a].curr

acct_block_cache(d, a, acc) ==
  IF acct_block_found(d, a) THEN d
  ELSE [d EXCEPT !.account_block = Over(@, [x \in {a} |-> [curr |-> acc, orig |-> acc]])]

(* The rows that one merge writes. *)
acct_block_write(d, rows) == [d EXCEPT !.account_block = Over(rows, @)]

(* A new row is listed at the end of the table, and that is all its undo   *)
(* needs to know; a field of an existing row is journalled when it differs,*)
(* the cleared flag never.                                                 *)
AccountFields == {"balance", "nonce", "code", "present", "created", "selfdestructed"}

ListAccount(d, a, acc) ==
  LET row == [key |-> a, current |-> acc, original |-> acct_block_get(d, a)]
  IN [Push(d, "AccountListed", a, NoPrior) EXCEPT !.account_tx = Append(@, row)]

SetField(d, a, field, value) ==
  LET acc == acct_tx_get(d, a)
  IN IF acc[field] = value THEN d
     ELSE SetAccount(Push(d, field, a, acc[field]), a, [acc EXCEPT ![field] = value])

SetCleared(d, a, cleared) ==
  SetAccount(d, a, [acct_tx_get(d, a) EXCEPT !.storage_cleared = cleared])

acct_tx_update(d, a, acc) ==
  LET set(e, field) == SetField(e, a, field, acc[field])
      info(e) == set(set(set(e, "balance"), "nonce"), "code")
      flags(e) == set(set(set(e, "present"), "created"), "selfdestructed")
  IN IF ~acct_tx_found(d, a) THEN ListAccount(d, a, acc)
     ELSE flags(info(SetCleared(d, a, acc.storage_cleared)))

_account_tx_required(d, a) ==
  IF acct_tx_found(d, a) THEN d ELSE ListAccount(d, a, acct_block_get(d, a))

(* acct_tx_set_balance, acct_tx_set_nonce, acct_tx_set_code_hash *)
acct_tx_set(d, a, field, value) == SetField(_account_tx_required(d, a), a, field, value)

----------------------------------------------------------------------------
(* The storage overlay. *)

StorageLive(d, row) == row.generation = d.generations[row.key[1]]

ListSlot(d, k, row) ==
  [Push(d, "StorageListed", k[1], NoPrior) EXCEPT !.storage_tx = Append(@, row)]
SetSlot(d, k, row) == [d EXCEPT !.storage_tx[RowOf(d.storage_tx, k)] = row]

storage_tx_update(d, k, curr, orig) ==
  LET g == d.generations[k[1]]
      old == d.storage_tx[RowOf(d.storage_tx, k)]
      e == PushIf(d, old.curr # curr, "StorageValue", k, old.curr)
      f == PushIf(e, old.generation # g, "RowGeneration", k, old.generation)
  IN IF Listed(d.storage_tx, k)
     THEN SetSlot(f, k, [old EXCEPT !.curr = curr, !.generation = g])
     ELSE ListSlot(d, k, [key |-> k, curr |-> curr, orig |-> orig, generation |-> g])

storage_tx_hit(d, k) ==
  Listed(d.storage_tx, k) /\ StorageLive(d, d.storage_tx[RowOf(d.storage_tx, k)])
storage_tx_get(d, k) ==
  LET row == d.storage_tx[RowOf(d.storage_tx, k)] IN [curr |-> row.curr, orig |-> row.orig]
storage_tx_cleared(d, k) == d.generations[k[1]] # InitialGeneration

storage_tx_clear(d, a) ==
  [Push(d, "AccountGeneration", a, d.generations[a]) EXCEPT
     !.next_generation = @ + 1,
     !.generations[a] = d.next_generation + 1]

storage_tx_reset(d) ==
  [d EXCEPT !.storage_tx = <<>>,
            !.generations = [a \in Addr |-> InitialGeneration],
            !.next_generation = InitialGeneration]

acct_tx_reset(d) == [d EXCEPT !.account_tx = <<>>]

storage_has_writes(d, a) ==
  \/ \E i \in 1 .. Len(d.storage_tx) :
       LET row == d.storage_tx[i] IN row.key[1] = a /\ StorageLive(d, row) /\ row.curr # 0
  \/ /\ d.generations[a] = InitialGeneration
     /\ \E k \in DOMAIN d.storage_block : k[1] = a /\ d.storage_block[k].curr # 0

storage_block_cache(d, k, value) ==
  IF k \in DOMAIN d.storage_block THEN d
  ELSE [d EXCEPT !.storage_block = Over(@, [x \in {k} |-> [curr |-> value, orig |-> value]])]

(* The values that one merge writes: a row the block has keeps its `orig`. *)
storage_block_put(d, values) ==
  LET orig(k) == IF k \in DOMAIN d.storage_block THEN d.storage_block[k].orig ELSE values[k].orig
      rows == [k \in DOMAIN values |-> [curr |-> values[k].curr, orig |-> orig(k)]]
  IN [d EXCEPT !.storage_block = Over(rows, @)]

storage_block_clear(d, accounts) ==
  [d EXCEPT !.storage_block = Restrict(@, {k \in DOMAIN @ : k[1] \notin accounts})]

----------------------------------------------------------------------------
(* The journal. *)

state_journal_checkpoint(d) == Push(d, "Checkpointed", NoPrior, NoPrior)
state_journal_commit(d) == Push(d, "Committed", NoPrior, NoPrior)
state_journal_reset(d) == [d EXCEPT !.journal = <<>>]

(* Scanning back, a commit closes the checkpoint it pairs with: the newest *)
(* checkpoint that is met when none is to be skipped is the open one.      *)
_open_checkpoint_index(j) ==
  LET scan[at \in (0 .. Len(j)) \X Nat] ==
        LET i == at[1]
            closed == at[2]
        IN IF i = 0 THEN 0
           ELSE IF j[i].tag = "Committed" THEN scan[<<i - 1, closed + 1>>]
           ELSE IF j[i].tag # "Checkpointed" THEN scan[<<i - 1, closed>>]
           ELSE IF closed = 0 THEN i
           ELSE scan[<<i - 1, closed - 1>>]
  IN scan[<<Len(j), 0>>]

(* A storage listing names only its account: the row it removes is the     *)
(* newest one of that account.                                             *)
RemoveNewest(rows, a) ==
  RemoveAt(rows, Max({i \in DOMAIN rows : rows[i].key[1] = a}))

(* The cleared flag is not journalled by itself: it follows the generation. *)
RestoreGeneration(d, a, prior) ==
  LET back == [d EXCEPT !.generations[a] = prior]
      original == d.account_tx[RowOf(d.account_tx, a)].original
  IN IF acct_tx_found(d, a) THEN SetCleared(back, a, original.storage_cleared \/ prior # InitialGeneration)
     ELSE back

_journal_restore(d, e) ==
  LET row == d.storage_tx[RowOf(d.storage_tx, e.key)]
  IN CASE e.tag \in AccountFields ->
            SetAccount(d, e.key, [acct_tx_get(d, e.key) EXCEPT ![e.tag] = e.prior])
       [] e.tag = "AccountListed" -> [d EXCEPT !.account_tx = Pop(@)]
       [] e.tag = "StorageListed" -> [d EXCEPT !.storage_tx = RemoveNewest(@, e.key)]
       [] e.tag = "StorageValue" -> SetSlot(d, e.key, [row EXCEPT !.curr = e.prior])
       [] e.tag = "RowGeneration" -> SetSlot(d, e.key, [row EXCEPT !.generation = e.prior])
       [] e.tag = "AccountGeneration" -> RestoreGeneration(d, e.key, e.prior)
       [] OTHER -> d

(* The host when the entries behind the n-th are undone, the newest first. *)
Undone(d) ==
  LET back[n \in 0 .. Len(d.journal)] ==
        IF n = Len(d.journal) THEN d ELSE _journal_restore(back[n + 1], d.journal[n + 1])
  IN back

UndoTo(d, marker) == [Undone(d)[marker] EXCEPT !.journal = SubSeq(d.journal, 1, marker - 1)]

state_journal_revert(d) == UndoTo(d, _open_checkpoint_index(d.journal))
=============================================================================
