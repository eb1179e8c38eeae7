----------------------------- MODULE WorldState -----------------------------
(***************************************************************************)
(* The kernel's account and storage operations (kernel/accounts.py,        *)
(* storage.py, code.py, selfdestruct.py, lifecycle.py) over the host's     *)
(* tables, driven the way the interpreter, the transaction processor and   *)
(* the block executor drive them: frames that call, create, store and      *)
(* self-destruct, that commit or revert, in transactions that merge into   *)
(* the block, between the system calls and the withdrawals of the block.   *)
(*                                                                         *)
(* Gas, warm sets, logs and code bytes are in other modules; here a frame  *)
(* may do any of its operations that balances and depth allow.             *)
(***************************************************************************)
EXTENDS AccountStore

CONSTANTS
  Blocks,      \* the block to execute at each fork: what depends on the fork
  Parent,      \* the parent state: address -> account with its storage
  Sender,      \* the externally owned account that sends the transactions
  Creatable,   \* addresses a CREATE may derive
  Code,        \* hashes of non-empty code
  Value,       \* what calls and creations may transfer
  Fee,         \* what a transaction costs its sender
  Reward,      \* what a withdrawal brings
  MaxDepth     \* bound on the nesting of frames

ASSUME ForkAssumption == DOMAIN Blocks \subseteq {"Shanghai", "Cancun", "Amsterdam"}
ASSUME BlockAssumption ==
  \A f \in DOMAIN Blocks :
    /\ Blocks[f].coinbase \in Addr /\ Blocks[f].withdrawers \subseteq Addr
    /\ Blocks[f].start \in Seq(Addr) /\ Blocks[f].end \in Seq(Addr)
    /\ Blocks[f].transactions \in Nat
ASSUME AddressAssumption == Sender \in Addr /\ Creatable \subseteq Addr
ASSUME AmountAssumption == Value \subseteq Nat /\ Fee \in Nat /\ Reward \in Nat

(* The parent state has no empty account (EIP-161): the witness has a leaf *)
(* for the accounts with a nonce, a balance or code, and storage for those.*)
ASSUME ParentAssumption ==
  /\ DOMAIN Parent = Addr
  /\ \A a \in Addr :
       /\ Parent[a].nonce \in Nat /\ Parent[a].balance \in Nat
       /\ Parent[a].present \in BOOLEAN
       /\ Parent[a].storage \in [Slot -> Nat]
       /\ Parent[a].present <=> (Parent[a].nonce # 0 \/ Parent[a].balance # 0 \/ Parent[a].code # NoCode)
       /\ ~Parent[a].present => \A s \in Slot : Parent[a].storage[s] = 0

(* Storage without a nonce or code is what a creation left that deployed   *)
(* nothing: nobody has the key of such an account.                         *)
ASSUME SenderAssumption ==
  \/ Parent[Sender].nonce # 0 \/ Parent[Sender].code # NoCode
  \/ \A s \in Slot : Parent[Sender].storage[s] = 0

VARIABLES
  fork,    \* the fork of the profile
  db,      \* the host
  frames,  \* the frames being executed, outermost first: kind and account
  phase,   \* where the block is: "start", "body", "end", "done" or "invalid"
  calls,   \* system calls still to be made in this phase
  tx,      \* transactions begun
  steps    \* instructions the current transaction may still execute

control == <<phase, calls, tx>>
vars == <<fork, db, frames, control, steps>>

Coinbase == Blocks[fork].coinbase         \* who receives the fees
StartCalls == Blocks[fork].start          \* system contracts called first
EndCalls == Blocks[fork].end              \* request contracts called last
Word == Blocks[fork].words                \* storage values, zero included
Withdrawers == Blocks[fork].withdrawers   \* whom the withdrawals may name
MaxTx == Blocks[fork].transactions        \* bound on the transactions
MaxSteps == Blocks[fork].steps            \* bound on a transaction's instructions

----------------------------------------------------------------------------
(* Accounts. *)

Anchored(a) == \E s \in Slot : Parent[a].storage[s] # 0

stateless_account_by_key(a) ==
  IF ~Parent[a].present THEN EmptyAccount
  ELSE [nonce |-> Parent[a].nonce, balance |-> Parent[a].balance, code |-> Parent[a].code,
        present |-> TRUE, created |-> FALSE, selfdestructed |-> FALSE, storage_cleared |-> FALSE]

account_info_empty(acc) == acc.nonce = 0 /\ acc.balance = 0 /\ acc.code = NoCode

account_changed(c, o) ==
  \/ c.nonce # o.nonce \/ c.balance # o.balance \/ c.code # o.code
  \/ c.present # o.present \/ c.storage_cleared # o.storage_cleared

account_clear_storage(acc) == [acc EXCEPT !.storage_cleared = TRUE]
account_delete(acc) ==
  [acc EXCEPT !.nonce = 0, !.balance = 0, !.code = NoCode, !.present = FALSE, !.storage_cleared = TRUE]
account_set_info(acc, info) ==
  IF account_info_empty(info) THEN account_delete(acc) ELSE [info EXCEPT !.present = TRUE]
account_clear_preserving_balance(acc) ==
  LET cleared == account_clear_storage(acc)
  IN account_set_info(cleared, [cleared EXCEPT !.nonce = 0, !.code = NoCode])

(* What k_aload returns, and the host it leaves. *)
Loaded(d, a) ==
  IF acct_tx_found(d, a) THEN acct_tx_get(d, a)
  ELSE IF acct_block_found(d, a) THEN acct_block_get(d, a)
  ELSE stateless_account_by_key(a)
k_aload(d, a) ==
  IF acct_tx_found(d, a) THEN d
  ELSE acct_block_cache([d EXCEPT !.bal = bal_account_touch(@, a)], a, stateless_account_by_key(a))

store_account_info(d, a, acc, info) ==
  LET next == account_set_info(acc, info)
      e == IF account_info_empty(info) THEN storage_tx_clear(d, a) ELSE d
      set(f, field) == IF next[field] # acc[field] THEN acct_tx_set(f, a, field, next[field]) ELSE f
  IN IF next.present # acc.present \/ next.storage_cleared # acc.storage_cleared
     THEN acct_tx_update(e, a, next)
     ELSE set(set(set(e, "balance"), "nonce"), "code")

k_account_occupied(d, a) ==
  LET acc == Loaded(d, a)
  IN \/ acc.code # NoCode \/ acc.nonce # 0
     \/ ~acc.storage_cleared /\ Anchored(a)
     \/ storage_has_writes(d, a)

k_transfer(d, src, dst, v) ==
  LET e == k_aload(k_aload(d, src), dst)
      src_acc == Loaded(e, src)
      dst_acc == Loaded(e, dst)
      paid == store_account_info(e, src, src_acc, [src_acc EXCEPT !.balance = @ - v])
  IN IF v = 0 \/ src = dst THEN e
     ELSE store_account_info(paid, dst, dst_acc, [dst_acc EXCEPT !.balance = @ + v])

k_bump_nonce(d, a) ==
  LET e == k_aload(d, a)
      cur == Loaded(e, a)
  IN store_account_info(e, a, cur, [cur EXCEPT !.nonce = @ + 1])

(* k_add_balance and, with a negative amount, k_sub_balance *)
k_add_balance(d, a, v) ==
  LET e == k_aload(d, a)
      cur == Loaded(e, a)
  IN IF v = 0 THEN e ELSE store_account_info(e, a, cur, [cur EXCEPT !.balance = @ + v])

k_clear_storage(d, a) ==
  LET e == k_aload(d, a)
  IN acct_tx_update(storage_tx_clear(e, a), a, account_clear_storage(Loaded(e, a)))

k_mark_created(d, a) ==
  LET e == k_aload(d, a) IN acct_tx_update(e, a, [Loaded(e, a) EXCEPT !.created = TRUE])

k_selfdestruct(d, a) ==
  LET e == k_aload(d, a)
  IN IF Loaded(e, a).selfdestructed THEN e
     ELSE acct_tx_update(e, a, [Loaded(e, a) EXCEPT !.selfdestructed = TRUE])

k_zero_balance(d, a) ==
  LET e == k_aload(d, a)
      cur == Loaded(e, a)
  IN IF cur.balance = 0 THEN e ELSE store_account_info(e, a, cur, [cur EXCEPT !.balance = 0])

(* k_deploy_code, k_set_delegation and k_clear_code write the code hash. *)
k_deploy_code(d, a, c) ==
  LET e == k_aload(d, a)
      cur == Loaded(e, a)
  IN store_account_info(e, a, cur, [cur EXCEPT !.code = c])

----------------------------------------------------------------------------
(* Storage. *)

(* What k_sload returns, and the host it leaves. *)
SlotValue(d, k) ==
  IF storage_tx_hit(d, k) THEN storage_tx_get(d, k)
  ELSE LET v == IF storage_tx_cleared(d, k) THEN 0
                ELSE IF k \in DOMAIN d.storage_block THEN d.storage_block[k].curr
                ELSE IF Loaded(d, k[1]).storage_cleared THEN 0
                ELSE Parent[k[1]].storage[k[2]]
       IN [curr |-> v, orig |-> v]

(* Mutant: a read that the overlays answer is not recorded. *)
MutSloadUnrecorded(d, a, s) ==
  LET k == <<a, s>>
      e == [d EXCEPT !.bal = bal_storage_read(@, a, s)]
  IN IF storage_tx_hit(d, k) \/ storage_tx_cleared(d, k) \/ k \in DOMAIN d.storage_block THEN d
     ELSE storage_block_cache(k_aload(e, a), k, SlotValue(d, k).curr)

k_sload(d, a, s) ==
  LET k == <<a, s>>
      e == [d EXCEPT !.bal = bal_storage_read(@, a, s)]
  IN IF storage_tx_hit(d, k) THEN d
     ELSE IF storage_tx_cleared(d, k) \/ k \in DOMAIN d.storage_block THEN e
     ELSE storage_block_cache(k_aload(e, a), k, SlotValue(d, k).curr)

k_sstore(d, a, s, v, orig) == storage_tx_update(d, <<a, s>>, v, orig)

(* SSTORE reads the entry, and writes it only when the value changes. *)
execute_sstore(d, a, s, v) ==
  LET e == k_sload(d, a, s)
      entry == SlotValue(e, <<a, s>>)
  IN IF entry.curr = v THEN e ELSE k_sstore(e, a, s, v, entry.orig)

----------------------------------------------------------------------------
(* The end of a transaction. *)

k_tx_reset(d) == state_journal_reset(acct_tx_reset(storage_tx_reset(d)))

delete_only_created == fork \in {"Cancun", "Amsterdam"}
preserve_selfdestruct_balance == fork = "Amsterdam"

account_deleted_at_tx_end(acc) == acc.selfdestructed /\ (~delete_only_created \/ acc.created)

(* Mutant: only accounts that become cleared drop their block rows. *)
MutBlockClears(deleted, curr, orig) == curr.storage_cleared /\ ~orig.storage_cleared

BlockClears(deleted, curr, orig) == deleted \/ (curr.storage_cleared /\ ~orig.storage_cleared)

(* What becomes of the account of a row, its flags aside. *)
MergedAccount(row) ==
  IF ~account_deleted_at_tx_end(row.current) THEN row.current
  ELSE IF preserve_selfdestruct_balance THEN account_clear_preserving_balance(row.current)
  ELSE account_delete(row.current)
SettledAccount(row) == [MergedAccount(row) EXCEPT !.created = FALSE, !.selfdestructed = FALSE]

AccountRow(d, a) == d.account_tx[RowOf(d.account_tx, a)]
Touched(d) == {a \in Addr : acct_tx_found(d, a)}
Deleted(d) == {a \in Touched(d) : account_deleted_at_tx_end(AccountRow(d, a).current)}
Dropped(d) == {a \in Touched(d) :
  BlockClears(a \in Deleted(d), MergedAccount(AccountRow(d, a)), AccountRow(d, a).original)}
Changed(d) == {a \in Touched(d) :
  account_changed(SettledAccount(AccountRow(d, a)), AccountRow(d, a).original)}

(* The changes of a field that the access list records. *)
FieldChanges(d, index, field) ==
  LET changed == {a \in Touched(d) :
        MergedAccount(AccountRow(d, a))[field] # AccountRow(d, a).original[field]}
  IN [k \in changed \X {index} |-> MergedAccount(AccountRow(d, k[1]))[field]]

(* Mutant: the code an account is given is not recorded. *)
MutRecordChanges(d, index) ==
  bal_field_change(bal_field_change(d.bal, "nonce", FieldChanges(d, index, "nonce")),
                   "balance", FieldChanges(d, index, "balance"))

RecordChanges(d, index) ==
  LET noted(b, field) == bal_field_change(b, field, FieldChanges(d, index, field))
  IN noted(noted(noted(d.bal, "nonce"), "balance"), "code")

(* The account rows are merged one after the other; their keys differ, so  *)
(* the order does not matter.  An account whose storage goes takes its     *)
(* block rows along.  (What clearing the storage of a deleted account adds *)
(* to the journal lies outside every scope and is left out.)               *)
MergeAccounts(d, index) ==
  LET rows == [a \in Changed(d) |-> [curr |-> SettledAccount(AccountRow(d, a)),
                                     orig |-> AccountRow(d, a).original]]
  IN acct_block_write(storage_block_clear([d EXCEPT !.bal = RecordChanges(d, index)], Dropped(d)), rows)

(* Then the storage rows that live on: e is the host with its accounts     *)
(* merged, in which the rows of a deleted account have died.               *)
Written(d, e) ==
  {k \in Addr \X Slot :
     /\ storage_tx_hit(d, k) /\ k[1] \notin Deleted(d)
     /\ acct_block_found(e, k[1]) /\ acct_block_get(e, k[1]).present
     /\ storage_tx_get(d, k).curr # storage_tx_get(d, k).orig}

MergeStorage(d, e, index) ==
  LET changes == [k \in {<<k[1], k[2], index>> : k \in Written(d, e)} |->
                    storage_tx_get(d, <<k[1], k[2]>>).curr]
  IN storage_block_put([e EXCEPT !.bal = bal_storage_change(@, changes)],
                       [k \in Written(d, e) |-> storage_tx_get(d, k)])

k_tx_merge(d, index) ==
  acct_tx_reset(storage_tx_reset(MergeStorage(d, MergeAccounts(d, index), index)))

----------------------------------------------------------------------------
(* Frames. *)

InFrame == frames # <<>>
Self == frames[Len(frames)].addr
Balance(a) == Loaded(db, a).balance
Index == CASE phase = "start" -> 0 [] phase = "body" -> tx [] OTHER -> MaxTx + 1

(* The instructions of a frame: it runs the code of its account, or the    *)
(* initcode of the account it creates.                                     *)
Running ==
  /\ InFrame /\ steps > 0
  /\ frames[Len(frames)].kind = "create" \/ Loaded(db, Self).code # NoCode

Instruction(d) ==
  /\ db' = d
  /\ steps' = steps - 1
  /\ UNCHANGED control

Sload(s) ==
  /\ Running
  /\ Instruction(k_sload(db, Self, s))
  /\ UNCHANGED frames

Sstore(s, v) ==
  /\ Running
  /\ Instruction(execute_sstore(db, Self, s, v))
  /\ UNCHANGED frames

(* suspend_frame checkpoints before the transfer, so that the failure of   *)
(* the callee takes the transfer back.                                     *)
Call(target, v) ==
  /\ Running /\ Len(frames) < MaxDepth /\ Balance(Self) >= v
  /\ Instruction(k_transfer(state_journal_checkpoint(db), Self, target, v))
  /\ frames' = Append(frames, [kind |-> "call", addr |-> target])

EnterCreate(d, creator, target, v) ==
  k_transfer(k_bump_nonce(k_clear_storage(k_mark_created(d, target), target), target),
             creator, target, v)

(* The creator's nonce outlives the failure of what it creates. *)
CreateScope(d, creator, target, v) ==
  EnterCreate(state_journal_checkpoint(k_bump_nonce(d, creator)), creator, target, v)

Create(target, v) ==
  /\ Running /\ Len(frames) < MaxDepth /\ Balance(Self) >= v
  /\ LET d == k_aload(db, target)
     IN IF k_account_occupied(d, target)
        THEN Instruction(k_bump_nonce(d, Self)) /\ UNCHANGED frames
        ELSE /\ Instruction(CreateScope(d, Self, target, v))
             /\ frames' = Append(frames, [kind |-> "create", addr |-> target])

(* What SELFDESTRUCT does before it halts the frame. *)
execute_selfdestruct(d, a, beneficiary) ==
  LET e == k_transfer(k_aload(d, beneficiary), a, beneficiary, Loaded(d, a).balance)
      marked == IF fork = "Amsterdam" THEN k_selfdestruct(e, a)
                ELSE k_selfdestruct(k_zero_balance(e, a), a)
  IN IF delete_only_created /\ ~Loaded(e, a).created THEN e ELSE marked

----------------------------------------------------------------------------
(* The end of a frame, and of the transaction or system call it may be the *)
(* outermost frame of.                                                     *)

Deployed(d, frame, c) == IF frame.kind = "create" THEN k_deploy_code(d, frame.addr, c) ELSE d

Settled(d) == k_add_balance(k_add_balance(d, Sender, 0), Coinbase, Fee)

(* At Amsterdam a transaction has a scope around that of its frame. *)
EndOfOutermost(d) ==
  IF phase # "body" THEN k_tx_merge(d, Index)
  ELSE k_tx_merge(Settled(IF fork = "Amsterdam" THEN state_journal_commit(d) ELSE d), Index)

Leave(d) ==
  /\ db' = IF Len(frames) = 1 THEN EndOfOutermost(d) ELSE d
  /\ frames' = Pop(frames)

Return(c) ==
  /\ InFrame
  /\ frames[Len(frames)].kind = "create" \/ c = NoCode
  /\ Leave(state_journal_commit(Deployed(db, frames[Len(frames)], c)))
  /\ UNCHANGED <<control, steps>>

(* A request contract that fails makes the block invalid. *)
Revert ==
  /\ InFrame
  /\ Leave(state_journal_revert(db))
  /\ phase' = IF phase = "end" /\ Len(frames) = 1 THEN "invalid" ELSE phase
  /\ UNCHANGED <<calls, tx, steps>>

Selfdestruct(beneficiary) ==
  /\ Running
  /\ Leave(state_journal_commit(Deployed(execute_selfdestruct(db, Self, beneficiary),
                                         frames[Len(frames)], NoCode)))
  /\ steps' = steps - 1
  /\ UNCHANGED control

----------------------------------------------------------------------------
(* Transactions and the block. *)

Idle == frames = <<>>

Upfront(d) ==
  LET paid == k_bump_nonce(k_add_balance(k_aload(k_tx_reset(d), Sender), Sender, 0 - Fee), Sender)
  IN state_journal_checkpoint(IF fork = "Amsterdam" THEN state_journal_checkpoint(paid) ELSE paid)

BeginTransaction ==
  /\ Idle /\ phase = "body" /\ tx < MaxTx
  /\ tx' = tx + 1
  /\ steps' = MaxSteps
  /\ UNCHANGED <<phase, calls>>

CallTransaction(to, v) ==
  /\ BeginTransaction /\ Balance(Sender) >= Fee + v
  /\ db' = k_transfer(k_aload(Upfront(db), to), Sender, to, v)
  /\ frames' = <<[kind |-> "call", addr |-> to]>>

CreateTransaction(to, v) ==
  /\ BeginTransaction /\ Balance(Sender) >= Fee + v
  /\ LET d == k_aload(Upfront(db), to)
     IN IF k_account_occupied(d, to)
        THEN LET failed == state_journal_revert(d)
             IN /\ db' = k_tx_merge(Settled(IF fork = "Amsterdam" THEN state_journal_commit(failed)
                                             ELSE failed), tx + 1)
                /\ frames' = <<>>
        ELSE /\ db' = EnterCreate(d, Sender, to, v)
             /\ frames' = <<[kind |-> "create", addr |-> to]>>

(* system_call skips a contract without code, system_call_checked does not *)
(* forgive one.                                                            *)
SystemCall ==
  /\ Idle /\ phase \in {"start", "end"} /\ calls # <<>>
  /\ calls' = Tail(calls)
  /\ LET d == k_aload(db, Head(calls))
     IN IF Loaded(d, Head(calls)).code = NoCode
        THEN /\ db' = d
             /\ phase' = IF phase = "end" THEN "invalid" ELSE phase
             /\ UNCHANGED <<frames, steps>>
        ELSE /\ db' = state_journal_checkpoint(d)
             /\ frames' = <<[kind |-> "call", addr |-> Head(calls)]>>
             /\ steps' = MaxSteps
             /\ UNCHANGED phase
  /\ UNCHANGED tx

BeginBody ==
  /\ Idle /\ phase = "start" /\ calls = <<>>
  /\ phase' = "body"
  /\ UNCHANGED <<db, frames, calls, tx, steps>>

(* After the last transaction: the withdrawals, merged under their index. *)
apply_block_end_state(a) ==
  /\ Idle /\ phase = "body" /\ tx = MaxTx
  /\ phase' = "end"
  /\ calls' = EndCalls
  /\ db' = k_tx_merge(k_add_balance(db, a, Reward), MaxTx + 1)
  /\ UNCHANGED <<frames, tx, steps>>

EndBlock ==
  /\ Idle /\ phase = "end" /\ calls = <<>>
  /\ phase' = "done"
  /\ UNCHANGED <<db, frames, calls, tx, steps>>

Init ==
  /\ fork \in DOMAIN Blocks
  /\ db = HostInit
  /\ frames = <<>>
  /\ phase = "start"
  /\ calls = StartCalls
  /\ tx = 0
  /\ steps = 0

Step ==
  \/ \E s \in Slot : Sload(s) \/ \E v \in Word : Sstore(s, v)
  \/ \E a \in Addr, v \in Value : Call(a, v)
  \/ \E a \in Creatable, v \in Value : Create(a, v)
  \/ \E c \in Code \union {NoCode} : Return(c)
  \/ Revert
  \/ \E a \in Addr : Selfdestruct(a)
  \/ \E a \in Addr, v \in Value : CallTransaction(a, v)
  \/ \E a \in Creatable, v \in Value : CreateTransaction(a, v)
  \/ SystemCall
  \/ BeginBody
  \/ \E a \in Withdrawers : apply_block_end_state(a)
  \/ EndBlock

Next == Step /\ UNCHANGED fork

Spec == Init /\ [][Next]_vars
=============================================================================
