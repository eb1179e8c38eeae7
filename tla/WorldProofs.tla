---------------------------- MODULE WorldProofs ----------------------------
(***************************************************************************)
(* WorldLedger proved for every parent state, fork, block and amount: the  *)
(* tables implement Ledger, the state root sees the world, and the access  *)
(* list names what was accessed and replays to the world.                  *)
(*                                                                         *)
(* First the merge of a transaction into the block, then the state root,   *)
(* then the frames and their scopes, then one lemma for each action, and   *)
(* last what the merges record in the access list.                         *)
(***************************************************************************)
EXTENDS OverlayLemmas

-----------------------------------------------------------------------------
(* The accounts a transaction leaves.                                      *)
SameFields(p, q) ==
  /\ p.nonce = q.nonce /\ p.balance = q.balance /\ p.code = q.code
  /\ p.present = q.present /\ p.storage_cleared = q.storage_cleared

(* The flags go.                                                           *)
LEMMA FlagsGone ==
  ASSUME NEW acc, IsAccount(acc), NEW no \in BOOLEAN
  PROVE  LET y == [acc EXCEPT !.created = no, !.selfdestructed = no]
         IN IsAccount(y) /\ SameFields(y, acc) /\ y.created = no /\ y.selfdestructed = no
<1> DEFINE y1 == [acc EXCEPT !.created = no]
           y2 == [y1 EXCEPT !.selfdestructed = no]
<1>1. IsAccount(y1) /\ SameFields(y1, acc) /\ y1.created = no
  BY WithCreated DEF SameFields
<1> HIDE DEF y1
<1>2. IsAccount(y2) /\ SameFields(y2, y1) /\ y2.created = y1.created /\ y2.selfdestructed = no
  BY <1>1, WithDoomed DEF SameFields
<1>3. [acc EXCEPT !.created = no, !.selfdestructed = no] = y2
  BY Zenon DEF y1
<1> HIDE DEF y2
<1>4. SameFields(y2, acc) /\ y2.created = no
  BY <1>1, <1>2 DEF SameFields
<1> QED BY <1>2, <1>3, <1>4, Zenon

(* The same for the flags k_tx_merge clears.                               *)
LEMMA WithoutFlags ==
  ASSUME NEW acc, IsAccount(acc)
  PROVE  LET y == [acc EXCEPT !.created = FALSE, !.selfdestructed = FALSE]
         IN IsAccount(y) /\ SameFields(y, acc) /\ y.created = FALSE /\ y.selfdestructed = FALSE
<1>1. FALSE \in BOOLEAN
  OBVIOUS
<1> QED BY <1>1, FlagsGone, Zenon

(* What account_clear_preserving_balance leaves.                           *)
LEMMA KeptBalance ==
  ASSUME NEW acc, IsAccount(acc)
  PROVE  LET y == account_clear_preserving_balance(acc)
         IN Fine(y) /\ y.nonce = 0 /\ y.code = NoCode /\ y.balance = acc.balance /\ y.storage_cleared = TRUE
<1> DEFINE c == account_clear_storage(acc)
           n == [c EXCEPT !.nonce = 0]
           i == [n EXCEPT !.code = NoCode]
           p == [i EXCEPT !.present = TRUE]
           y == account_clear_preserving_balance(acc)
<1>1. IsAccount(c) /\ c.balance = acc.balance /\ c.storage_cleared = TRUE
  BY BecomesCleared DEF account_clear_storage
<1>2. y = IF account_info_empty(i) THEN account_delete(c) ELSE p
  <2>1. i = [c EXCEPT !.nonce = 0, !.code = NoCode]
    BY Zenon
  <2> HIDE DEF c
  <2> QED BY <2>1, Zenon DEF account_clear_preserving_balance, account_set_info, c
<1> HIDE DEF c, y
<1>3. IsAccount(n) /\ n.nonce = 0 /\ n.balance = acc.balance /\ n.storage_cleared = TRUE
  <2>1. \A k \in Nat : LET u == [c EXCEPT !.nonce = k]
                       IN /\ IsAccount(u) /\ u.nonce = k /\ u.balance = c.balance
                          /\ u.storage_cleared = c.storage_cleared
    BY <1>1, WithNumber
  <2>2. 0 \in Nat
    OBVIOUS
  <2> QED BY <1>1, <2>1, <2>2, Zenon
<1> HIDE DEF n
<1>4. /\ IsAccount(i) /\ i.nonce = 0 /\ i.code = NoCode /\ i.balance = acc.balance
      /\ i.storage_cleared = TRUE
  BY <1>3, WithCode
<1> HIDE DEF i
<1>5. CASE account_info_empty(i)
  <2>1. y = account_delete(c) /\ acc.balance = 0
    BY <1>2, <1>4, <1>5 DEF account_info_empty
  <2>2. LET z == account_delete(c)
        IN Fine(z) /\ z.nonce = 0 /\ z.code = NoCode /\ z.balance = 0 /\ z.storage_cleared = TRUE
    BY <1>1, Deletion
  <2> QED BY <2>1, <2>2, Zenon DEF y
<1>6. CASE ~account_info_empty(i)
  <2>1. y = p
    BY <1>2, <1>6
  <2>2. /\ IsAccount(p) /\ p.present = TRUE /\ p.nonce = 0 /\ p.code = NoCode /\ p.balance = acc.balance
        /\ p.storage_cleared = TRUE
    BY <1>4, BecomesPresent
  <2> HIDE DEF p
  <2>3. ~account_info_empty(p)
    BY <1>4, <1>6, <2>2 DEF account_info_empty
  <2>4. Fine(p)
    BY <2>2, <2>3 DEF Fine
  <2> QED BY <2>1, <2>2, <2>4, Zenon DEF y
<1> QED BY <1>5, <1>6

(* The account a row is settled as.                                        *)
LEMMA RowSettled ==
  ASSUME NEW row, Fine(row.current)
  PROVE  LET c == row.current
             s == SettledAccount(row)
         IN /\ Fine(s) /\ ~s.created /\ ~s.selfdestructed /\ SameFields(s, MergedAccount(row))
            /\ ~account_deleted_at_tx_end(c) => SameFields(s, c)
            /\ account_deleted_at_tx_end(c) =>
                 /\ s.nonce = 0 /\ s.code = NoCode /\ s.storage_cleared = TRUE
                 /\ s.balance = IF fork = "Amsterdam" THEN c.balance ELSE 0
<1> DEFINE c == row.current
           m == MergedAccount(row)
           s == SettledAccount(row)
           gone == account_deleted_at_tx_end(c)
<1>1. IsAccount(c)
  BY DEF Fine
<1>2. /\ Fine(m)
      /\ ~gone => m = c
      /\ gone => /\ m.nonce = 0 /\ m.code = NoCode /\ m.storage_cleared = TRUE
                 /\ m.balance = IF fork = "Amsterdam" THEN c.balance ELSE 0
  <2>1. CASE ~gone
    BY <2>1 DEF MergedAccount
  <2>2. CASE gone /\ fork = "Amsterdam"
    <3>1. m = account_clear_preserving_balance(c)
      BY <2>2 DEF MergedAccount, preserve_selfdestruct_balance
    <3> HIDE DEF m, c, gone
    <3>2. Fine(m) /\ m.nonce = 0 /\ m.code = NoCode /\ m.balance = c.balance /\ m.storage_cleared = TRUE
      BY <1>1, <3>1, KeptBalance, Zenon
    <3> QED BY <2>2, <3>2
  <2>3. CASE gone /\ fork # "Amsterdam"
    <3>1. m = account_delete(c)
      BY <2>3 DEF MergedAccount, preserve_selfdestruct_balance
    <3> HIDE DEF m, c, gone
    <3>2. Fine(m) /\ m.nonce = 0 /\ m.code = NoCode /\ m.balance = 0 /\ m.storage_cleared = TRUE
      BY <1>1, <3>1, Deletion, Zenon
    <3> QED BY <2>3, <3>2
  <2> QED BY <2>1, <2>2, <2>3
<1>3. s = [m EXCEPT !.created = FALSE, !.selfdestructed = FALSE]
  BY Zenon DEF SettledAccount
<1> HIDE DEF m, s, c, gone
<1>4. IsAccount(s) /\ SameFields(s, m) /\ s.created = FALSE /\ s.selfdestructed = FALSE
  <2>1. IsAccount(m)
    BY <1>2 DEF Fine
  <2> QED BY <1>3, <2>1, WithoutFlags, Zenon
<1>5. Fine(s)
  BY <1>2, <1>4 DEF Fine, SameFields, account_info_empty
<1>6. ~s.created /\ ~s.selfdestructed
  BY <1>4
<1>7. ~gone => SameFields(s, c)
  BY <1>2, <1>4 DEF SameFields
<1>8. gone => /\ s.nonce = 0 /\ s.code = NoCode /\ s.storage_cleared = TRUE
              /\ s.balance = IF fork = "Amsterdam" THEN c.balance ELSE 0
  BY <1>2, <1>4 DEF SameFields
<1> QED BY <1>4, <1>5, <1>6, <1>7, <1>8 DEF m, s, c, gone

-----------------------------------------------------------------------------
(* The host a transaction leaves.                                          *)
LEMMA BalFields ==
  ASSUME NEW b, IsBal(b), NEW v
  PROVE  IsBal([b EXCEPT !.nonce = v]) /\ IsBal([b EXCEPT !.balance = v]) /\ IsBal([b EXCEPT !.code = v])
BY DEF IsBal

(* The access list with another table for a field.                         *)
LEMMA BalSet ==
  ASSUME NEW b, IsBal(b), NEW v, NEW field \in {"nonce", "balance", "code"}
  PROVE  IsBal([b EXCEPT ![field] = v])
BY BalFields

(* What bal_field_change records of one field.                             *)
LEMMA FieldNoted ==
  ASSUME NEW b, IsBal(b), NEW field \in {"nonce", "balance", "code"}, NEW changes
  PROVE  LET c == bal_field_change(b, field, changes)
         IN /\ IsBal(c) /\ b.accounts \subseteq c.accounts /\ c.reads = b.reads /\ c.storage = b.storage
            /\ c[field] = Over(changes, b[field])
            /\ \A f \in {"nonce", "balance", "code"} : f # field => c[f] = b[f]
<1> DEFINE A == b.accounts \union {k[1] : k \in DOMAIN changes}
           V == Over(changes, b[field])
           b1 == [b EXCEPT !.accounts = A]
           c == [b1 EXCEPT ![field] = V]
           F == {"nonce", "balance", "code"}
<1>1. bal_field_change(b, field, changes) = c
  BY Zenon DEF bal_field_change
<1>2. b.accounts \subseteq A
  OBVIOUS
<1> HIDE DEF A
<1>3. /\ IsBal(b1) /\ b1.accounts = A /\ b1.reads = b.reads /\ b1.storage = b.storage
      /\ \A f \in F : b1[f] = b[f]
  BY DEF IsBal
<1> HIDE DEF b1, V
<1>4. IsBal(b1)
  BY <1>3
<1>5. IsBal(c)
  BY <1>4, BalSet, Zenon
<1>6. c.accounts = b1.accounts /\ c.reads = b1.reads /\ c.storage = b1.storage /\ c[field] = V
  <2>1. CASE field = "nonce"
    BY <1>4, <2>1 DEF IsBal
  <2>2. CASE field = "balance"
    BY <1>4, <2>2 DEF IsBal
  <2>3. CASE field = "code"
    BY <1>4, <2>3 DEF IsBal
  <2> QED BY <2>1, <2>2, <2>3
<1>7. /\ field # "nonce" => c["nonce"] = b1["nonce"]
      /\ field # "balance" => c["balance"] = b1["balance"]
      /\ field # "code" => c["code"] = b1["code"]
  <2>1. CASE field = "nonce"
    BY <1>4, <2>1 DEF IsBal
  <2>2. CASE field = "balance"
    BY <1>4, <2>2 DEF IsBal
  <2>3. CASE field = "code"
    BY <1>4, <2>3 DEF IsBal
  <2> QED BY <2>1, <2>2, <2>3
<1> HIDE DEF c
<1>8. \A f \in F : f # field => c[f] = b[f]
  BY <1>3, <1>7
<1> QED BY <1>1, <1>2, <1>3, <1>5, <1>6, <1>8 DEF V

(* What a merge records of the three fields.                               *)
LEMMA ChangesRecorded ==
  ASSUME NEW d, IsBal(d.bal), NEW i
  PROVE  LET c == RecordChanges(d, i)
         IN /\ IsBal(c) /\ d.bal.accounts \subseteq c.accounts /\ c.reads = d.bal.reads
            /\ c.storage = d.bal.storage
            /\ \A f \in {"nonce", "balance", "code"} : c[f] = Over(FieldChanges(d, i, f), d.bal[f])
<1> DEFINE b1 == bal_field_change(d.bal, "nonce", FieldChanges(d, i, "nonce"))
           b2 == bal_field_change(b1, "balance", FieldChanges(d, i, "balance"))
           b3 == bal_field_change(b2, "code", FieldChanges(d, i, "code"))
           F == {"nonce", "balance", "code"}
           noted(b, c, g) ==
             /\ IsBal(c) /\ b.accounts \subseteq c.accounts /\ c.reads = b.reads /\ c.storage = b.storage
             /\ c[g] = Over(FieldChanges(d, i, g), b[g])
             /\ \A f \in F : f # g => c[f] = b[f]
<1>1. "nonce" \in F /\ "balance" \in F /\ "code" \in F
  OBVIOUS
<1>2. \A b, f : IsBal(b) /\ f \in F => noted(b, bal_field_change(b, f, FieldChanges(d, i, f)), f)
  BY FieldNoted
<1>3. noted(d.bal, b1, "nonce")
  BY <1>1, <1>2
<1> HIDE DEF b1
<1>4. noted(b1, b2, "balance")
  BY <1>1, <1>2, <1>3
<1> HIDE DEF b2
<1>5. noted(b2, b3, "code")
  BY <1>1, <1>2, <1>4
<1>6. RecordChanges(d, i) = b3
  BY DEF RecordChanges, b1, b2
<1> HIDE DEF b3
<1>7. \A f \in F : b3[f] = Over(FieldChanges(d, i, f), d.bal[f])
  BY <1>3, <1>4, <1>5
<1> QED BY <1>3, <1>4, <1>5, <1>6, <1>7

(* A host with another table.                                              *)
BalHost(d, v) == [d EXCEPT !.bal = v]
AccountHost(d, v) == [d EXCEPT !.account_block = v]
StorageHost(d, v) == [d EXCEPT !.storage_block = v]

(* A host with one table replaced.                                         *)
LEMMA HostWith ==
  ASSUME NEW d, IsHost(d), NEW v
  PROVE  /\ LET y == BalHost(d, v)
            IN /\ IsHost(y) /\ y.bal = v /\ SameTables(d, y) /\ y.journal = d.journal
               /\ y.next_generation = d.next_generation
               /\ y.account_block = d.account_block /\ y.storage_block = d.storage_block
         /\ LET y == AccountHost(d, v)
            IN /\ IsHost(y) /\ y.bal = d.bal /\ SameTables(d, y) /\ y.journal = d.journal
               /\ y.next_generation = d.next_generation
               /\ y.account_block = v /\ y.storage_block = d.storage_block
         /\ LET y == StorageHost(d, v)
            IN /\ IsHost(y) /\ y.bal = d.bal /\ SameTables(d, y) /\ y.journal = d.journal
               /\ y.next_generation = d.next_generation
               /\ y.account_block = d.account_block /\ y.storage_block = v
BY DEF IsHost, SameTables, BalHost, AccountHost, StorageHost

MergedRows(d) == [a \in Changed(d) |-> [curr |-> SettledAccount(AccountRow(d, a)),
                                        orig |-> AccountRow(d, a).original]]
KeptRows(d) == {k \in DOMAIN d.storage_block : k[1] \notin Dropped(d)}

(* What MergeAccounts does to each table.                                  *)
LEMMA AccountsMerged ==
  ASSUME NEW d, IsHost(d), NEW i
  PROVE  LET e == MergeAccounts(d, i)
         IN /\ IsHost(e) /\ e.account_block = Over(MergedRows(d), d.account_block)
            /\ e.storage_block = Restrict(d.storage_block, KeptRows(d))
            /\ SameTables(d, e) /\ e.journal = d.journal /\ e.bal = RecordChanges(d, i)
<1> DEFINE B == RecordChanges(d, i)
           d1 == BalHost(d, B)
           R == Restrict(d.storage_block, KeptRows(d))
           d2 == StorageHost(d1, R)
           A == Over(MergedRows(d), d.account_block)
           d3 == AccountHost(d2, A)
<1>1. /\ IsHost(d1) /\ d1.bal = B /\ SameTables(d, d1) /\ d1.journal = d.journal
      /\ d1.account_block = d.account_block /\ d1.storage_block = d.storage_block
  <2> HIDE DEF B
  <2> QED BY HostWith
<1>2. storage_block_clear(d1, Dropped(d)) = d2
  <2> HIDE DEF d1
  <2> QED BY <1>1 DEF storage_block_clear, KeptRows, StorageHost
<1> HIDE DEF d1
<1>3. /\ IsHost(d2) /\ d2.bal = B /\ SameTables(d, d2) /\ d2.journal = d.journal
      /\ d2.account_block = d.account_block /\ d2.storage_block = R
  <2> HIDE DEF R
  <2> QED BY <1>1, HostWith DEF SameTables
<1>4. acct_block_write(d2, MergedRows(d)) = d3
  <2> HIDE DEF d2
  <2> QED BY <1>3 DEF acct_block_write, AccountHost
<1>5. MergeAccounts(d, i) = d3
  <2>1. MergeAccounts(d, i) = acct_block_write(storage_block_clear(d1, Dropped(d)), MergedRows(d))
    BY Zenon DEF MergeAccounts, MergedRows, BalHost, d1
  <2> QED BY <1>2, <1>4, <2>1
<1> HIDE DEF d2
<1>6. /\ IsHost(d3) /\ d3.bal = B /\ SameTables(d, d3) /\ d3.journal = d.journal
      /\ d3.account_block = A /\ d3.storage_block = R
  <2> HIDE DEF A
  <2> QED BY <1>3, HostWith DEF SameTables
<1> HIDE DEF d3
<1> QED BY <1>5, <1>6

(* What bal_storage_change records.                                        *)
LEMMA StorageNoted ==
  ASSUME NEW b, IsBal(b), NEW changes
  PROVE  LET c == bal_storage_change(b, changes)
         IN /\ IsBal(c) /\ b.accounts \subseteq c.accounts /\ c.reads = b.reads
            /\ c.storage = Over(changes, b.storage)
            /\ c.balance = b.balance /\ c.nonce = b.nonce /\ c.code = b.code
<1> DEFINE A == b.accounts \union {k[1] : k \in DOMAIN changes}
           V == Over(changes, b.storage)
           c == [b EXCEPT !.accounts = A, !.storage = V]
<1>1. bal_storage_change(b, changes) = c
  BY Zenon DEF bal_storage_change
<1>2. b.accounts \subseteq A
  OBVIOUS
<1> HIDE DEF A, V
<1> DEFINE b1 == [b EXCEPT !.accounts = A]
           b2 == [b1 EXCEPT !.storage = V]
<1>4. c = b2
  BY Zenon
<1>5. /\ IsBal(b1) /\ b1.accounts = A /\ b1.reads = b.reads /\ b1.storage = b.storage
      /\ b1.balance = b.balance /\ b1.nonce = b.nonce /\ b1.code = b.code
  BY DEF IsBal
<1> HIDE DEF b1
<1>6. /\ IsBal(b2) /\ b2.accounts = b1.accounts /\ b2.reads = b1.reads /\ b2.storage = V
      /\ b2.balance = b1.balance /\ b2.nonce = b1.nonce /\ b2.code = b1.code
  BY <1>5 DEF IsBal
<1> HIDE DEF b2
<1>3. /\ IsBal(c) /\ c.accounts = A /\ c.reads = b.reads /\ c.storage = V
      /\ c.balance = b.balance /\ c.nonce = b.nonce /\ c.code = b.code
  BY <1>4, <1>5, <1>6
<1> HIDE DEF c
<1> QED BY <1>1, <1>2, <1>3 DEF V

(* The values of the transaction that reach the block.                     *)
WrittenRows(d, e) ==
  [k \in Written(d, e) |->
     [curr |-> storage_tx_get(d, k).curr,
      orig |-> IF k \in DOMAIN e.storage_block THEN e.storage_block[k].orig
               ELSE storage_tx_get(d, k).orig]]

(* The transaction overlay goes.                                           *)
LEMMA TablesReset ==
  ASSUME NEW x, IsHost(x)
  PROVE  LET y == acct_tx_reset(storage_tx_reset(x))
         IN /\ IsHost(y) /\ y.account_tx = <<>> /\ y.storage_tx = <<>>
            /\ y.generations = [a \in Addr |-> 0] /\ y.next_generation = 0
            /\ y.journal = x.journal /\ y.bal = x.bal
            /\ y.account_block = x.account_block /\ y.storage_block = x.storage_block
<1> DEFINE G == [a \in Addr |-> 0]
           E == <<>>
           z == [x EXCEPT !.storage_tx = E, !.generations = G, !.next_generation = 0]
           y == [z EXCEPT !.account_tx = E]
<1>1. storage_tx_reset(x) = z
  BY Zenon DEF storage_tx_reset, InitialGeneration
<1>2. acct_tx_reset(z) = y
  BY Zenon DEF acct_tx_reset
<1>3. acct_tx_reset(storage_tx_reset(x)) = y
  BY <1>1, <1>2, Zenon
<1> HIDE DEF G, E
<1> DEFINE z1 == [x EXCEPT !.storage_tx = E]
           z2 == [z1 EXCEPT !.generations = G]
           z3 == [z2 EXCEPT !.next_generation = 0]
<1>4. z = z3
  BY Zenon
<1>5. /\ IsHost(z1) /\ z1.storage_tx = E /\ z1.journal = x.journal /\ z1.bal = x.bal
      /\ z1.account_block = x.account_block /\ z1.storage_block = x.storage_block
  BY DEF IsHost
<1> HIDE DEF z1
<1>6. /\ IsHost(z2) /\ z2.storage_tx = E /\ z2.journal = x.journal /\ z2.bal = x.bal
      /\ z2.generations = G
      /\ z2.account_block = x.account_block /\ z2.storage_block = x.storage_block
  BY <1>5 DEF IsHost
<1> HIDE DEF z2
<1>7. /\ IsHost(z3) /\ z3.storage_tx = E /\ z3.journal = x.journal /\ z3.bal = x.bal
      /\ z3.generations = G /\ z3.next_generation = 0
      /\ z3.account_block = x.account_block /\ z3.storage_block = x.storage_block
  BY <1>6 DEF IsHost
<1> HIDE DEF z3, z
<1>8. y = [z3 EXCEPT !.account_tx = E]
  BY <1>4, Zenon
<1> HIDE DEF y
<1>9. /\ IsHost(y) /\ y.storage_tx = E /\ y.journal = x.journal /\ y.bal = x.bal
      /\ y.generations = G /\ y.next_generation = 0 /\ y.account_tx = E
      /\ y.account_block = x.account_block /\ y.storage_block = x.storage_block
  BY <1>7, <1>8 DEF IsHost
<1> QED BY <1>3, <1>9, Zenon DEF E, G

(* The slots that a merge lists as changed.                                *)
StorageChanges(d, e, i) ==
  [k \in {<<k[1], k[2], i>> : k \in Written(d, e)} |-> storage_tx_get(d, <<k[1], k[2]>>).curr]

(* y is the host after the transaction of d, whose accounts e has merged.  *)
Merges(d, e, y) ==
  /\ IsHost(y) /\ y.account_tx = <<>> /\ y.storage_tx = <<>>
  /\ y.generations = [a \in Addr |-> 0] /\ y.next_generation = 0
  /\ y.journal = d.journal
  /\ y.account_block = Over(MergedRows(d), d.account_block)
  /\ e.account_block = y.account_block
  /\ e.storage_block = Restrict(d.storage_block, KeptRows(d))
  /\ y.storage_block = Over(WrittenRows(d, e), e.storage_block)
  /\ IsBal(y.bal) /\ d.bal.accounts \subseteq y.bal.accounts /\ y.bal.reads = d.bal.reads

(* k_tx_merge, table by table.                                             *)
LEMMA MergeIs ==
  ASSUME NEW d, IsHost(d), IsBal(d.bal), NEW i
  PROVE  LET e == MergeAccounts(d, i)
             y == k_tx_merge(d, i)
         IN /\ Merges(d, e, y)
            /\ y.bal = bal_storage_change(RecordChanges(d, i), StorageChanges(d, e, i))
<1> DEFINE e == MergeAccounts(d, i)
           y == k_tx_merge(d, i)
           B == bal_storage_change(e.bal, StorageChanges(d, e, i))
           f == BalHost(e, B)
           g == StorageHost(f, Over(WrittenRows(d, e), f.storage_block))
           r == acct_tx_reset(storage_tx_reset(g))
           M == MergeStorage(d, e, i)
<1>1. /\ IsHost(e) /\ e.account_block = Over(MergedRows(d), d.account_block)
      /\ e.storage_block = Restrict(d.storage_block, KeptRows(d))
      /\ SameTables(d, e) /\ e.journal = d.journal /\ e.bal = RecordChanges(d, i)
  BY AccountsMerged
<1>2. M = storage_block_put(f, [k \in Written(d, e) |-> storage_tx_get(d, k)])
  BY Zenon DEF MergeStorage, BalHost, StorageChanges
<1>a. y = acct_tx_reset(storage_tx_reset(M))
  BY Zenon DEF k_tx_merge
<1> HIDE DEF M
<1>3. IsBal(e.bal) /\ d.bal.accounts \subseteq e.bal.accounts /\ e.bal.reads = d.bal.reads
  BY <1>1, ChangesRecorded
<1> HIDE DEF e
<1>4. IsBal(B) /\ e.bal.accounts \subseteq B.accounts /\ B.reads = e.bal.reads
  BY <1>3, StorageNoted, Zenon
<1> HIDE DEF B
<1>5. /\ IsHost(f) /\ f.bal = B /\ f.journal = e.journal
      /\ f.account_block = e.account_block /\ f.storage_block = e.storage_block
  BY <1>1, HostWith
<1> HIDE DEF f
<1>6. M = StorageHost(f, Over([k \in Written(d, e) |->
            [curr |-> storage_tx_get(d, k).curr,
             orig |-> IF k \in DOMAIN f.storage_block THEN f.storage_block[k].orig
                      ELSE storage_tx_get(d, k).orig]], f.storage_block))
  <2> DEFINE V == [k \in Written(d, e) |-> storage_tx_get(d, k)]
             orig(k) == IF k \in DOMAIN f.storage_block THEN f.storage_block[k].orig ELSE V[k].orig
             rows == [k \in DOMAIN V |-> [curr |-> V[k].curr, orig |-> orig(k)]]
             R == [k \in Written(d, e) |->
                    [curr |-> storage_tx_get(d, k).curr,
                     orig |-> IF k \in DOMAIN f.storage_block THEN f.storage_block[k].orig
                              ELSE storage_tx_get(d, k).orig]]
  <2>1. rows = R
    BY Zenon
  <2>2. storage_block_put(f, V) = [f EXCEPT !.storage_block = Over(rows, f.storage_block)]
    BY Zenon DEF storage_block_put
  <2> HIDE DEF rows, R
  <2>3. storage_block_put(f, V) = StorageHost(f, Over(R, f.storage_block))
    BY <2>1, <2>2, Zenon DEF StorageHost
  <2> QED BY <1>2, <2>3, Zenon DEF R
<1>7. M = g
  BY <1>5, <1>6, Zenon DEF WrittenRows
<1>8. /\ IsHost(g) /\ g.bal = f.bal /\ g.journal = f.journal
      /\ g.account_block = f.account_block /\ g.storage_block = Over(WrittenRows(d, e), f.storage_block)
  BY <1>5, HostWith
<1> HIDE DEF g
<1>9. /\ IsHost(r) /\ r.account_tx = <<>> /\ r.storage_tx = <<>>
      /\ r.generations = [a \in Addr |-> 0] /\ r.next_generation = 0
      /\ r.journal = g.journal /\ r.bal = g.bal
      /\ r.account_block = g.account_block /\ r.storage_block = g.storage_block
  BY <1>8, TablesReset, Zenon
<1> HIDE DEF r
<1>10. y = r
  BY <1>a, <1>7, Zenon DEF r
<1> HIDE DEF y
<1>11. B = bal_storage_change(RecordChanges(d, i), StorageChanges(d, e, i))
  BY <1>1, Zenon DEF B
<1>12. d.bal.accounts \subseteq B.accounts /\ B.reads = d.bal.reads
  BY <1>3, <1>4
<1> DEFINE S == Over(WrittenRows(d, e), e.storage_block)
<1>13. r.storage_block = S
  BY <1>5, <1>8, <1>9, Zenon
<1>14. r.bal = B
  BY <1>5, <1>8, <1>9, Zenon
<1>15. r.journal = d.journal /\ r.account_block = e.account_block
  BY <1>1, <1>5, <1>8, <1>9, Zenon
<1> HIDE DEF S
<1>16. /\ IsHost(y) /\ y.account_tx = <<>> /\ y.storage_tx = <<>>
      /\ y.generations = [a \in Addr |-> 0] /\ y.next_generation = 0
      /\ y.journal = d.journal /\ y.account_block = e.account_block
      /\ y.storage_block = S /\ y.bal = B
  BY <1>9, <1>10, <1>13, <1>14, <1>15, Zenon
<1>17. IsBal(y.bal) /\ d.bal.accounts \subseteq y.bal.accounts /\ y.bal.reads = d.bal.reads
  BY <1>4, <1>12, <1>16, Zenon
<1>18. y.account_block = Over(MergedRows(d), d.account_block)
  BY <1>1, <1>16, Zenon
<1>19. y.bal = bal_storage_change(RecordChanges(d, i), StorageChanges(d, e, i))
  BY <1>11, <1>16, Zenon
<1> QED BY <1>1, <1>16, <1>17, <1>18, <1>19 DEF y, e, S, Merges

-----------------------------------------------------------------------------
(* The accounts of the merged host.                                        *)
LEMMA TxRow ==
  ASSUME NEW d, Overlaid(d), NEW a \in Addr
  PROVE  /\ a \in Touched(d) <=> acct_tx_found(d, a)
         /\ a \in Touched(d) => /\ AccountRow(d, a).current = Loaded(d, a)
                                /\ AccountRow(d, a).original = Base(d, a)
                                /\ a \in DOMAIN d.account_block
<1>1. a \in Touched(d) <=> acct_tx_found(d, a)
  BY DEF Touched
<1>2. AccountOK(d, a) /\ Loaded(d, a) = IF acct_tx_found(d, a) THEN acct_tx_get(d, a) ELSE Base(d, a)
  BY LoadedIs DEF Overlaid
<1> QED BY <1>1, <1>2 DEF AccountOK, AccountRow, acct_tx_get, Orig, acct_block_found

(* The account that a transaction leaves at a.                             *)
After(d, a) == IF a \in Touched(d) THEN SettledAccount(AccountRow(d, a)) ELSE Base(d, a)
Gone(d, a) == account_deleted_at_tx_end(Loaded(d, a))

(* The account a transaction leaves: that of its row, unless the row is    *)
(* one to delete, without its flags.                                       *)
LEMMA AfterIs ==
  ASSUME NEW d, Overlaid(d), NEW a \in Addr
  PROVE  /\ Fine(After(d, a)) /\ ~After(d, a).created /\ ~After(d, a).selfdestructed
         /\ ~Gone(d, a) => SameFields(After(d, a), Loaded(d, a))
         /\ Gone(d, a) =>
              /\ After(d, a).nonce = 0 /\ After(d, a).code = NoCode /\ After(d, a).storage_cleared = TRUE
              /\ After(d, a).balance = IF fork = "Amsterdam" THEN Loaded(d, a).balance ELSE 0
         /\ a \in Deleted(d) <=> Gone(d, a)
         /\ a \in Dropped(d) <=>
              \/ Gone(d, a)
              \/ a \in Touched(d) /\ After(d, a).storage_cleared /\ ~Base(d, a).storage_cleared
         /\ Gone(d, a) => a \in Touched(d)
<1> DEFINE row == AccountRow(d, a)
<1>1. CASE a \in Touched(d)
  <2>1. row.current = Loaded(d, a) /\ row.original = Base(d, a) /\ After(d, a) = SettledAccount(row)
    BY <1>1, TxRow DEF After
  <2>2. Fine(Loaded(d, a))
    BY LoadedIs
  <2> HIDE DEF row
  <2>3. LET c == row.current
            s == SettledAccount(row)
        IN /\ Fine(s) /\ ~s.created /\ ~s.selfdestructed /\ SameFields(s, MergedAccount(row))
           /\ ~account_deleted_at_tx_end(c) => SameFields(s, c)
           /\ account_deleted_at_tx_end(c) =>
                 /\ s.nonce = 0 /\ s.code = NoCode /\ s.storage_cleared = TRUE
                 /\ s.balance = IF fork = "Amsterdam" THEN c.balance ELSE 0
    BY <2>1, <2>2, RowSettled, Zenon
  <2>4. a \in Deleted(d) <=> Gone(d, a)
    BY <1>1, <2>1 DEF Deleted, Gone, row
  <2>5. a \in Dropped(d) <=> BlockClears(a \in Deleted(d), MergedAccount(row), row.original)
    BY <1>1, Zenon DEF Dropped, row
  <2>6. MergedAccount(row).storage_cleared = After(d, a).storage_cleared
    BY <2>1, <2>3, Zenon DEF SameFields
  <2>7. a \in Dropped(d) <=> Gone(d, a) \/ (After(d, a).storage_cleared /\ ~Base(d, a).storage_cleared)
    BY <2>1, <2>4, <2>5, <2>6 DEF BlockClears
  <2> QED BY <1>1, <2>1, <2>3, <2>4, <2>7 DEF Gone
<1>2. CASE a \notin Touched(d)
  <2>1. After(d, a) = Base(d, a) /\ Loaded(d, a) = Base(d, a)
    BY <1>2, TxRow, LoadedIs DEF After
  <2>2. Fine(Base(d, a)) /\ ~Base(d, a).created /\ ~Base(d, a).selfdestructed
    BY BaseFine DEF Overlaid
  <2>3. ~Gone(d, a)
    BY <2>1, <2>2 DEF Gone, account_deleted_at_tx_end
  <2>4. a \notin Deleted(d) /\ a \notin Dropped(d)
    BY <1>2 DEF Deleted, Dropped
  <2> QED BY <1>2, <2>1, <2>2, <2>3, <2>4 DEF SameFields
<1> QED BY <1>1, <1>2

(* Accounts that agree in the fields that are compared are the same.       *)
LEMMA SameAccount ==
  ASSUME NEW p, Fine(p), NEW q, Fine(q), ~p.created, ~p.selfdestructed, ~q.created, ~q.selfdestructed,
         ~account_changed(p, q)
  PROVE  p = q
<1>1. /\ p.nonce = q.nonce /\ p.balance = q.balance /\ p.code = q.code
      /\ p.present = q.present /\ p.storage_cleared = q.storage_cleared
  BY DEF account_changed
<1>2. p.created = q.created /\ p.selfdestructed = q.selfdestructed
  BY DEF Fine, IsAccount
<1> QED BY <1>1, <1>2 DEF Fine, IsAccount

(* The block overlay holds these accounts after the merge; a row that is   *)
(* not written held them before.                                           *)
LEMMA MergedBase ==
  ASSUME NEW d, Overlaid(d), NEW e, NEW y, Merges(d, e, y), NEW a \in Addr
  PROVE  /\ Base(y, a) = After(d, a)
         /\ acct_block_found(y, a) <=> acct_block_found(d, a)
         /\ acct_block_found(d, a) => acct_block_get(e, a) = After(d, a)
         /\ acct_block_found(e, a) <=> acct_block_found(d, a)
         /\ a \in Changed(d) => /\ y.account_block[a].curr = After(d, a)
                                /\ y.account_block[a].orig = Base(d, a)
                                /\ account_changed(After(d, a), Base(d, a))
         /\ a \notin Changed(d) /\ acct_block_found(d, a) => y.account_block[a] = d.account_block[a]
<1>1. y.account_block = Over(MergedRows(d), d.account_block) /\ e.account_block = y.account_block
  BY DEF Merges
<1>2. DOMAIN MergedRows(d) = Changed(d) /\ Changed(d) \subseteq Touched(d)
  BY DEF MergedRows, Changed
<1>3. CASE a \in Changed(d)
  <2>1. a \in DOMAIN d.account_block /\ AccountRow(d, a).original = Base(d, a)
        /\ After(d, a) = SettledAccount(AccountRow(d, a))
    BY <1>2, <1>3, TxRow DEF After
  <2>2. MergedRows(d)[a] = [curr |-> After(d, a), orig |-> Base(d, a)]
    BY <1>3, <2>1 DEF MergedRows
  <2>3. a \in DOMAIN y.account_block /\ y.account_block[a] = MergedRows(d)[a]
    BY <1>1, <1>2, <1>3 DEF Over
  <2>4. account_changed(After(d, a), Base(d, a))
    BY <1>3, <2>1 DEF Changed
  <2> QED BY <1>1, <1>3, <2>1, <2>2, <2>3, <2>4 DEF Base, acct_block_found, acct_block_get
<1>4. CASE a \notin Changed(d)
  <2>1. /\ a \in DOMAIN y.account_block <=> a \in DOMAIN d.account_block
        /\ a \in DOMAIN d.account_block => y.account_block[a] = d.account_block[a]
    BY <1>1, <1>2, <1>4 DEF Over
  <2>2. Base(y, a) = Base(d, a)
    BY <2>1 DEF Base, acct_block_found, acct_block_get
  <2>3. After(d, a) = Base(d, a)
    <3>1. CASE a \in Touched(d)
      <4>1. ~account_changed(After(d, a), Base(d, a))
        BY <1>4, <3>1, TxRow DEF Changed, After
      <4>2. Fine(Base(d, a)) /\ ~Base(d, a).created /\ ~Base(d, a).selfdestructed
        BY BaseFine DEF Overlaid
      <4> QED BY <4>1, <4>2, AfterIs, SameAccount
    <3>2. CASE a \notin Touched(d)
      BY <3>2 DEF After
    <3> QED BY <3>1, <3>2
  <2> QED BY <1>1, <1>4, <2>1, <2>2, <2>3 DEF Base, acct_block_found, acct_block_get
<1> QED BY <1>3, <1>4

-----------------------------------------------------------------------------
(* The storage of the merged host.                                         *)
LEMMA ClearedAfter ==
  ASSUME NEW d, Overlaid(d), NEW e, NEW y, Merges(d, e, y), NEW k \in Addr \X Slot, ~Gone(d, k[1])
  PROVE  /\ Base(y, k[1]).storage_cleared = (Base(d, k[1]).storage_cleared \/ d.generations[k[1]] # 0)
         /\ k[1] \notin Dropped(d) => Anchor(y, k) = Anchor(d, k)
         /\ k[1] \in Dropped(d) => Anchor(y, k) = 0 /\ ~Base(d, k[1]).storage_cleared
         /\ d.generations[k[1]] # 0 => Anchor(y, k) = 0
         /\ d.generations[k[1]] = 0 => k[1] \notin Dropped(d)
         /\ d.generations[k[1]] # 0 /\ k[1] \notin Dropped(d) => Anchor(d, k) = 0
<1> DEFINE a == k[1]
<1>0. a \in Addr
  OBVIOUS
<1>1. Base(y, a) = After(d, a)
  BY <1>0, MergedBase
<1>2. After(d, a).storage_cleared = Loaded(d, a).storage_cleared
  BY <1>0, AfterIs DEF SameFields
<1>3. Loaded(d, a).storage_cleared = (Base(d, a).storage_cleared \/ d.generations[a] # 0)
  BY <1>0, LoadedIs
<1>4. a \in Dropped(d) <=> a \in Touched(d) /\ After(d, a).storage_cleared /\ ~Base(d, a).storage_cleared
  BY <1>0, AfterIs
<1>5. d.generations[a] # 0 => a \in Touched(d)
  <2>1. AccountOK(d, a)
    BY <1>0 DEF Overlaid
  <2> QED BY <1>0, <2>1, TxRow DEF AccountOK
<1>6. a \notin Touched(d) => After(d, a) = Base(d, a)
  BY DEF After
<1>7. Base(d, a).storage_cleared \in BOOLEAN /\ Base(y, a).storage_cleared \in BOOLEAN
  <2>1. Fine(Base(d, a)) /\ Fine(After(d, a))
    BY <1>0, BaseFine, AfterIs DEF Overlaid
  <2> QED BY <1>1, <2>1 DEF Fine, IsAccount
<1>8. Base(y, a).storage_cleared = (Base(d, a).storage_cleared \/ d.generations[a] # 0)
  BY <1>1, <1>2, <1>3
<1>9. a \notin Dropped(d) => Base(y, a).storage_cleared = Base(d, a).storage_cleared
  BY <1>1, <1>4, <1>5, <1>6, <1>7, <1>8
<1>10. a \in Dropped(d) => Base(y, a).storage_cleared /\ ~Base(d, a).storage_cleared
  BY <1>1, <1>4
<1>11. d.generations[a] # 0 => Base(y, a).storage_cleared
  BY <1>8
<1>12. d.generations[a] = 0 => a \notin Dropped(d)
  BY <1>8, <1>10, <1>7
<1> QED BY <1>8, <1>9, <1>10, <1>11, <1>12 DEF Anchor

(* The rows that are written into the block are those of accounts that     *)
(* live on, with a value that differs from the one the transaction began   *)
(* with.                                                                   *)
LEMMA WrittenIs ==
  ASSUME NEW d, Overlaid(d), NEW e, NEW y, Merges(d, e, y), NEW k \in Addr \X Slot
  PROVE  /\ k \in Written(d, e) <=>
              /\ Listed(d.storage_tx, k) /\ ~Gone(d, k[1]) /\ Row(d, k).curr # Born(d, k)
         /\ storage_tx_get(d, k).curr = Row(d, k).curr
         /\ Listed(d.storage_tx, k) => /\ storage_tx_get(d, k).orig = Born(d, k)
                                       /\ acct_block_found(d, k[1])
<1> DEFINE a == k[1]
<1>0. a \in Addr
  OBVIOUS
<1>1. storage_tx_hit(d, k) <=> Listed(d.storage_tx, k)
  BY HitIs
<1>2. Listed(d.storage_tx, k) => /\ Row(d, k).orig = Born(d, k) /\ Alive(Loaded(d, a))
                                 /\ acct_block_found(d, a)
  BY DEF Overlaid, StorageOK
<1>3. a \in Deleted(d) <=> Gone(d, a)
  BY <1>0, AfterIs
<1>4. storage_tx_get(d, k).curr = Row(d, k).curr /\ storage_tx_get(d, k).orig = Row(d, k).orig
  BY DEF storage_tx_get, Row
<1>5. ~Gone(d, a) /\ Listed(d.storage_tx, k) => acct_block_found(e, a) /\ acct_block_get(e, a).present
  <2>1. SUFFICES ASSUME ~Gone(d, a), Listed(d.storage_tx, k)
                 PROVE  acct_block_found(e, a) /\ acct_block_get(e, a).present
    OBVIOUS
  <2>2. acct_block_found(e, a) /\ acct_block_get(e, a) = After(d, a)
    BY <1>0, <1>2, <2>1, MergedBase
  <2>3. Fine(After(d, a)) /\ Alive(After(d, a))
    BY <1>0, <1>2, <2>1, AfterIs DEF SameFields, Alive
  <2> QED BY <2>2, <2>3 DEF Fine, Alive, account_info_empty
<1>6. k \in Written(d, e) <=>
        /\ storage_tx_hit(d, k) /\ a \notin Deleted(d)
        /\ acct_block_found(e, a) /\ acct_block_get(e, a).present
        /\ storage_tx_get(d, k).curr # storage_tx_get(d, k).orig
  BY DEF Written
<1> QED BY <1>1, <1>2, <1>3, <1>4, <1>5, <1>6

(* The rows of the slots.                                                  *)
LEMMA MergedRow ==
  ASSUME NEW d, Overlaid(d), NEW e, NEW y, Merges(d, e, y), NEW k
  PROVE  LET kept == k \in DOMAIN d.storage_block /\ k[1] \notin Dropped(d)
         IN /\ k \in DOMAIN y.storage_block <=> k \in Written(d, e) \/ kept
            /\ k \in Written(d, e) =>
                 /\ y.storage_block[k].curr = storage_tx_get(d, k).curr
                 /\ y.storage_block[k].orig = IF kept THEN d.storage_block[k].orig
                                              ELSE storage_tx_get(d, k).orig
            /\ k \notin Written(d, e) /\ kept => y.storage_block[k] = d.storage_block[k]
<1> DEFINE R == Restrict(d.storage_block, KeptRows(d))
           kept == k \in DOMAIN d.storage_block /\ k[1] \notin Dropped(d)
<1>1. e.storage_block = R /\ y.storage_block = Over(WrittenRows(d, e), R)
  BY DEF Merges
<1>2. (k \in DOMAIN R <=> kept) /\ (kept => R[k] = d.storage_block[k])
  BY DEF Restrict, KeptRows
<1> HIDE DEF R
<1>3. DOMAIN WrittenRows(d, e) = Written(d, e)
  BY DEF WrittenRows
<1>4. k \in Written(d, e) =>
        WrittenRows(d, e)[k] = [curr |-> storage_tx_get(d, k).curr,
                                orig |-> IF kept THEN d.storage_block[k].orig
                                         ELSE storage_tx_get(d, k).orig]
  <2>1. k \in Written(d, e) =>
          WrittenRows(d, e)[k] = [curr |-> storage_tx_get(d, k).curr,
                                  orig |-> IF k \in DOMAIN e.storage_block THEN e.storage_block[k].orig
                                           ELSE storage_tx_get(d, k).orig]
    BY DEF WrittenRows
  <2> QED BY <1>1, <1>2, <2>1
<1> QED BY <1>1, <1>2, <1>3, <1>4 DEF Over

(* After the merge each slot has the value the transaction left, and none  *)
(* of a deleted account has any.                                           *)
LEMMA MergedSlot ==
  ASSUME NEW d, Overlaid(d), NEW e, NEW y, Merges(d, e, y), NEW a \in Addr, NEW s \in Slot
  PROVE  /\ SlotBase(y, <<a, s>>) = IF Gone(d, a) THEN 0 ELSE Slots(d, a)[s]
         /\ ~Alive(After(d, a)) => SlotBase(y, <<a, s>>) = Anchor(y, <<a, s>>)
         /\ <<a, s>> \in DOMAIN y.storage_block => y.storage_block[<<a, s>>].orig = Anchor(y, <<a, s>>)
<1> DEFINE k == <<a, s>>
<1>0. k \in Addr \X Slot /\ k[1] = a
  OBVIOUS
<1>1. Slots(d, a)[s] = IF Listed(d.storage_tx, k) THEN Row(d, k).curr ELSE Born(d, k)
  BY DEF Slots
<1>2. BlockOK(d)
  BY DEF Overlaid
<1> HIDE DEF k
<1>3. CASE Gone(d, a)
  <2>1. k \notin Written(d, e) /\ a \in Dropped(d)
    BY <1>0, <1>3, WrittenIs, AfterIs
  <2>2. k \notin DOMAIN y.storage_block
    BY <1>0, <2>1, MergedRow
  <2>3. Base(y, a).storage_cleared = TRUE
    <3>1. Base(y, a) = After(d, a)
      BY MergedBase
    <3> QED BY <1>3, <3>1, AfterIs
  <2>4. Anchor(y, k) = 0
    BY <1>0, <2>3 DEF Anchor
  <2>5. SlotBase(y, k) = 0
    BY <2>2, <2>4 DEF SlotBase
  <2> QED BY <1>3, <2>2, <2>4, <2>5 DEF k
<1>4. CASE ~Gone(d, a)
  <2>1. /\ a \notin Dropped(d) => Anchor(y, k) = Anchor(d, k)
        /\ a \in Dropped(d) => Anchor(y, k) = 0
        /\ d.generations[a] # 0 => Anchor(y, k) = 0
        /\ d.generations[a] = 0 => a \notin Dropped(d)
        /\ d.generations[a] # 0 /\ a \notin Dropped(d) => Anchor(d, k) = 0
    BY <1>0, <1>4, ClearedAfter
  <2>2. ~Alive(Base(d, a)) => SlotBase(d, k) = Anchor(d, k)
    BY <1>0, <1>2 DEF BlockOK
  <2>3. d.generations[a] # 0 => ~Alive(Base(d, a))
    BY LoadedIs
  <2>4. Born(d, k) = IF d.generations[a] # 0 THEN 0 ELSE SlotBase(d, k)
    BY <1>0 DEF Born
  <2>5. k \notin Written(d, e) => SlotBase(y, k) = Born(d, k)
    <3>1. SUFFICES ASSUME k \notin Written(d, e) PROVE SlotBase(y, k) = Born(d, k)
      OBVIOUS
    <3>2. CASE a \in Dropped(d)
      <4>1. k \notin DOMAIN y.storage_block
        BY <1>0, <3>1, <3>2, MergedRow
      <4> QED BY <2>1, <2>4, <3>2, <4>1 DEF SlotBase
    <3>3. CASE a \notin Dropped(d)
      <4>1. /\ k \in DOMAIN y.storage_block <=> k \in DOMAIN d.storage_block
            /\ k \in DOMAIN d.storage_block => y.storage_block[k] = d.storage_block[k]
        BY <1>0, <3>1, <3>3, MergedRow
      <4>2. SlotBase(y, k) = SlotBase(d, k)
        BY <2>1, <3>3, <4>1 DEF SlotBase
      <4> QED BY <2>1, <2>2, <2>3, <2>4, <3>3, <4>2
    <3> QED BY <3>2, <3>3
  <2>6. k \in Written(d, e) =>
          Listed(d.storage_tx, k) /\ SlotBase(y, k) = Row(d, k).curr
    <3>1. SUFFICES ASSUME k \in Written(d, e)
                   PROVE  Listed(d.storage_tx, k) /\ SlotBase(y, k) = Row(d, k).curr
      OBVIOUS
    <3>2. k \in DOMAIN y.storage_block /\ y.storage_block[k].curr = storage_tx_get(d, k).curr
      BY <3>1, MergedRow
    <3> QED BY <1>0, <3>1, <3>2, WrittenIs DEF SlotBase
  <2>7. k \notin Written(d, e) /\ Listed(d.storage_tx, k) => Row(d, k).curr = Born(d, k)
    BY <1>0, <1>4, WrittenIs
  <2>8. SlotBase(y, k) = Slots(d, a)[s]
    BY <1>1, <2>5, <2>6, <2>7
  <2>9. ~Alive(After(d, a)) => SlotBase(y, k) = Anchor(y, k)
    <3>1. SUFFICES ASSUME ~Alive(After(d, a)) PROVE SlotBase(y, k) = Anchor(y, k)
      OBVIOUS
    <3>2. ~Alive(Loaded(d, a))
      BY <1>4, <3>1, AfterIs DEF SameFields, Alive
    <3>3. ~Listed(d.storage_tx, k) /\ ~Alive(Base(d, a))
      BY <1>0, <3>2, LoadedIs DEF Overlaid, StorageOK
    <3>4. SlotBase(y, k) = Born(d, k)
      BY <2>5, <2>6, <3>3
    <3> QED BY <2>1, <2>2, <2>4, <3>3, <3>4
  <2>10. k \in DOMAIN y.storage_block => y.storage_block[k].orig = Anchor(y, k)
    <3> DEFINE kept == k \in DOMAIN d.storage_block /\ a \notin Dropped(d)
    <3>1. kept => d.storage_block[k].orig = Anchor(y, k)
      BY <1>2, <2>1 DEF BlockOK
    <3>2. ~kept /\ Listed(d.storage_tx, k) => Born(d, k) = Anchor(y, k)
      BY <2>1, <2>4 DEF SlotBase
    <3>3. k \in Written(d, e) => y.storage_block[k].orig = IF kept THEN d.storage_block[k].orig
                                                         ELSE storage_tx_get(d, k).orig
      BY <1>0, MergedRow
    <3>4. k \in Written(d, e) => Listed(d.storage_tx, k) /\ storage_tx_get(d, k).orig = Born(d, k)
      BY <1>0, WrittenIs
    <3>5. k \in DOMAIN y.storage_block /\ k \notin Written(d, e) => kept /\ y.storage_block[k] = d.storage_block[k]
      BY <1>0, MergedRow
    <3> HIDE DEF kept
    <3> QED BY <3>1, <3>2, <3>3, <3>4, <3>5
  <2> QED BY <1>4, <2>8, <2>9, <2>10 DEF k
<1> QED BY <1>3, <1>4

-----------------------------------------------------------------------------
(* The block overlay is in order after the merge.                          *)
LEMMA MergedBlock ==
  ASSUME NEW d, Overlaid(d), NEW e, NEW y, Merges(d, e, y)
  PROVE  BlockOK(y) /\ DOMAIN y.account_block = DOMAIN d.account_block
<1>0. BlockOK(d)
  BY DEF Overlaid
<1>1. DOMAIN y.account_block = DOMAIN d.account_block
  <2>1. y.account_block = Over(MergedRows(d), d.account_block)
    BY DEF Merges
  <2>2. DOMAIN MergedRows(d) \subseteq DOMAIN d.account_block
    <3>1. DOMAIN MergedRows(d) \subseteq Touched(d) /\ Touched(d) \subseteq Addr
      BY DEF MergedRows, Changed, Touched
    <3> QED BY <3>1, TxRow
  <2>3. DOMAIN y.account_block = DOMAIN MergedRows(d) \union DOMAIN d.account_block
    BY <2>1 DEF Over
  <2> QED BY <2>2, <2>3
<1>2. ASSUME NEW a \in DOMAIN y.account_block
      PROVE  /\ a \in Addr /\ Fine(y.account_block[a].curr)
             /\ ~y.account_block[a].curr.created /\ ~y.account_block[a].curr.selfdestructed
             /\ \/ account_changed(y.account_block[a].curr, y.account_block[a].orig)
                \/ y.account_block[a].curr = stateless_account_by_key(a)
  <2>1. a \in DOMAIN d.account_block /\ a \in Addr
    BY <1>0, <1>1 DEF BlockOK
  <2>2. CASE a \in Changed(d)
    <3>2. y.account_block[a].curr = After(d, a) /\ y.account_block[a].orig = Base(d, a)
      BY <2>1, <2>2, MergedBase
    <3>3. account_changed(After(d, a), Base(d, a))
      BY <2>1, <2>2, MergedBase
    <3>4. Fine(After(d, a)) /\ ~After(d, a).created /\ ~After(d, a).selfdestructed
      BY <2>1, AfterIs
    <3> QED BY <2>1, <3>2, <3>3, <3>4
  <2>3. CASE a \notin Changed(d)
    <3>1. acct_block_found(d, a)
      BY <2>1 DEF acct_block_found
    <3>2. y.account_block[a] = d.account_block[a]
      BY <2>1, <2>3, <3>1, MergedBase
    <3> QED BY <1>0, <2>1, <3>2 DEF BlockOK
  <2> QED BY <2>2, <2>3
<1>3. ASSUME NEW k \in DOMAIN y.storage_block
      PROVE  /\ k \in Addr \X Slot /\ k[1] \in DOMAIN y.account_block
             /\ y.storage_block[k].orig = Anchor(y, k)
  <2>1. k \in Addr \X Slot /\ k[1] \in DOMAIN d.account_block
    <3>1. CASE k \in Written(d, e)
      <4>1. k \in Addr \X Slot
        BY <3>1 DEF Written
      <4> QED BY <3>1, <4>1, WrittenIs DEF acct_block_found
    <3>2. CASE k \notin Written(d, e)
      BY <1>0, <3>2, MergedRow DEF BlockOK
    <3> QED BY <3>1, <3>2
  <2>2. k[1] \in Addr /\ k[2] \in Slot /\ k = <<k[1], k[2]>>
    BY <2>1
  <2>3. y.storage_block[k].orig = Anchor(y, k)
    BY <2>2, MergedSlot
  <2> QED BY <1>1, <2>1, <2>3
<1>4. ASSUME NEW k \in Addr \X Slot, ~Alive(Base(y, k[1]))
      PROVE  SlotBase(y, k) = Anchor(y, k)
  <2>1. k[1] \in Addr /\ k[2] \in Slot /\ k = <<k[1], k[2]>>
    OBVIOUS
  <2>2. Base(y, k[1]) = After(d, k[1])
    BY <2>1, MergedBase
  <2> QED BY <1>4, <2>1, <2>2, MergedSlot
<1>5. DOMAIN y.account_block \subseteq y.bal.accounts /\ IsBal(y.bal)
  BY <1>0, <1>1 DEF BlockOK, Merges
<1>6. BlockOK(y)
  BY <1>2, <1>3, <1>4, <1>5 DEF BlockOK
<1> QED BY <1>1, <1>6

(* Empty tables show what the block overlay holds.                         *)
Clean(y) ==
  /\ y.account_tx = <<>> /\ y.storage_tx = <<>>
  /\ y.generations = [a \in Addr |-> 0] /\ y.next_generation = 0

(* A host without transaction rows is in order when its block overlay is,  *)
(* and shows it.                                                           *)
LEMMA CleanOverlaid ==
  ASSUME NEW y, IsHost(y), IsSeq(y.journal), Clean(y), BlockOK(y)
  PROVE  /\ Overlaid(y)
         /\ \A a \in Addr : Loaded(y, a) = Base(y, a)
         /\ View(y) = [a \in Addr |-> LET st == [s \in Slot |-> SlotBase(y, <<a, s>>)]
                                      IN Shown(Base(y, a), st, st)]
<1>1. \A key : ~Listed(y.account_tx, key) /\ ~Listed(y.storage_tx, key)
  BY DEF Clean, Listed
<1>2. AccountRows(y.account_tx) /\ StorageRows(y.storage_tx)
  <2>1. IsSeq(<<>>) /\ Len(<<>>) = 0
    BY DEF IsSeq
  <2>2. AccountRows(<<>>) /\ StorageRows(<<>>)
    BY <2>1 DEF AccountRows, StorageRows, Unique
  <2> QED BY <2>2 DEF Clean
<1>3. y.generations \in [Addr -> Nat] /\ \A a \in Addr : y.generations[a] = 0
  BY DEF Clean
<1>4. Shaped(y)
  BY <1>2, <1>3 DEF Shaped, BlockOK, Clean
<1>5. \A a \in Addr : AccountOK(y, a)
  BY <1>1, <1>3 DEF AccountOK, acct_tx_found
<1>6. \A k \in Addr \X Slot : StorageOK(y, k)
  BY <1>1 DEF StorageOK
<1>7. Overlaid(y)
  BY <1>4, <1>5, <1>6 DEF Overlaid
<1>8. \A a \in Addr : Loaded(y, a) = Base(y, a)
  BY <1>1, <1>7, LoadedIs DEF acct_tx_found
<1>9. View(y) = [a \in Addr |-> Shown(Loaded(y, a), Slots(y, a), Births(y, a))]
  BY <1>7, ViewIs
<1>10. ASSUME NEW a \in Addr
       PROVE  LET st == [s \in Slot |-> SlotBase(y, <<a, s>>)]
              IN Slots(y, a) = st /\ Births(y, a) = st
  BY <1>1, <1>3 DEF Slots, Births, Born
<1> DEFINE st(a) == [s \in Slot |-> SlotBase(y, <<a, s>>)]
<1>11. \A a \in Addr : Shown(Loaded(y, a), Slots(y, a), Births(y, a)) = Shown(Base(y, a), st(a), st(a))
  <2> HIDE DEF st
  <2>1. \A a \in Addr : Slots(y, a) = st(a) /\ Births(y, a) = st(a)
    BY <1>10 DEF st
  <2> QED BY <1>8, <2>1
<1> HIDE DEF st
<1>12. View(y) = [a \in Addr |-> Shown(Base(y, a), st(a), st(a))]
  BY <1>9, <1>11
<1> QED BY <1>7, <1>8, <1>12 DEF st

-----------------------------------------------------------------------------
(* The end of a transaction in the ledger.                                 *)
Settles(acc, no) == [acc EXCEPT !.created = no, !.doomed = no, !.orig = acc.storage]
Removed(acc, n, c, z, v) == [acc EXCEPT !.nonce = n, !.code = c, !.storage = z, !.balance = v]
Finished(acc) ==
  Settles(IF acc.doomed /\ (fork = "Shanghai" \/ acc.created) THEN AsLedger!Erased(acc) ELSE acc, FALSE)

(* The ledger finishes account by account.                                 *)
LEMMA FinishIs ==
  ASSUME NEW w
  PROVE  AsLedger!Finish(w) = [a \in Addr |-> Finished(w[a])]
BY Zenon DEF AsLedger!Finish, Finished, Settles

Coded(r, v) == [r EXCEPT !.code = v]

(* The fields an erased account loses.                                     *)
LEMMA RemovedSteps ==
  ASSUME NEW n, NEW b, NEW c, NEW t, NEW d, NEW s, NEW o, NEW n2, NEW c2, NEW z, NEW v
  PROVE  Removed(Entry(n, b, c, t, d, s, o), n2, c2, z, v) = Entry(n2, v, c2, t, d, z, o)
<1> DEFINE r == Entry(n, b, c, t, d, s, o)
<1>1. Removed(r, n2, c2, z, v) = Valued(Stored(Coded(WithNonce(r, n2), c2), z), v)
  BY Zenon DEF Removed, Valued, Stored, Coded, WithNonce
<1>2. WithNonce(r, n2) = Entry(n2, b, c, t, d, s, o)
  BY EntryFields
<1>3. Coded(Entry(n2, b, c, t, d, s, o), c2) = Entry(n2, b, c2, t, d, s, o)
  BY DEF Coded, Entry
<1>4. Stored(Entry(n2, b, c2, t, d, s, o), z) = Entry(n2, b, c2, t, d, z, o)
  BY EntryFields
<1>5. Valued(Entry(n2, b, c2, t, d, z, o), v) = Entry(n2, v, c2, t, d, z, o)
  BY EntryMore
<1> QED BY <1>1, <1>2, <1>3, <1>4, <1>5, Zenon

(* The flags that go, and the storage the next transaction begins with.    *)
LEMMA SettlesIs ==
  ASSUME NEW n, NEW b, NEW c, NEW t, NEW d, NEW s, NEW o, NEW no
  PROVE  Settles(Entry(n, b, c, t, d, s, o), no) = Entry(n, b, c, no, no, s, s)
<1> DEFINE r == Entry(n, b, c, t, d, s, o)
<1>1. Settles(r, no) = Origin(Doomed(Flagged(r, no), no), r.storage)
  BY Zenon DEF Settles, Origin, Doomed, Flagged
<1>2. r.storage = s
  BY EntryMore
<1>3. Flagged(r, no) = Entry(n, b, c, no, d, s, o)
  BY EntryFields
<1>4. Doomed(Entry(n, b, c, no, d, s, o), no) = Entry(n, b, c, no, no, s, o)
  BY EntryMore
<1>5. Origin(Entry(n, b, c, no, no, s, o), s) = Entry(n, b, c, no, no, s, s)
  BY EntryFields
<1> QED BY <1>1, <1>2, <1>3, <1>4, <1>5, Zenon

(* An account between transactions.                                        *)
Rests(n, b, c, s) == Entry(n, b, c, FALSE, FALSE, s, s)

(* What becomes of an account at the end of the transaction.               *)
LEMMA FinishedIs ==
  ASSUME NEW n, NEW b, NEW c, NEW t, NEW d, NEW s, NEW o
  PROVE  Finished(Entry(n, b, c, t, d, s, o)) =
           IF d /\ (fork = "Shanghai" \/ t)
           THEN Rests(0, IF fork = "Amsterdam" THEN b ELSE 0, NoCode, Zeros) ELSE Rests(n, b, c, s)
<1> DEFINE r == Entry(n, b, c, t, d, s, o)
           v == IF fork = "Amsterdam" THEN b ELSE 0
<1>1. r.doomed = d /\ r.created = t /\ r.balance = b
  BY EntryMore
<1>2. AsLedger!Erased(r) = Removed(r, 0, NoCode, AsLedger!NoStorage, IF fork = "Amsterdam" THEN r.balance ELSE 0)
  BY Zenon DEF AsLedger!Erased, Removed
<1>3. AsLedger!NoStorage = Zeros
  BY DEF AsLedger!NoStorage, Zeros
<1> HIDE DEF r, v
<1>4. AsLedger!Erased(r) = Removed(r, 0, NoCode, Zeros, v)
  BY <1>1, <1>2, <1>3 DEF v
<1>5. AsLedger!Erased(r) = Entry(0, v, NoCode, t, d, Zeros, o)
  BY <1>4, RemovedSteps DEF r
<1>6. Finished(r) = Settles(IF d /\ (fork = "Shanghai" \/ t) THEN Entry(0, v, NoCode, t, d, Zeros, o)
                            ELSE Entry(n, b, c, t, d, s, o), FALSE)
  BY <1>1, <1>5, Zenon DEF Finished, r
<1>7. \A no : /\ Settles(Entry(0, v, NoCode, t, d, Zeros, o), no) = Entry(0, v, NoCode, no, no, Zeros, Zeros)
             /\ Settles(Entry(n, b, c, t, d, s, o), no) = Entry(n, b, c, no, no, s, s)
  BY SettlesIs
<1> QED BY <1>6, <1>7 DEF r, v, Rests

(* The accounts the merge deletes are those the fork's rule names.         *)
LEMMA GoneIs ==
  ASSUME NEW d, Overlaid(d), NEW a \in Addr, fork \in DOMAIN Blocks
  PROVE  Gone(d, a) <=> Loaded(d, a).selfdestructed /\ (fork = "Shanghai" \/ Loaded(d, a).created)
<1>1. fork \in {"Shanghai", "Cancun", "Amsterdam"}
  BY ForkAssumption
<1> QED BY <1>1 DEF Gone, account_deleted_at_tx_end, delete_only_created

(* k_tx_merge.                                                             *)
LEMMA Merged ==
  ASSUME NEW d, Overlaid(d), NEW i, fork \in DOMAIN Blocks
  PROVE  LET y == k_tx_merge(d, i)
         IN /\ Overlaid(y) /\ Clean(y) /\ y.journal = d.journal
            /\ View(y) = AsLedger!Finish(View(d))
            /\ d.bal.accounts \subseteq y.bal.accounts /\ y.bal.reads = d.bal.reads
<1> DEFINE e == MergeAccounts(d, i)
           y == k_tx_merge(d, i)
<1>1. Merges(d, e, y)
  BY MergeIs DEF Overlaid, BlockOK, Shaped
<1> HIDE DEF e, y
<1>2. IsHost(y) /\ Clean(y) /\ y.journal = d.journal /\ IsSeq(y.journal)
      /\ d.bal.accounts \subseteq y.bal.accounts /\ y.bal.reads = d.bal.reads
  <2>1. IsSeq(d.journal)
    BY DEF Overlaid, Shaped
  <2> QED BY <1>1, <2>1 DEF Merges, Clean
<1>3. BlockOK(y)
  BY <1>1, MergedBlock
<1> DEFINE st(a) == [s \in Slot |-> SlotBase(y, <<a, s>>)]
<1>4. /\ Overlaid(y)
      /\ View(y) = [a \in Addr |-> Shown(Base(y, a), st(a), st(a))]
  BY <1>2, <1>3, CleanOverlaid
<1>5. ASSUME NEW a \in Addr
      PROVE  Shown(Base(y, a), st(a), st(a)) = Finished(View(d)[a])
  <2> DEFINE L == Loaded(d, a)
             A == After(d, a)
             S == Slots(d, a)
             O == Births(d, a)
             v == IF fork = "Amsterdam" THEN L.balance ELSE 0
  <2>1. View(d)[a] = Entry(L.nonce, L.balance, L.code, L.created, L.selfdestructed, S, O)
    <3>1. View(d)[a] = Shown(L, S, O)
      BY ViewIs
    <3> QED BY <3>1, Zenon DEF Shown, Entry
  <2>2. Base(y, a) = A
    BY <1>1, MergedBase
  <2>3. st(a) = IF Gone(d, a) THEN Zeros ELSE S
    <3>1. \A s \in Slot : SlotBase(y, <<a, s>>) = IF Gone(d, a) THEN 0 ELSE S[s]
      BY <1>1, MergedSlot
    <3>2. S = [s \in Slot |-> S[s]]
      BY DEF Slots
    <3> HIDE DEF S
    <3> QED BY <3>1, <3>2 DEF Zeros
  <2>4. /\ ~A.created /\ ~A.selfdestructed /\ A.created \in BOOLEAN /\ A.selfdestructed \in BOOLEAN
        /\ ~Gone(d, a) => A.nonce = L.nonce /\ A.balance = L.balance /\ A.code = L.code
        /\ Gone(d, a) => A.nonce = 0 /\ A.code = NoCode /\ A.balance = v
    BY AfterIs DEF SameFields, Fine, IsAccount
  <2>5. Gone(d, a) <=> L.selfdestructed /\ (fork = "Shanghai" \/ L.created)
    BY GoneIs
  <2> HIDE DEF st, S, O, L, A
  <2>6. Shown(A, st(a), st(a)) = Rests(A.nonce, A.balance, A.code, st(a))
    BY <2>4 DEF Shown, Entry, Rests
  <2>7. Finished(View(d)[a]) = IF L.selfdestructed /\ (fork = "Shanghai" \/ L.created)
                               THEN Rests(0, v, NoCode, Zeros) ELSE Rests(L.nonce, L.balance, L.code, S)
    BY <2>1, FinishedIs
  <2> HIDE DEF v
  <2>8. CASE Gone(d, a)
    BY <2>2, <2>3, <2>4, <2>5, <2>6, <2>7, <2>8
  <2>9. CASE ~Gone(d, a)
    BY <2>2, <2>3, <2>4, <2>5, <2>6, <2>7, <2>9
  <2> QED BY <2>8, <2>9
<1>6. View(y) = AsLedger!Finish(View(d))
  <2> HIDE DEF st
  <2>1. AsLedger!Finish(View(d)) = [a \in Addr |-> Finished(View(d)[a])]
    BY FinishIs
  <2> QED BY <1>4, <1>5, <2>1
<1> QED BY <1>2, <1>4, <1>6 DEF y

(* k_tx_reset, between transactions.                                       *)
LEMMA JournalReset ==
  ASSUME NEW x, IsHost(x)
  PROVE  LET y == state_journal_reset(x)
         IN /\ IsHost(y) /\ y.journal = <<>> /\ SameTables(x, y) /\ y.next_generation = x.next_generation
            /\ y.account_block = x.account_block /\ y.storage_block = x.storage_block /\ y.bal = x.bal
BY DEF IsHost, SameTables, state_journal_reset

(* An empty journal has no open scope.                                     *)
LEMMA NoScopes ==
  ASSUME NEW d, d.journal = <<>>
  PROVE  ScopesOf(d) = <<>> /\ Len(ScopesOf(d)) = 0 /\ IsSeq(d.journal)
<1>1. Len(<<>>) = 0 /\ IsSeq(<<>>)
  BY DEF IsSeq
<1>2. OpenAfter(<<>>)[0] = <<>>
  BY <1>1, OpenUnfolds
<1> QED BY <1>1, <1>2 DEF ScopesOf, OpenScopes

(* Without a scope there is no world to go back to.                        *)
LEMMA NoSaved ==
  ASSUME NEW d, Good(d), Len(ScopesOf(d)) = 0
  PROVE  SavedViews(d) = <<>>
<1>1. SavedViews(d) = [p \in 1 .. Len(ScopesOf(d)) |-> View(At(d, p))]
  BY SavedIs
<1>2. SavedViews(d) = [p \in 1 .. 0 |-> View(At(d, p))]
  BY <1>1
<1> QED BY <1>2

(* k_tx_reset between transactions leaves the world as it is.              *)
LEMMA TxReset ==
  ASSUME NEW x, Overlaid(x), Clean(x)
  PROVE  LET y == k_tx_reset(x)
         IN /\ Good(y) /\ Clean(y) /\ Len(ScopesOf(y)) = 0 /\ View(y) = View(x) /\ Grows(x, y)
<1> DEFINE z == acct_tx_reset(storage_tx_reset(x))
           y == state_journal_reset(z)
<1>1. IsHost(x) /\ BlockOK(x)
  BY DEF Overlaid, Shaped
<1>2. /\ IsHost(z) /\ z.account_tx = <<>> /\ z.storage_tx = <<>>
      /\ z.generations = [a \in Addr |-> 0] /\ z.next_generation = 0
      /\ z.bal = x.bal /\ z.account_block = x.account_block /\ z.storage_block = x.storage_block
  BY <1>1, TablesReset, Zenon
<1> HIDE DEF z
<1>3. /\ IsHost(y) /\ y.journal = <<>> /\ SameTables(z, y) /\ y.next_generation = z.next_generation
      /\ y.account_block = z.account_block /\ y.storage_block = z.storage_block /\ y.bal = z.bal
  BY <1>2, JournalReset, Zenon
<1> HIDE DEF y
<1>4. Clean(y) /\ SameTables(x, y)
  BY <1>2, <1>3 DEF Clean, SameTables
<1>5. Grows(x, y) /\ BlockOK(y)
  BY <1>1, <1>2, <1>3, SameGrows
<1>6. Len(ScopesOf(y)) = 0 /\ IsSeq(y.journal)
  BY <1>3, NoScopes
<1>7. Overlaid(y)
  BY <1>3, <1>4, <1>5, <1>6, CleanOverlaid
<1>8. View(y) = View(x)
  BY <1>4, <1>5, <1>7, SameView
<1>9. Good(y)
  BY <1>6, <1>7 DEF Good
<1>10. k_tx_reset(x) = y
  BY Zenon DEF k_tx_reset, y, z
<1> QED BY <1>4, <1>5, <1>6, <1>8, <1>9, <1>10

-----------------------------------------------------------------------------
(* The state root.                                                         *)
LeafOf(acc, storage) == IF account_info_empty(acc) THEN NoLeaf ELSE Leaf(acc, storage)

(* The leaf of the parent trie is that of the account the block would      *)
(* load.                                                                   *)
LEMMA ParentLeafIs ==
  ASSUME NEW a \in Addr, NEW storage,
         Parent[a].present => storage = Parent[a].storage
  PROVE  ParentLeaf(a) = LeafOf(stateless_account_by_key(a), storage)
<1> DEFINE acc == stateless_account_by_key(a)
<1>1. Parent[a].present <=> (Parent[a].nonce # 0 \/ Parent[a].balance # 0 \/ Parent[a].code # NoCode)
  BY ParentAssumption
<1>2. CASE Parent[a].present
  <2>1. acc.nonce = Parent[a].nonce /\ acc.balance = Parent[a].balance /\ acc.code = Parent[a].code
    BY <1>2 DEF stateless_account_by_key
  <2> HIDE DEF acc
  <2>2. ~account_info_empty(acc)
    BY <1>1, <1>2, <2>1 DEF account_info_empty
  <2>3. Leaf(acc, storage) = Leaf(Parent[a], Parent[a].storage)
    BY <1>2, <2>1 DEF Leaf
  <2> QED BY <1>2, <2>2, <2>3 DEF ParentLeaf, LeafOf, acc
<1>3. CASE ~Parent[a].present
  <2>1. acc = EmptyAccount
    BY <1>3 DEF stateless_account_by_key
  <2>2. account_info_empty(EmptyAccount)
    BY DEF account_info_empty, EmptyAccount
  <2> QED BY <1>3, <2>1, <2>2 DEF ParentLeaf, LeafOf
<1> QED BY <1>2, <1>3

(* The storage of an account in the block overlay.                         *)
SlotsBase(d, a) == [s \in Slot |-> SlotBase(d, <<a, s>>)]

(* The storage of the parent state, slot by slot.                          *)
LEMMA ParentSlots ==
  ASSUME NEW a \in Addr
  PROVE  Parent[a].storage = [s \in Slot |-> Parent[a].storage[s]]
BY ParentAssumption

(* When no row of an account differs from its origin, each slot has the    *)
(* value of the anchor.                                                    *)
LEMMA UnchangedSlots ==
  ASSUME NEW d, BlockOK(d), NEW a \in Addr, ~StorageChanged(d, a)
  PROVE  \A s \in Slot : SlotBase(d, <<a, s>>) = Anchor(d, <<a, s>>)
<1> SUFFICES ASSUME NEW s \in Slot PROVE SlotBase(d, <<a, s>>) = Anchor(d, <<a, s>>)
  OBVIOUS
<1> DEFINE k == <<a, s>>
<1>1. k[1] = a
  OBVIOUS
<1> HIDE DEF k
<1>2. k \in DOMAIN d.storage_block =>
        d.storage_block[k].curr = d.storage_block[k].orig /\ d.storage_block[k].orig = Anchor(d, k)
  BY <1>1 DEF StorageChanged, BlockOK
<1> QED BY <1>2 DEF SlotBase, k

(* The storage a StorageRoot starts from.                                  *)
LEMMA AnchorIs ==
  ASSUME NEW d, NEW a \in Addr
  PROVE  [s \in Slot |-> Anchor(d, <<a, s>>)] =
           IF Base(d, a).storage_cleared THEN [s \in Slot |-> 0] ELSE Parent[a].storage
<1>1. CASE Base(d, a).storage_cleared
  BY <1>1 DEF Anchor
<1>2. CASE ~Base(d, a).storage_cleared
  <2>1. [s \in Slot |-> Anchor(d, <<a, s>>)] = [s \in Slot |-> Parent[a].storage[s]]
    BY <1>2 DEF Anchor
  <2> QED BY <1>2, <2>1, ParentSlots
<1> QED BY <1>1, <1>2

(* StorageRoot applies the changed rows and gets every slot right.         *)
LEMMA StorageRootIs ==
  ASSUME NEW d, BlockOK(d), NEW a \in DOMAIN d.account_block, ~account_info_empty(Base(d, a))
  PROVE  StorageRoot(d, a) = SlotsBase(d, a)
<1> DEFINE curr == acct_block_get(d, a)
           base == IF curr.storage_cleared THEN [s \in Slot |-> 0] ELSE Parent[a].storage
           update(s) == LET k == <<a, s>>
                        IN IF k \in DOMAIN d.storage_block /\ d.storage_block[k].curr # d.storage_block[k].orig
                           THEN d.storage_block[k].curr ELSE base[s]
<1>0. a \in Addr /\ curr = Base(d, a) /\ Fine(curr)
  BY DEF BlockOK, Base, acct_block_found, acct_block_get
<1>1. base = [s \in Slot |-> Anchor(d, <<a, s>>)]
  BY <1>0, AnchorIs
<1>2. StorageRoot(d, a) = IF curr.present /\ ~account_info_empty(curr) /\ StorageChanged(d, a)
                          THEN [s \in Slot |-> update(s)] ELSE base
  BY Zenon DEF StorageRoot
<1>3. curr.present /\ ~account_info_empty(curr)
  BY <1>0 DEF Fine
<1>4. CASE ~StorageChanged(d, a)
  <2>1. \A s \in Slot : SlotBase(d, <<a, s>>) = Anchor(d, <<a, s>>)
    BY <1>0, <1>4, UnchangedSlots
  <2>2. SlotsBase(d, a) = [s \in Slot |-> Anchor(d, <<a, s>>)]
    BY <2>1 DEF SlotsBase
  <2> QED BY <1>1, <1>2, <1>4, <2>2
<1>5. CASE StorageChanged(d, a)
  <2>1. ASSUME NEW s \in Slot PROVE update(s) = SlotBase(d, <<a, s>>)
    <3> DEFINE k == <<a, s>>
    <3>1. base[s] = Anchor(d, k)
      BY <1>1
    <3>2. k \in DOMAIN d.storage_block => d.storage_block[k].orig = Anchor(d, k)
      BY DEF BlockOK
    <3>3. update(s) = IF k \in DOMAIN d.storage_block /\ d.storage_block[k].curr # d.storage_block[k].orig
                      THEN d.storage_block[k].curr ELSE base[s]
      OBVIOUS
    <3> HIDE DEF k, base, update
    <3> QED BY <3>1, <3>2, <3>3 DEF SlotBase, k
  <2>2. StorageRoot(d, a) = [s \in Slot |-> update(s)]
    BY <1>2, <1>3, <1>5
  <2> HIDE DEF update
  <2> QED BY <2>1, <2>2 DEF SlotsBase
<1> QED BY <1>4, <1>5

(* Each leaf is that of the account and the storage that the block overlay *)
(* stands for.                                                             *)
LEMMA RootSees ==
  ASSUME NEW d, BlockOK(d), NEW a \in Addr
  PROVE  compute_state_root(d)[a] = LeafOf(Base(d, a), SlotsBase(d, a))
<1>0. compute_state_root(d)[a] = IF acct_block_found(d, a) THEN account_trie_update(d, a) ELSE ParentLeaf(a)
  BY DEF compute_state_root
<1>1. ASSUME Base(d, a) = stateless_account_by_key(a),
             \A s \in Slot : SlotBase(d, <<a, s>>) = Anchor(d, <<a, s>>)
      PROVE  ParentLeaf(a) = LeafOf(Base(d, a), SlotsBase(d, a))
  <2>1. SlotsBase(d, a) = [s \in Slot |-> Anchor(d, <<a, s>>)]
    BY <1>1 DEF SlotsBase
  <2>2. Parent[a].present => ~stateless_account_by_key(a).storage_cleared
    BY DEF stateless_account_by_key
  <2>3. Parent[a].present => SlotsBase(d, a) = Parent[a].storage
    BY <1>1, <2>1, <2>2, AnchorIs
  <2> QED BY <1>1, <2>3, ParentLeafIs
<1>2. CASE ~acct_block_found(d, a)
  <2>1. Base(d, a) = stateless_account_by_key(a)
    BY <1>2 DEF Base
  <2>2. ~StorageChanged(d, a)
    BY <1>2 DEF StorageChanged, BlockOK, acct_block_found
  <2> QED BY <1>0, <1>1, <1>2, <2>1, <2>2, UnchangedSlots
<1>3. CASE acct_block_found(d, a)
  <2> DEFINE row == d.account_block[a]
  <2>1. /\ row.curr = Base(d, a) /\ Fine(row.curr)
        /\ account_changed(row.curr, row.orig) \/ row.curr = stateless_account_by_key(a)
    BY <1>3 DEF BlockOK, Base, acct_block_found, acct_block_get
  <2>2. account_trie_update(d, a) =
          IF ~account_changed(row.curr, row.orig) /\ ~StorageChanged(d, a) THEN ParentLeaf(a)
          ELSE IF ~row.curr.present \/ account_info_empty(row.curr) THEN NoLeaf
          ELSE Leaf(row.curr, StorageRoot(d, a))
    BY Zenon DEF account_trie_update
  <2> HIDE DEF row
  <2>3. CASE ~account_changed(row.curr, row.orig) /\ ~StorageChanged(d, a)
    <3>1. Base(d, a) = stateless_account_by_key(a)
      BY <2>1, <2>3
    <3> QED BY <1>0, <1>1, <1>3, <2>2, <2>3, <3>1, UnchangedSlots
  <2>4. CASE account_changed(row.curr, row.orig) \/ StorageChanged(d, a)
    <3>1. ~row.curr.present \/ account_info_empty(row.curr) <=> account_info_empty(Base(d, a))
      BY <2>1 DEF Fine
    <3>2. account_trie_update(d, a) = IF account_info_empty(Base(d, a)) THEN NoLeaf
                                      ELSE Leaf(Base(d, a), StorageRoot(d, a))
      BY <2>1, <2>2, <2>4, <3>1
    <3>3. ~account_info_empty(Base(d, a)) => StorageRoot(d, a) = SlotsBase(d, a)
      BY <1>3, StorageRootIs DEF acct_block_found
    <3> QED BY <1>0, <1>3, <3>2, <3>3 DEF LeafOf
  <2> QED BY <2>3, <2>4
<1> QED BY <1>2, <1>3

(* compute_state_root between transactions: the leaves of the world, and   *)
(* no other.                                                               *)
LEMMA CleanRoot ==
  ASSUME NEW d, Overlaid(d), Clean(d), NEW a \in Addr
  PROVE  compute_state_root(d)[a] =
           IF account_info_empty(View(d)[a]) THEN NoLeaf ELSE Leaf(View(d)[a], View(d)[a].storage)
<1> DEFINE st == SlotsBase(d, a)
           acc == Base(d, a)
<1>1. View(d)[a] = Shown(acc, st, st)
  <2>1. View(d) = [b \in Addr |-> LET t == [s \in Slot |-> SlotBase(d, <<b, s>>)]
                                  IN Shown(Base(d, b), t, t)]
    BY CleanOverlaid DEF Overlaid, Shaped
  <2> QED BY <2>1 DEF SlotsBase
<1>2. compute_state_root(d)[a] = LeafOf(acc, st)
  BY RootSees DEF Overlaid
<1> HIDE DEF st, acc
<1>3. Shown(acc, st, st).storage = st
  BY DEF Shown
<1>4. account_info_empty(Shown(acc, st, st)) <=> account_info_empty(acc)
  BY DEF Shown, account_info_empty
<1>5. Leaf(Shown(acc, st, st), st) = Leaf(acc, st)
  BY DEF Shown, Leaf
<1> QED BY <1>1, <1>2, <1>3, <1>4, <1>5 DEF LeafOf

-----------------------------------------------------------------------------
(* Frames and their scopes.                                                *)
(* What a transaction leaves of its beginning, from Amsterdam on: each     *)
(* account remembers the slots the block holds for it, an account created  *)
(* in the transaction had none, and one without nonce and code has written *)
(* none, and has none if it is the sender.                                 *)
Still(a, acc) == ~Alive(acc) => acc.storage = acc.orig /\ (a = Sender => acc.storage = Zeros)
Starts(w, d) ==
  fork = "Amsterdam" =>
    \A a \in Addr : /\ Still(a, w[a]) /\ w[a].orig = SlotsBase(d, a)
                    /\ w[a].created => w[a].orig = Zeros
Begun(d) == Starts(View(d), d) /\ \A p \in 1 .. Len(ScopesOf(d)) : Starts(SavedViews(d)[p], d)

(* What the operations of a transaction keep of a world: its nonces, and   *)
(* its beginning.                                                          *)
Carried(a, p, q) ==
  /\ p.nonce # 0 => q.nonce # 0
  /\ fork = "Amsterdam" /\ Still(a, p) =>
       Still(a, q) /\ q.orig = p.orig /\ (q.created => p.created \/ p.orig = Zeros)
Carries(w, u) == \A a \in Addr : Carried(a, w[a], u[a])

(* Over two operations as well.                                            *)
LEMMA CarriesOn ==
  ASSUME NEW w, NEW u, NEW v, Carries(w, u), Carries(u, v)
  PROVE  Carries(w, v)
BY DEF Carries, Carried

(* A world keeps its own nonces and its beginning.                         *)
LEMMA CarriesSelf ==
  ASSUME NEW w
  PROVE  Carries(w, w)
BY DEF Carries, Carried

(* A host that only reads and lists more leaves the beginning where it is. *)
LEMMA StartsOn ==
  ASSUME NEW x, NEW y, Grows(x, y), NEW w, Starts(w, x), NEW u, Carries(w, u)
  PROVE  Starts(u, y)
<1>1. \A a \in Addr : SlotsBase(y, a) = SlotsBase(x, a)
  BY DEF Grows, SlotsBase
<1> QED BY <1>1 DEF Starts, Carries, Carried

(* So do the scopes that stay, and the one that is opened or undone.       *)
LEMMA BegunOn ==
  ASSUME NEW x, NEW y, Begun(x), Grows(x, y), NEW w, Starts(w, x), Carries(w, View(y)),
         \A p \in 1 .. Len(ScopesOf(y)) :
           \/ SavedViews(y)[p] = View(x)
           \/ p \in 1 .. Len(ScopesOf(x)) /\ SavedViews(y)[p] = SavedViews(x)[p]
  PROVE  Begun(y)
<1>1. Starts(View(y), y)
  BY StartsOn
<1>2. ASSUME NEW p \in 1 .. Len(ScopesOf(y)) PROVE Starts(SavedViews(y)[p], y)
  <2>1. Starts(SavedViews(y)[p], x)
    BY DEF Begun
  <2> QED BY <2>1, StartsOn, CarriesSelf
<1> QED BY <1>1, <1>2 DEF Begun

IsFrame(f) == f = [kind |-> f.kind, addr |-> f.addr] /\ f.kind \in {"call", "create"} /\ f.addr \in Addr
FramesAre(fr) == IsSeq(fr) /\ \A n \in 1 .. Len(fr) : IsFrame(fr[n])

(* The frames fr have a scope each, above e others; their accounts are     *)
(* listed, and the account of one that creates keeps its nonce as long as  *)
(* the frame is not undone.                                                *)
Keeps(w, f) == f.kind = "create" => w[f.addr].nonce # 0
Ordered(d, fr, e) ==
  /\ Good(d) /\ Begun(d) /\ FramesAre(fr) /\ Len(ScopesOf(d)) = Len(fr) + e
  /\ \A n \in 1 .. Len(fr) :
       /\ fr[n].addr \in d.bal.accounts /\ Keeps(View(d), fr[n])
       /\ \A p \in n + e + 1 .. Len(ScopesOf(d)) : Keeps(SavedViews(d)[p], fr[n])

(* A frame keeps its nonce where nonces are kept.                          *)
LEMMA KeepsKept ==
  ASSUME NEW w, NEW u, Carries(w, u), NEW f, IsFrame(f), Keeps(w, f)
  PROVE  Keeps(u, f)
BY DEF Carries, Carried, IsFrame, Keeps

(* One world for each scope.                                               *)
LEMMA SavedSeq ==
  ASSUME NEW d, Good(d)
  PROVE  IsSeq(SavedViews(d)) /\ Len(SavedViews(d)) = Len(ScopesOf(d)) /\ Len(ScopesOf(d)) \in Nat
<1>1. Len(ScopesOf(d)) \in Nat
  BY ScopesAre DEF Good, Overlaid, Shaped
<1> DEFINE n == Len(ScopesOf(d))
           v(p) == View(At(d, p))
<1>2. SavedViews(d) = [p \in 1 .. n |-> v(p)]
  BY SavedIs
<1> HIDE DEF n, v
<1>3. Len(SavedViews(d)) = n
  BY <1>1, <1>2 DEF n
<1> QED BY <1>1, <1>2, <1>3 DEF IsSeq, n

(* A step within the innermost frame.                                      *)
LEMMA OrderedActs ==
  ASSUME NEW x, NEW fr, NEW e \in Nat, Ordered(x, fr, e), NEW y, NEW w, Acts(x, y, w), Carries(View(x), w)
  PROVE  Ordered(y, fr, e) /\ View(y) = w /\ SavedViews(y) = SavedViews(x) /\ Grows(x, y)
<1>1. Good(x) /\ Reaches(x, y) /\ View(y) = w
  BY DEF Ordered, Acts
<1>2. Good(y) /\ SavedViews(y) = SavedViews(x) /\ Len(ScopesOf(y)) = Len(ScopesOf(x))
  BY <1>1, GoodReaches
<1>3. Grows(x, y) /\ x.bal.accounts \subseteq y.bal.accounts
  BY <1>1 DEF Reaches, Grows
<1>5. Begun(y)
  <2>1. Begun(x) /\ Starts(View(x), x)
    BY DEF Ordered, Begun
  <2> QED BY <1>1, <1>2, <1>3, <2>1, BegunOn
<1>4. ASSUME NEW n \in 1 .. Len(fr)
      PROVE  /\ fr[n].addr \in y.bal.accounts /\ Keeps(View(y), fr[n])
             /\ \A p \in n + e + 1 .. Len(ScopesOf(y)) : Keeps(SavedViews(y)[p], fr[n])
  <2>1. fr[n].addr \in x.bal.accounts /\ Keeps(View(x), fr[n]) /\ IsFrame(fr[n])
    BY DEF Ordered, FramesAre
  <2>2. Keeps(View(y), fr[n])
    BY <1>1, <2>1, KeepsKept
  <2> QED BY <1>2, <1>3, <2>1, <2>2 DEF Ordered
<1> QED BY <1>1, <1>2, <1>3, <1>4, <1>5 DEF Ordered

(* A frame is entered: x is the host at its checkpoint, y the one in which *)
(* it begins.                                                              *)
LEMMA OrderedEnters ==
  ASSUME NEW x, NEW fr, NEW e \in Nat, Ordered(x, fr, e), NEW y, NEW w,
         Acts(state_journal_checkpoint(x), y, w), Carries(View(x), w),
         NEW f, IsFrame(f), f.addr \in y.bal.accounts, Keeps(w, f)
  PROVE  /\ Ordered(y, Append(fr, f), e) /\ View(y) = w
         /\ SavedViews(y) = Append(SavedViews(x), View(x)) /\ Grows(x, y)
<1> DEFINE c == state_journal_checkpoint(x)
           N == Len(fr)
           L == Len(ScopesOf(x))
<1>1. Good(x) /\ FramesAre(fr) /\ L = N + e /\ N \in Nat
  BY DEF Ordered, FramesAre, IsSeq
<1>2. /\ Good(c) /\ View(c) = View(x) /\ Grows(x, c) /\ SavedViews(c) = Append(SavedViews(x), View(x))
      /\ Len(ScopesOf(c)) = L + 1
  BY <1>1, Checkpointed
<1> HIDE DEF c
<1>3. Good(y) /\ SavedViews(y) = SavedViews(c) /\ Len(ScopesOf(y)) = L + 1 /\ View(y) = w /\ Grows(c, y)
  <2>1. Reaches(c, y) /\ View(y) = w
    BY DEF Acts, c
  <2> QED BY <1>2, <2>1, GoodReaches DEF Reaches
<1>4. Grows(x, y) /\ x.bal.accounts \subseteq y.bal.accounts
  BY <1>2, <1>3, GrowsStep DEF Grows
<1> DEFINE g == Append(fr, f)
<1>5. IsSeq(g) /\ Len(g) = N + 1 /\ g[N + 1] = f /\ \A n \in 1 .. N : g[n] = fr[n]
  BY <1>1, SeqAppend DEF FramesAre
<1> HIDE DEF g
<1>6. FramesAre(g)
  BY <1>1, <1>5 DEF FramesAre
<1>7. IsSeq(SavedViews(x)) /\ Len(SavedViews(x)) = L
  BY <1>1, SavedSeq
<1>8. SavedViews(y)[L + 1] = View(x) /\ \A p \in 1 .. L : SavedViews(y)[p] = SavedViews(x)[p]
  BY <1>2, <1>3, <1>7, SeqAppend
<1>9. ASSUME NEW n \in 1 .. N + 1
      PROVE  /\ g[n].addr \in y.bal.accounts /\ Keeps(View(y), g[n])
             /\ \A p \in n + e + 1 .. L + 1 : Keeps(SavedViews(y)[p], g[n])
  <2>1. CASE n = N + 1
    BY <1>1, <1>3, <1>5, <2>1
  <2>2. CASE n # N + 1
    <3>1. n \in 1 .. N /\ g[n] = fr[n] /\ IsFrame(fr[n])
      BY <1>1, <1>5, <2>2 DEF FramesAre
    <3>2. fr[n].addr \in y.bal.accounts /\ Keeps(View(x), fr[n])
      BY <1>4, <3>1 DEF Ordered
    <3>3. Keeps(View(y), fr[n])
      BY <1>3, <3>1, <3>2, KeepsKept
    <3>4. ASSUME NEW p \in n + e + 1 .. L + 1 PROVE Keeps(SavedViews(y)[p], fr[n])
      <4>1. CASE p = L + 1
        BY <1>8, <3>2, <4>1
      <4>2. CASE p # L + 1
        <5>1. p \in n + e + 1 .. L /\ p \in 1 .. L
          BY <1>1, <4>2
        <5>2. Keeps(SavedViews(x)[p], fr[n])
          BY <3>1, <5>1 DEF Ordered
        <5> QED BY <1>8, <5>1, <5>2
      <4> QED BY <4>1, <4>2
    <3> QED BY <3>1, <3>2, <3>3, <3>4
  <2> QED BY <2>1, <2>2
<1>11. Begun(y)
  <2>1. Begun(x) /\ Starts(View(x), x) /\ L \in Nat
    BY <1>1 DEF Ordered, Begun
  <2>2. \A p \in 1 .. Len(ScopesOf(y)) :
          SavedViews(y)[p] = View(x) \/ (p \in 1 .. Len(ScopesOf(x)) /\ SavedViews(y)[p] = SavedViews(x)[p])
    BY <1>3, <1>8, <2>1
  <2> QED BY <1>3, <1>4, <2>1, <2>2, BegunOn
<1>10. Ordered(y, g, e)
  BY <1>1, <1>3, <1>5, <1>6, <1>9, <1>11 DEF Ordered
<1> QED BY <1>2, <1>3, <1>4, <1>10 DEF g

(* A frame is left: its scope is closed or undone.                         *)
LEMMA OrderedLeaves ==
  ASSUME NEW x, NEW fr, NEW e \in Nat, Ordered(x, fr, e), Len(fr) > 0, NEW y, Good(y), NEW w, View(y) = w,
         w = View(x) \/ w = SavedViews(x)[Len(SavedViews(x))],
         SavedViews(y) = Pop(SavedViews(x)), Len(ScopesOf(y)) = Len(ScopesOf(x)) - 1, Grows(x, y)
  PROVE  Ordered(y, Pop(fr), e)
<1> DEFINE N == Len(fr)
           L == Len(ScopesOf(x))
           g == Pop(fr)
<1>1. Good(x) /\ FramesAre(fr) /\ L = N + e /\ N \in Nat /\ IsSeq(fr)
  BY DEF Ordered, FramesAre, IsSeq
<1>2. IsSeq(g) /\ Len(g) = N - 1 /\ \A n \in 1 .. N - 1 : g[n] = fr[n]
  BY <1>1, PopCut
<1>3. IsSeq(SavedViews(x)) /\ Len(SavedViews(x)) = L
  BY <1>1, SavedSeq
<1> HIDE DEF g
<1>4. \A p \in 1 .. L - 1 : SavedViews(y)[p] = SavedViews(x)[p]
  <2> DEFINE s == SavedViews(x)
  <2>1. IsSeq(s) /\ Len(s) > 0
    BY <1>1, <1>3
  <2>2. \A p \in 1 .. Len(s) - 1 : Pop(s)[p] = s[p]
    <3> HIDE DEF s
    <3> QED BY <2>1, PopCut
  <2> QED BY <1>3, <2>2
<1>5. FramesAre(g)
  BY <1>1, <1>2 DEF FramesAre
<1>6. ASSUME NEW n \in 1 .. N - 1
      PROVE  /\ g[n].addr \in y.bal.accounts /\ Keeps(View(y), g[n])
             /\ \A p \in n + e + 1 .. L - 1 : Keeps(SavedViews(y)[p], g[n])
  <2>1. n \in 1 .. N /\ g[n] = fr[n]
    BY <1>1, <1>2
  <2>2. /\ fr[n].addr \in x.bal.accounts /\ Keeps(View(x), fr[n])
        /\ \A p \in n + e + 1 .. L : Keeps(SavedViews(x)[p], fr[n])
    BY <2>1 DEF Ordered
  <2>3. Keeps(SavedViews(x)[L], fr[n])
    BY <1>1, <2>2
  <2>4. Keeps(View(y), fr[n])
    BY <1>3, <2>2, <2>3
  <2>5. fr[n].addr \in y.bal.accounts
    BY <2>2 DEF Grows
  <2>6. ASSUME NEW p \in n + e + 1 .. L - 1 PROVE Keeps(SavedViews(y)[p], fr[n])
    <3>1. p \in 1 .. L - 1 /\ p \in n + e + 1 .. L
      BY <1>1
    <3> QED BY <1>4, <2>2, <3>1
  <2> QED BY <2>1, <2>4, <2>5, <2>6
<1>7. Begun(y)
  <2>1. Begun(x) /\ Starts(w, x)
    <3>1. Begun(x) /\ L \in 1 .. L
      BY <1>1 DEF Ordered
    <3> QED BY <1>3, <3>1 DEF Begun
  <2>2. \A p \in 1 .. Len(ScopesOf(y)) :
          p \in 1 .. Len(ScopesOf(x)) /\ SavedViews(y)[p] = SavedViews(x)[p]
    BY <1>1, <1>4
  <2>3. Carries(w, View(y))
    BY CarriesSelf
  <2> QED BY <2>1, <2>2, <2>3, BegunOn
<1>8. Len(ScopesOf(y)) = Len(g) + e
  BY <1>1, <1>2
<1>9. ASSUME NEW n \in 1 .. Len(g)
      PROVE  /\ g[n].addr \in y.bal.accounts /\ Keeps(View(y), g[n])
             /\ \A p \in n + e + 1 .. Len(ScopesOf(y)) : Keeps(SavedViews(y)[p], g[n])
  BY <1>2, <1>6
<1> QED BY <1>2, <1>5, <1>7, <1>8, <1>9 DEF Ordered, g

-----------------------------------------------------------------------------
(* What the steps of the ledger do to nonces and balances.                 *)
LEMMA EntryIs ==
  ASSUME NEW n, NEW b, NEW c, NEW t, NEW d, NEW s, NEW o
  PROVE  LET r == Entry(n, b, c, t, d, s, o)
         IN IsEntry(r) /\ r.nonce = n /\ r.balance = b
<1> DEFINE r == Entry(n, b, c, t, d, s, o)
<1>1. /\ r.nonce = n /\ r.balance = b /\ r.code = c /\ r.created = t /\ r.doomed = d
      /\ r.storage = s /\ r.orig = o
  BY DEF Entry
<1> QED BY <1>1 DEF IsEntry

(* A world that differs at one account.                                    *)
LEMMA SetAt ==
  ASSUME NEW w, IsWorld(w), NEW a \in Addr, NEW r
  PROVE  LET u == [w EXCEPT ![a] = r]
         IN u[a] = r /\ \A b \in Addr \ {a} : u[b] = w[b]
BY DEF IsWorld

(* A world is carried where one account is.                                *)
LEMMA CarriesAt ==
  ASSUME NEW w, IsWorld(w), NEW a \in Addr, NEW r, IsEntry(r), Carried(a, w[a], r)
  PROVE  LET u == [w EXCEPT ![a] = r]
         IN IsWorld(u) /\ Carries(w, u) /\ u[a] = r /\ \A b \in Addr \ {a} : u[b] = w[b]
<1> DEFINE u == [w EXCEPT ![a] = r]
<1>1. u[a] = r /\ \A b \in Addr \ {a} : u[b] = w[b]
  BY SetAt
<1>2. IsWorld(u)
  BY <1>1 DEF IsWorld
<1> HIDE DEF u
<1>3. \A b \in Addr : Carried(b, w[b], u[b])
  BY <1>1 DEF Carried
<1> QED BY <1>1, <1>2, <1>3 DEF Carries, u

(* A store of a running account.                                           *)
LEMMA StoreKeeps ==
  ASSUME NEW w, IsWorld(w), NEW a \in Addr, Alive(w[a]), NEW s, NEW v
  PROVE  Carries(w, [w EXCEPT ![a].storage[s] = v])
<1> DEFINE st == [w[a].storage EXCEPT ![s] = v]
           r == Stored(w[a], st)
<1>1. [w EXCEPT ![a].storage[s] = v] = [w EXCEPT ![a] = r]
  BY Zenon DEF Stored
<1>2. IsEntry(w[a])
  BY DEF IsWorld
<1> HIDE DEF st
<1>3. r = Entry(w[a].nonce, w[a].balance, w[a].code, w[a].created, w[a].doomed, st, w[a].orig)
  BY <1>2, EntryFields DEF IsEntry
<1>4. /\ IsEntry(r) /\ r.nonce = w[a].nonce /\ r.code = w[a].code
      /\ r.created = w[a].created /\ r.orig = w[a].orig
  BY <1>3, EntryIs, EntryMore
<1> HIDE DEF r
<1>5. Carried(a, w[a], r)
  BY <1>4 DEF Carried, Still, Alive
<1> QED BY <1>1, <1>4, <1>5, CarriesAt

(* Deploying the code of an account with a nonce.                          *)
LEMMA CodeKeeps ==
  ASSUME NEW w, IsWorld(w), NEW a \in Addr, w[a].nonce # 0, NEW c
  PROVE  Carries(w, [w EXCEPT ![a].code = c])
<1> DEFINE r == Coded(w[a], c)
<1>1. [w EXCEPT ![a].code = c] = [w EXCEPT ![a] = r]
  BY Zenon DEF Coded
<1>2. IsEntry(r) /\ r.nonce = w[a].nonce /\ r.created = w[a].created /\ r.orig = w[a].orig
  BY DEF IsWorld, IsEntry, Entry, Coded
<1> HIDE DEF r
<1>3. Carried(a, w[a], r)
  BY <1>2 DEF Carried, Still, Alive
<1> QED BY <1>1, <1>2, <1>3, CarriesAt

(* A bump, which leaves the balance and the other accounts.                *)
LEMMA BumpKeeps ==
  ASSUME NEW w, IsWorld(w), NEW a \in Addr, w[a].nonce \in Nat
  PROVE  LET u == AsLedger!Bump(w, a)
         IN /\ Carries(w, u) /\ IsWorld(u) /\ u[a].nonce # 0
            /\ \A b \in Addr \ {a} : u[b] = w[b]
            /\ u[a].balance = w[a].balance
<1> DEFINE r == WithNonce(w[a], w[a].nonce + 1)
           u == [w EXCEPT ![a] = r]
<1>1. AsLedger!Bump(w, a) = u
  BY Zenon DEF AsLedger!Bump, WithNonce
<1>2. /\ IsEntry(r) /\ r.nonce = w[a].nonce + 1 /\ r.balance = w[a].balance
      /\ r.created = w[a].created /\ r.orig = w[a].orig
  <2>1. IsEntry(w[a])
    BY DEF IsWorld
  <2>2. r = Entry(w[a].nonce + 1, w[a].balance, w[a].code, w[a].created, w[a].doomed, w[a].storage, w[a].orig)
    BY <2>1, EntryFields DEF IsEntry
  <2> QED BY <2>2, EntryIs, EntryMore
<1> HIDE DEF r
<1>3. Carried(a, w[a], r) /\ r.nonce # 0
  BY <1>2 DEF Carried, Still, Alive
<1>4. IsWorld(u) /\ Carries(w, u) /\ u[a] = r /\ \A b \in Addr \ {a} : u[b] = w[b]
  BY <1>2, <1>3, CarriesAt
<1> QED BY <1>1, <1>2, <1>3, <1>4

(* What a debit leaves of the balance.                                     *)
LEMMA DebitBalance ==
  ASSUME NEW w, IsWorld(w), NEW a \in Addr, NEW v \in Nat, w[a].balance \in Nat
  PROVE  AsLedger!Debit(w, a, v)[a].balance = w[a].balance - v
<1> DEFINE r == Poorer(w[a], v)
           u == [w EXCEPT ![a] = r]
<1>1. AsLedger!Debit(w, a, v) = IF v = 0 THEN w ELSE u
  BY DebitIs
<1>2. r.balance = w[a].balance - v
  <2>1. IsEntry(w[a])
    BY DEF IsWorld
  <2> DEFINE n == w[a].balance - v
  <2> HIDE DEF n
  <2>2. Valued(w[a], n) = Entry(w[a].nonce, n, w[a].code, w[a].created, w[a].doomed, w[a].storage, w[a].orig)
    BY <2>1, EntryMore DEF IsEntry
  <2>3. \E t, o : AsLedger!Exist(Valued(w[a], n)) =
                  Entry(w[a].nonce, n, w[a].code, w[a].created, w[a].doomed, t, o)
    BY <2>2, ExistEntry
  <2>4. AsLedger!Exist(Valued(w[a], n)).balance = n
    BY <2>3, EntryMore
  <2> QED BY <2>4 DEF Poorer, n
<1> HIDE DEF r
<1>3. u[a] = r
  BY SetAt
<1> QED BY <1>1, <1>2, <1>3

(* A debit: who pays runs or sends, and the sender leaves no slots behind. *)
LEMMA DebitCarries ==
  ASSUME NEW w, IsWorld(w), NEW a \in Addr, Alive(w[a]) \/ a = Sender, NEW v
  PROVE  Carries(w, AsLedger!Debit(w, a, v))
<1> DEFINE n == w[a].balance - v
           r == Poorer(w[a], v)
           o == w[a].orig
<1>1. AsLedger!Debit(w, a, v) = IF v = 0 THEN w ELSE [w EXCEPT ![a] = r]
  BY DebitIs
<1>2. IsEntry(w[a])
  BY DEF IsWorld
<1> HIDE DEF n
<1>3. Valued(w[a], n) = Entry(w[a].nonce, n, w[a].code, w[a].created, w[a].doomed, w[a].storage, o)
  BY <1>2, EntryMore DEF IsEntry
<1>4. AsLedger!Exist(Valued(w[a], n)) =
        IF w[a].nonce = 0 /\ n = 0 /\ w[a].code = NoCode
        THEN Entry(w[a].nonce, n, w[a].code, w[a].created, w[a].doomed, Zeros, Zeros)
        ELSE Entry(w[a].nonce, n, w[a].code, w[a].created, w[a].doomed, w[a].storage, o)
  BY <1>3, ExistEntry
<1>5. r = AsLedger!Exist(Valued(w[a], n))
  BY DEF Poorer, n
<1> HIDE DEF r
<1>6. /\ IsEntry(r) /\ r.nonce = w[a].nonce /\ r.code = w[a].code /\ r.created = w[a].created
      /\ \/ r.storage = w[a].storage /\ r.orig = o
         \/ ~Alive(w[a]) /\ r.storage = Zeros /\ r.orig = Zeros
  <2>1. CASE w[a].nonce = 0 /\ n = 0 /\ w[a].code = NoCode
    <3>1. r = Entry(w[a].nonce, n, w[a].code, w[a].created, w[a].doomed, Zeros, Zeros)
      BY <1>4, <1>5, <2>1
    <3>2. /\ IsEntry(r) /\ r.nonce = w[a].nonce /\ r.code = w[a].code /\ r.created = w[a].created
          /\ r.storage = Zeros /\ r.orig = Zeros
      BY <3>1, EntryIs, EntryMore
    <3>3. ~Alive(w[a])
      BY <2>1 DEF Alive
    <3> QED BY <3>2, <3>3
  <2>2. CASE ~(w[a].nonce = 0 /\ n = 0 /\ w[a].code = NoCode)
    <3>1. r = Entry(w[a].nonce, n, w[a].code, w[a].created, w[a].doomed, w[a].storage, o)
      BY <1>4, <1>5, <2>2
    <3> QED BY <3>1, EntryIs, EntryMore
  <2> QED BY <2>1, <2>2
<1>7. Carried(a, w[a], r)
  BY <1>6 DEF Carried, Still, Alive
<1> QED BY <1>1, <1>6, <1>7, CarriesAt, CarriesSelf

(* A credit.                                                               *)
LEMMA CreditCarries ==
  ASSUME NEW w, IsWorld(w), NEW a \in Addr, NEW v
  PROVE  Carries(w, AsLedger!Credit(w, a, v))
<1> DEFINE n == w[a].balance + v
           r == Valued(w[a], n)
<1>1. AsLedger!Credit(w, a, v) = [w EXCEPT ![a] = r]
  BY Zenon DEF AsLedger!Credit, Valued
<1>2. IsEntry(w[a])
  BY DEF IsWorld
<1> HIDE DEF n
<1>3. r = Entry(w[a].nonce, n, w[a].code, w[a].created, w[a].doomed, w[a].storage, w[a].orig)
  BY <1>2, EntryMore DEF IsEntry
<1>4. /\ IsEntry(r) /\ r.nonce = w[a].nonce /\ r.code = w[a].code /\ r.created = w[a].created
      /\ r.storage = w[a].storage /\ r.orig = w[a].orig
  BY <1>3, EntryIs, EntryMore
<1> HIDE DEF r
<1>5. Carried(a, w[a], r)
  BY <1>4 DEF Carried, Still, Alive
<1>6. Carries(w, [w EXCEPT ![a] = r])
  BY <1>4, <1>5, CarriesAt
<1> QED BY <1>1, <1>6

(* A payment.                                                              *)
LEMMA PayCarries ==
  ASSUME NEW w, IsWorld(w), NEW src \in Addr, NEW dst \in Addr, NEW v, Alive(w[src]) \/ src = Sender
  PROVE  Carries(w, AsLedger!Pay(w, src, dst, v))
<1> DEFINE q == AsLedger!Debit(w, src, v)
           p == AsLedger!Credit(q, dst, v)
<1>1. IsWorld(q) /\ Carries(w, q)
  BY DebitKeeps, DebitCarries
<1>2. AsLedger!Pay(w, src, dst, v) = IF src = dst THEN w ELSE p
  BY DEF AsLedger!Pay
<1> HIDE DEF q
<1>3. Carries(q, p)
  BY <1>1, CreditCarries
<1> HIDE DEF p
<1> QED BY <1>1, <1>2, <1>3, CarriesOn, CarriesSelf

(* A newborn account has a nonce, and had no slots.                        *)
LEMMA NewbornIs ==
  ASSUME NEW r, IsEntry(r), r.nonce \in Nat, ~AsLedger!Occupied(r), NEW a
  PROVE  LET n == AsLedger!Newborn(r) IN n.nonce # 0 /\ IsEntry(n) /\ Carried(a, r, n)
<1>1. AsLedger!Newborn(r) = Fresh(r, TRUE, Zeros)
  BY NewbornFresh
<1>2. \A yes : Fresh(r, yes, Zeros) = Entry(r.nonce + 1, r.balance, r.code, yes, r.doomed, Zeros, Zeros)
  BY FreshSteps, EntryFields DEF IsEntry
<1>3. \A yes : LET f == Fresh(r, yes, Zeros) IN f.nonce = r.nonce + 1 /\ IsEntry(f) /\ f.orig = Zeros
  BY <1>2, EntryMore DEF IsEntry
<1>4. Fresh(r, TRUE, Zeros).nonce = r.nonce + 1 /\ IsEntry(Fresh(r, TRUE, Zeros))
      /\ Fresh(r, TRUE, Zeros).orig = Zeros
  BY <1>3, Zenon
<1> DEFINE f == Fresh(r, TRUE, Zeros)
<1>5. f.nonce # 0 /\ IsEntry(f) /\ AsLedger!Newborn(r) = f /\ f.orig = Zeros
  <2>1. f.nonce = r.nonce + 1 /\ IsEntry(f) /\ AsLedger!Newborn(r) = f /\ f.orig = Zeros
    BY <1>1, <1>4, Zenon
  <2> HIDE DEF f
  <2> QED BY <2>1
<1> HIDE DEF f
<1>6. ~Alive(r) /\ r.storage = Zeros
  BY DEF AsLedger!Occupied, Alive, AsLedger!NoStorage, Zeros
<1>7. Carried(a, r, f)
  BY <1>5, <1>6 DEF Carried, Still, Alive
<1> QED BY <1>5, <1>7

(* A creation over a free address: the creator runs or sends.              *)
LEMMA BornKeeps ==
  ASSUME NEW w, IsWorld(w), NEW creator \in Addr, Alive(w[creator]) \/ creator = Sender,
         NEW a \in Addr, NEW v, w[a].nonce \in Nat, ~AsLedger!Occupied(w[a])
  PROVE  LET u == AsLedger!Born(w, creator, a, v)
         IN Carries(w, u) /\ u[a].nonce # 0
<1> DEFINE r == AsLedger!Newborn(w[a])
           p == [w EXCEPT ![a] = r]
           u == AsLedger!Born(w, creator, a, v)
<1>1. u = AsLedger!Pay(p, creator, a, v)
  BY Zenon DEF AsLedger!Born
<1>2. r.nonce # 0 /\ IsEntry(r) /\ Carried(a, w[a], r)
  BY NewbornIs DEF IsWorld
<1> HIDE DEF r, u
<1>3. IsWorld(p) /\ Carries(w, p) /\ p[a] = r /\ \A b \in Addr \ {a} : p[b] = w[b]
  BY <1>2, CarriesAt
<1> HIDE DEF p
<1>4. Alive(p[creator]) \/ creator = Sender
  BY <1>2, <1>3 DEF Alive
<1>5. Carries(p, u)
  BY <1>1, <1>3, <1>4, PayCarries
<1>6. u[a].nonce # 0
  BY <1>2, <1>3, <1>5 DEF Carries, Carried
<1> QED BY <1>3, <1>5, <1>6, CarriesOn DEF u

(* A self-destruction: the account lives to the end of its transaction.    *)
LEMMA DestructKeeps ==
  ASSUME NEW w, IsWorld(w), NEW a \in Addr, Alive(w[a]), NEW b \in Addr
  PROVE  Carries(w, AsLedger!Destruct(w, a, b))
<1> DEFINE paid == AsLedger!Pay(w, a, b, w[a].balance)
           dooms == [paid EXCEPT ![a].doomed = TRUE]
           bare == AsLedger!Debit(dooms, a, dooms[a].balance)
<1>1. AsLedger!Destruct(w, a, b) = IF fork # "Shanghai" /\ ~w[a].created THEN paid
                                   ELSE IF fork = "Amsterdam" THEN dooms ELSE bare
  BY Zenon DEF AsLedger!Destruct
<1>2. IsWorld(paid) /\ Carries(w, paid)
  BY PayKeeps, PayCarries
<1> HIDE DEF paid
<1>3. \A yes : LET d == Dooms(paid, a, yes) IN IsWorld(d) /\ Carries(paid, d)
  <2> TAKE yes
  <2> DEFINE r == Doomed(paid[a], yes)
             d == [paid EXCEPT ![a] = r]
  <2>1. IsEntry(r) /\ Carried(a, paid[a], r)
    <3>1. IsEntry(paid[a])
      BY <1>2 DEF IsWorld
    <3> DEFINE p == paid[a]
    <3>2. r = Entry(p.nonce, p.balance, p.code, p.created, yes, p.storage, p.orig)
      BY <3>1, EntryMore DEF IsEntry
    <3>3. /\ IsEntry(r) /\ r.nonce = p.nonce /\ r.code = p.code /\ r.created = p.created
          /\ r.storage = p.storage /\ r.orig = p.orig
      BY <3>2, EntryIs, EntryMore
    <3> HIDE DEF r
    <3> QED BY <3>3 DEF Carried, Still, Alive
  <2> HIDE DEF r
  <2>2. IsWorld(d) /\ Carries(paid, d)
    BY <1>2, <2>1, CarriesAt
  <2> QED BY <2>2 DEF Dooms, r
<1>4. dooms = Dooms(paid, a, TRUE)
  BY Zenon DEF Dooms, Doomed
<1>5. IsWorld(dooms) /\ Carries(paid, dooms)
  BY <1>3, <1>4, Zenon
<1> HIDE DEF dooms
<1>6. fork # "Amsterdam" => Carries(dooms, bare)
  <2>1. \A c \in Addr : SameSelf(bare[c], dooms[c])
    BY <1>5, DebitKeeps
  <2> QED BY <2>1 DEF SameSelf, Carries, Carried
<1> HIDE DEF bare
<1> QED BY <1>1, <1>2, <1>5, <1>6, CarriesOn

-----------------------------------------------------------------------------
(* The end of a transaction.                                               *)
Widens(x, y) == x.bal.accounts \subseteq y.bal.accounts /\ x.bal.reads \subseteq y.bal.reads

(* The access list only grows, over two steps as well.                     *)
LEMMA WidensStep ==
  ASSUME NEW x, NEW y, NEW z, Widens(x, y), Widens(y, z)
  PROVE  Widens(x, z)
BY DEF Widens

(* A transaction's operations let the access list grow.                    *)
LEMMA GrowsWidens ==
  ASSUME NEW x, NEW y, Grows(x, y)
  PROVE  Widens(x, y)
BY DEF Grows, Widens

(* No scope is open.                                                       *)
Whole(d) == Good(d) /\ Begun(d) /\ Len(ScopesOf(d)) = 0

(* Without frames, only the scopes around them are open.                   *)
LEMMA WholeOrdered ==
  ASSUME NEW d, NEW e \in Nat
  PROVE  Ordered(d, <<>>, e) <=> Good(d) /\ Begun(d) /\ Len(ScopesOf(d)) = e
<1>1. FramesAre(<<>>) /\ Len(<<>>) = 0
  BY DEF FramesAre, IsSeq
<1> QED BY <1>1 DEF Ordered

(* An operation outside every scope.                                       *)
LEMMA WholeActs ==
  ASSUME NEW x, Whole(x), NEW y, NEW w, Acts(x, y, w), Carries(View(x), w)
  PROVE  Whole(y) /\ View(y) = w /\ Grows(x, y)
<1>1. Ordered(x, <<>>, 0)
  BY WholeOrdered DEF Whole
<1>2. Ordered(y, <<>>, 0) /\ View(y) = w /\ Grows(x, y)
  BY <1>1, OrderedActs
<1> QED BY <1>2, WholeOrdered DEF Whole

(* Between transactions an account remembers the slots it has.             *)
LEMMA CleanShows ==
  ASSUME NEW y, Overlaid(y), Clean(y), NEW a \in Addr
  PROVE  LET q == View(y)[a]
         IN /\ q.nonce = Base(y, a).nonce /\ q.balance = Base(y, a).balance /\ q.code = Base(y, a).code
            /\ q.created = Base(y, a).created /\ ~Base(y, a).created
            /\ q.storage = SlotsBase(y, a) /\ q.orig = SlotsBase(y, a)
<1>1. IsHost(y) /\ IsSeq(y.journal) /\ BlockOK(y)
  BY DEF Overlaid, Shaped
<1> DEFINE st(b) == [s \in Slot |-> SlotBase(y, <<b, s>>)]
<1>2. View(y) = [b \in Addr |-> Shown(Base(y, b), st(b), st(b))]
  BY <1>1, CleanOverlaid
<1>3. st(a) = SlotsBase(y, a)
  BY DEF SlotsBase
<1> HIDE DEF st
<1>4. View(y)[a] = Shown(Base(y, a), SlotsBase(y, a), SlotsBase(y, a))
  BY <1>2, <1>3
<1>5. ~Base(y, a).created
  BY <1>1, BaseFine
<1> QED BY <1>4, <1>5 DEF Shown

(* A merge outside every scope.                                            *)
LEMMA WholeMerged ==
  ASSUME NEW x, Whole(x), NEW i, fork \in DOMAIN Blocks
  PROVE  LET y == k_tx_merge(x, i)
         IN Whole(y) /\ Clean(y) /\ View(y) = AsLedger!Finish(View(x)) /\ Widens(x, y)
<1> DEFINE y == k_tx_merge(x, i)
<1>1. Overlaid(x)
  BY DEF Whole, Good
<1>2. /\ Overlaid(y) /\ Clean(y) /\ y.journal = x.journal
      /\ View(y) = AsLedger!Finish(View(x))
      /\ x.bal.accounts \subseteq y.bal.accounts /\ y.bal.reads = x.bal.reads
  BY <1>1, Merged
<1> HIDE DEF y
<1>3. Len(ScopesOf(y)) = 0
  BY <1>2 DEF Whole, ScopesOf
<1>5. Starts(View(y), y)
  <2> SUFFICES ASSUME fork = "Amsterdam", NEW a \in Addr
               PROVE  /\ Still(a, View(y)[a]) /\ View(y)[a].orig = SlotsBase(y, a)
                      /\ View(y)[a].created => View(y)[a].orig = Zeros
    BY DEF Starts
  <2> DEFINE p == View(x)[a]
             q == View(y)[a]
  <2>1. /\ q.nonce = Base(y, a).nonce /\ q.code = Base(y, a).code /\ q.created = Base(y, a).created
        /\ q.storage = SlotsBase(y, a) /\ q.orig = SlotsBase(y, a) /\ ~Base(y, a).created
    BY <1>2, CleanShows
  <2>2. Still(a, p)
    BY DEF Whole, Begun, Starts
  <2>3. q = Finished(p) /\ IsEntry(p)
    <3>1. IsWorld(View(x))
      BY <1>1, ViewWorld
    <3> QED BY <1>2, <3>1, FinishIs DEF IsWorld
  <2>4. \/ q.storage = Zeros
        \/ q.nonce = p.nonce /\ q.code = p.code /\ q.storage = p.storage
    <3>1. q = IF p.doomed /\ (fork = "Shanghai" \/ p.created)
              THEN Rests(0, IF fork = "Amsterdam" THEN p.balance ELSE 0, NoCode, Zeros)
              ELSE Rests(p.nonce, p.balance, p.code, p.storage)
      BY <2>3, FinishedIs DEF IsEntry
    <3>2. \A n, b, c, t : LET e == Rests(n, b, c, t) IN e.nonce = n /\ e.code = c /\ e.storage = t
      BY DEF Rests, Entry
    <3> HIDE DEF p, q
    <3> QED BY <3>1, <3>2
  <2> HIDE DEF p, q
  <2> QED BY <2>1, <2>2, <2>4 DEF Still, Alive, p, q
<1>4. Whole(y)
  BY <1>2, <1>3, <1>5 DEF Whole, Good, Begun
<1> QED BY <1>2, <1>4 DEF Widens, y

(* y is what the merge at index i leaves of what x has grown to.           *)
Merging(x, y, i) == \E z : Grows(x, z) /\ Whole(z) /\ y = k_tx_merge(z, i)

(* A merge after other operations.                                         *)
LEMMA MergingStep ==
  ASSUME NEW x, NEW y, Grows(x, y), NEW z, NEW i, Merging(y, z, i)
  PROVE  Merging(x, z, i)
BY GrowsStep DEF Merging

(* A merge lets the access list grow.                                      *)
LEMMA MergingWidens ==
  ASSUME NEW x, NEW y, NEW i, Merging(x, y, i), fork \in DOMAIN Blocks
  PROVE  Widens(x, y)
<1>1. PICK z : Grows(x, z) /\ Whole(z) /\ y = k_tx_merge(z, i)
  BY DEF Merging
<1>2. Widens(z, y)
  BY <1>1, WholeMerged
<1> QED BY <1>1, <1>2, GrowsWidens, WidensStep

(* Paying the coinbase outside every scope.                                *)
LEMMA WholeSettled ==
  ASSUME NEW x, Whole(x), fork \in DOMAIN Blocks
  PROVE  LET y == Settled(x)
         IN Whole(y) /\ View(y) = AsLedger!Credit(View(x), Coinbase, Fee) /\ Grows(x, y)
<1> DEFINE p == k_add_balance(x, Sender, 0)
           y == k_add_balance(p, Coinbase, Fee)
<1>0. Sender \in Addr /\ Coinbase \in Addr /\ Fee \in Nat /\ 0 \in Nat
  BY AddressAssumption, BlockAssumption, AmountAssumption DEF Coinbase
<1>1. Overlaid(x)
  BY DEF Whole, Good
<1>2. Acts(x, p, AsLedger!Credit(View(x), Sender, 0))
  BY <1>0, <1>1, Added
<1>3. AsLedger!Credit(View(x), Sender, 0) = View(x)
  BY <1>0, <1>1, NothingAdded
<1> HIDE DEF p
<1>4. Whole(p) /\ View(p) = View(x) /\ Grows(x, p)
  BY <1>2, <1>3, CarriesSelf, WholeActs
<1>5. Acts(p, y, AsLedger!Credit(View(p), Coinbase, Fee))
  BY <1>0, <1>4, Added DEF Whole, Good
<1> HIDE DEF y
<1>8. Carries(View(p), AsLedger!Credit(View(p), Coinbase, Fee))
  <2>1. IsWorld(View(p))
    BY <1>4, ViewWorld DEF Whole, Good
  <2> QED BY <1>0, <2>1, CreditCarries
<1>6. Whole(y) /\ View(y) = AsLedger!Credit(View(x), Coinbase, Fee) /\ Grows(p, y)
  BY <1>4, <1>5, <1>8, WholeActs
<1>7. Settled(x) = y
  BY Zenon DEF Settled, p, y
<1> QED BY <1>4, <1>6, <1>7, GrowsStep

(* Closing the only scope.                                                 *)
LEMMA WholeCommitted ==
  ASSUME NEW x, Good(x), Begun(x), Len(ScopesOf(x)) = 1
  PROVE  LET y == state_journal_commit(x) IN Whole(y) /\ View(y) = View(x) /\ Grows(x, y)
<1> DEFINE y == state_journal_commit(x)
<1>1. Len(ScopesOf(x)) > 0
  OBVIOUS
<1>2. Good(y) /\ View(y) = View(x) /\ Grows(x, y) /\ Len(ScopesOf(y)) = Len(ScopesOf(x)) - 1
  BY <1>1, Committed
<1> HIDE DEF y
<1>3. Begun(y)
  <2>1. Starts(View(x), x) /\ Len(ScopesOf(y)) = 0
    BY <1>2 DEF Begun
  <2> QED BY <1>2, <2>1, StartsOn, CarriesSelf DEF Begun
<1>4. Whole(y)
  BY <1>2, <1>3 DEF Whole
<1> QED BY <1>2, <1>4 DEF y

(* The scope that a transaction has around that of its outermost frame.    *)
Extra == IF phase = "body" /\ fork = "Amsterdam" THEN 1 ELSE 0

(* EndOfOutermost: the outer scope of an Amsterdam transaction is closed,  *)
(* the fees are paid, and the overlay is merged.                           *)
LEMMA Ends ==
  ASSUME NEW x, Ordered(x, <<>>, Extra), fork \in DOMAIN Blocks
  PROVE  LET y == EndOfOutermost(x)
         IN Whole(y) /\ Clean(y) /\ View(y) = AsLedger!Settled(View(x))
            /\ Merging(x, y, Index)
<1> DEFINE p == IF fork = "Amsterdam" THEN state_journal_commit(x) ELSE x
<1>0. Good(x) /\ Begun(x) /\ Len(ScopesOf(x)) = Extra
  <2>1. Extra \in Nat
    BY DEF Extra
  <2> QED BY <2>1, WholeOrdered
<1>1. CASE phase # "body"
  <2>1. Whole(x)
    BY <1>0, <1>1 DEF Extra, Whole
  <2>2. AsLedger!Settled(View(x)) = AsLedger!Finish(View(x))
    BY <1>1 DEF AsLedger!Settled
  <2>3. EndOfOutermost(x) = k_tx_merge(x, Index)
    BY <1>1 DEF EndOfOutermost
  <2>4. Merging(x, EndOfOutermost(x), Index)
    BY <2>1, <2>3, SameGrows DEF Merging
  <2> QED BY <2>1, <2>2, <2>3, <2>4, WholeMerged
<1>2. CASE phase = "body"
  <2>1. Whole(p) /\ View(p) = View(x) /\ Grows(x, p)
    <3>1. CASE fork = "Amsterdam"
      BY <1>0, <1>2, <3>1, WholeCommitted DEF Extra
    <3>2. CASE fork # "Amsterdam"
      BY <1>0, <1>2, <3>2, SameGrows DEF Extra, Whole
    <3> QED BY <3>1, <3>2
  <2>2. EndOfOutermost(x) = k_tx_merge(Settled(p), Index)
    BY <1>2, Zenon DEF EndOfOutermost
  <2>3. AsLedger!Settled(View(x)) = AsLedger!Finish(AsLedger!Credit(View(x), Coinbase, Fee))
    BY <1>2 DEF AsLedger!Settled, Coinbase
  <2> HIDE DEF p
  <2> DEFINE s == Settled(p)
  <2>4. Whole(s) /\ View(s) = AsLedger!Credit(View(x), Coinbase, Fee) /\ Grows(p, s)
    BY <2>1, WholeSettled
  <2> HIDE DEF s
  <2> DEFINE y == k_tx_merge(s, Index)
  <2>5. Whole(y) /\ Clean(y) /\ View(y) = AsLedger!Finish(View(s))
    BY <2>4, WholeMerged
  <2>6. EndOfOutermost(x) = y
    BY <2>2 DEF s
  <2>7. Merging(x, y, Index)
    BY <2>1, <2>4, GrowsStep DEF Merging
  <2> HIDE DEF y
  <2> QED BY <2>3, <2>4, <2>5, <2>6, <2>7
<1> QED BY <1>1, <1>2

-----------------------------------------------------------------------------
(* The beginning of a transaction: what it pays, and the scope around its  *)
(* outermost frame.                                                        *)
Paid(d) == k_bump_nonce(k_add_balance(k_aload(k_tx_reset(d), Sender), Sender, 0 - Fee), Sender)
Prepared(d) == IF fork = "Amsterdam" THEN state_journal_checkpoint(Paid(d)) ELSE Paid(d)
Scope == IF fork = "Amsterdam" THEN 1 ELSE 0
Charges(w) == AsLedger!Bump(AsLedger!Debit(w, Sender, Fee), Sender)

(* Upfront opens the scope of the outermost frame last.                    *)
LEMMA UpfrontIs ==
  ASSUME NEW d
  PROVE  Upfront(d) = state_journal_checkpoint(Prepared(d))
BY Zenon DEF Upfront, Prepared, Paid

(* The fee leaves the sender before the nonce is spent, so a sender left   *)
(* empty for a moment is deleted and comes back.                           *)
LEMMA PaidIs ==
  ASSUME NEW x, Whole(x), Clean(x), Fee <= View(x)[Sender].balance
  PROVE  LET y == Paid(x)
         IN /\ Whole(y) /\ View(y) = Charges(View(x)) /\ Grows(x, y)
            /\ View(y)[Sender].balance = View(x)[Sender].balance - Fee
<1> DEFINE r == k_tx_reset(x)
           l == k_aload(r, Sender)
           p == k_add_balance(l, Sender, 0 - Fee)
           y == k_bump_nonce(p, Sender)
<1>0. Sender \in Addr /\ Fee \in Nat
  BY AddressAssumption, AmountAssumption
<1>1. Whole(r) /\ View(r) = View(x) /\ Grows(x, r)
  <2>1. Overlaid(x) /\ Starts(View(x), x)
    BY DEF Whole, Good, Begun
  <2>2. Good(r) /\ Len(ScopesOf(r)) = 0 /\ View(r) = View(x) /\ Grows(x, r)
    BY <2>1, TxReset
  <2> HIDE DEF r
  <2>3. Begun(r)
    BY <2>1, <2>2, StartsOn, CarriesSelf DEF Begun
  <2> QED BY <2>2, <2>3 DEF Whole
<1> HIDE DEF r
<1>2. Reads(r, l)
  BY <1>0, <1>1, Aload DEF Whole, Good
<1> HIDE DEF l
<1>3. Whole(l) /\ View(l) = View(x) /\ Grows(r, l)
  <2>1. Acts(r, l, View(x))
    BY <1>1, <1>2 DEF Reads, Acts
  <2> QED BY <1>1, <2>1, WholeActs, CarriesSelf
<1>4. Overlaid(l)
  BY <1>3 DEF Whole, Good
<1>5. Acts(l, p, AsLedger!Debit(View(l), Sender, Fee))
  BY <1>0, <1>3, <1>4, Subtracted
<1> HIDE DEF p
<1>6. Whole(p) /\ View(p) = AsLedger!Debit(View(x), Sender, Fee) /\ Grows(l, p)
  <2>1. Carries(View(l), AsLedger!Debit(View(l), Sender, Fee))
    BY <1>0, <1>4, ViewWorld, DebitCarries
  <2> QED BY <1>3, <1>5, <2>1, WholeActs
<1>7. Overlaid(p)
  BY <1>6 DEF Whole, Good
<1>8. Acts(p, y, AsLedger!Bump(View(p), Sender))
  BY <1>0, <1>7, Bumped
<1> HIDE DEF y
<1>9. Whole(y) /\ View(y) = AsLedger!Bump(View(p), Sender) /\ Grows(p, y)
  <2>1. IsWorld(View(p)) /\ View(p)[Sender].nonce \in Nat
    BY <1>0, <1>7, ViewWorld, ViewOf
  <2>2. Carries(View(p), AsLedger!Bump(View(p), Sender))
    BY <1>0, <2>1, BumpKeeps
  <2> QED BY <1>6, <1>8, <2>2, WholeActs
<1>10. Grows(x, y)
  BY <1>1, <1>3, <1>6, <1>9, GrowsStep
<1>11. View(p)[Sender].balance = View(x)[Sender].balance - Fee
  <2>1. IsWorld(View(x)) /\ View(x)[Sender].balance \in Nat
    BY <1>0, ViewWorld, ViewOf DEF Whole, Good
  <2> QED BY <1>0, <1>6, <2>1, DebitBalance
<1>12. View(y)[Sender].balance = View(p)[Sender].balance
  <2>1. IsWorld(View(p)) /\ View(p)[Sender].nonce \in Nat
    BY <1>0, <1>7, ViewWorld, ViewOf
  <2> QED BY <1>0, <1>9, <2>1, BumpKeeps
<1>13. Paid(x) = y
  BY Zenon DEF Paid, y, p, l, r
<1> QED BY <1>6, <1>9, <1>10, <1>11, <1>12, <1>13 DEF Charges

(* A prepared transaction has charged its sender; from Amsterdam on a      *)
(* scope is open that no failure of the frame undoes.                      *)
LEMMA PreparedIs ==
  ASSUME NEW x, Whole(x), Clean(x), Fee <= View(x)[Sender].balance
  PROVE  LET y == Prepared(x)
         IN /\ Ordered(y, <<>>, Scope) /\ View(y) = Charges(View(x)) /\ Grows(x, y)
            /\ View(y)[Sender].balance = View(x)[Sender].balance - Fee
            /\ SavedViews(y) = IF fork = "Amsterdam" THEN <<View(y)>> ELSE <<>>
<1> DEFINE p == Paid(x)
           c == state_journal_checkpoint(p)
<1>1. /\ Whole(p) /\ View(p) = Charges(View(x)) /\ Grows(x, p)
      /\ View(p)[Sender].balance = View(x)[Sender].balance - Fee
  BY PaidIs
<1>2. Prepared(x) = IF fork = "Amsterdam" THEN c ELSE p
  BY Zenon DEF Prepared
<1> HIDE DEF p
<1>3. SavedViews(p) = <<>> /\ Good(p) /\ Begun(p) /\ Len(ScopesOf(p)) = 0
  BY <1>1, NoSaved DEF Whole
<1>4. CASE fork # "Amsterdam"
  <2>1. Prepared(x) = p /\ Scope = 0 /\ Scope \in Nat
    BY <1>2, <1>4 DEF Scope
  <2>2. Ordered(p, <<>>, Scope)
    BY <1>3, <2>1, WholeOrdered
  <2> QED BY <1>1, <1>3, <1>4, <2>1, <2>2
<1>5. CASE fork = "Amsterdam"
  <2>1. Prepared(x) = c /\ Scope = 1 /\ Scope \in Nat
    BY <1>2, <1>5 DEF Scope
  <2>2. /\ Good(c) /\ View(c) = View(p) /\ Grows(p, c) /\ SavedViews(c) = Append(SavedViews(p), View(p))
        /\ Len(ScopesOf(c)) = Len(ScopesOf(p)) + 1
    BY <1>3, Checkpointed
  <2> HIDE DEF c
  <2>3. Ordered(c, <<>>, Scope)
    <3>1. Len(ScopesOf(c)) = Scope
      BY <1>3, <2>1, <2>2
    <3>2. \A n \in 1 .. Len(ScopesOf(c)) : SavedViews(c)[n] = View(p)
      BY <1>3, <2>1, <2>2, <3>1
    <3>3. Begun(c)
      BY <1>3, <2>2, <3>2, CarriesSelf, BegunOn DEF Begun
    <3> QED BY <2>1, <2>2, <3>1, <3>3, WholeOrdered
  <2>4. SavedViews(c) = <<View(c)>>
    BY <1>3, <2>2
  <2>5. Grows(x, c)
    BY <1>1, <2>2, GrowsStep
  <2> QED BY <1>1, <1>5, <2>1, <2>2, <2>3, <2>4, <2>5
<1> QED BY <1>4, <1>5

-----------------------------------------------------------------------------
(* The invariant: between transactions the tables are empty and no scope   *)
(* is open; otherwise every frame has its scope.                           *)
LedgerInv ==
  /\ fork \in DOMAIN Blocks /\ calls \in Seq(Addr)
  /\ world = View(db) /\ saved = SavedViews(db)
  /\ IF frames = <<>> THEN Whole(db) /\ Clean(db) ELSE Ordered(db, frames, Extra)

(* The invariant of the next state, whose fork is the same.                *)
LEMMA InvNext ==
  ASSUME fork' = fork
  PROVE  LedgerInv' <=>
           /\ fork \in DOMAIN Blocks /\ calls' \in Seq(Addr)
           /\ world' = View(db') /\ saved' = SavedViews(db')
           /\ IF frames' = <<>> THEN Whole(db') /\ Clean(db') ELSE Ordered(db', frames', Extra')
BY DEF LedgerInv, Whole, Ordered, Begun, Starts

(* What ViewNext adds to a step, and what is shown of every step: a host   *)
(* that does not merge keeps the changes listed, one that does merges at   *)
(* the index of the new state.                                             *)
Tracks == UNCHANGED fork /\ world' = View(db') /\ saved' = SavedViews(db')
Lists == \/ Grows(db, db')
         \/ Merging(db, db', Index') /\ frames' = <<>>
Implements == LedgerInv' /\ [AsLedger!Next]_(AsLedger!vars) /\ Lists

(* A sequence of length zero is the empty one.                             *)
LEMMA EmptySeq ==
  ASSUME NEW s, IsSeq(s)
  PROVE  s = <<>> <=> Len(s) = 0
<1>1. Len(<<>>) = 0
  OBVIOUS
<1>2. ASSUME Len(s) = 0 PROVE s = <<>>
  <2>1. s = [i \in 1 .. 0 |-> s[i]]
    BY <1>2 DEF IsSeq
  <2> QED BY <2>1
<1> QED BY <1>1, <1>2

(* The innermost frame.                                                    *)
LEMMA InnermostIs ==
  ASSUME LedgerInv, frames # <<>>
  PROVE  /\ Ordered(db, frames, Extra) /\ Extra \in Nat /\ Len(frames) \in Nat /\ Len(frames) > 0
         /\ Self \in Addr /\ AsLedger!Self = Self /\ AsLedger!Top = frames[Len(frames)]
         /\ IsFrame(frames[Len(frames)]) /\ IsSeq(frames) /\ FramesAre(frames)
         /\ frames[Len(frames)].kind = "create" => world[Self].nonce # 0
         /\ Self \in db.bal.accounts
         /\ Overlaid(db) /\ Good(db) /\ IsWorld(world)
         /\ \A a \in Addr : /\ world[a].nonce = Loaded(db, a).nonce /\ world[a].balance = Loaded(db, a).balance
                            /\ world[a].code = Loaded(db, a).code
                            /\ world[a].nonce \in Nat /\ world[a].balance \in Nat
<1>1. Ordered(db, frames, Extra) /\ Extra \in Nat
  BY DEF LedgerInv, Extra
<1>2. FramesAre(frames) /\ Good(db) /\ IsSeq(frames) /\ Overlaid(db)
  BY <1>1 DEF Ordered, FramesAre, Good
<1>3. Len(frames) \in Nat /\ Len(frames) > 0
  BY <1>2, EmptySeq DEF IsSeq
<1>4. Len(frames) \in 1 .. Len(frames)
  BY <1>3
<1>5. IsFrame(frames[Len(frames)])
  BY <1>2, <1>4 DEF FramesAre
<1>6. Self \in Addr /\ Self = frames[Len(frames)].addr
  BY <1>5 DEF Self, IsFrame
<1>7. AsLedger!Self = Self /\ AsLedger!Top = frames[Len(frames)]
  BY DEF AsLedger!Self, AsLedger!Top, Self
<1>8. Keeps(View(db), frames[Len(frames)]) /\ frames[Len(frames)].addr \in db.bal.accounts
  BY <1>1, <1>4 DEF Ordered
<1>9. world = View(db)
  BY DEF LedgerInv
<1>10. IsWorld(world) /\ \A a \in Addr : /\ world[a].nonce = Loaded(db, a).nonce
                                         /\ world[a].balance = Loaded(db, a).balance
                                         /\ world[a].code = Loaded(db, a).code
                                         /\ world[a].nonce \in Nat /\ world[a].balance \in Nat
  BY <1>2, <1>9, ViewWorld, ViewOf
<1> QED BY <1>1, <1>2, <1>3, <1>5, <1>6, <1>7, <1>8, <1>9, <1>10 DEF Keeps

(* A frame that runs has an account with a nonce or code, in the host as   *)
(* in the ledger.                                                          *)
LEMMA RunningIs ==
  ASSUME LedgerInv, Running
  PROVE  frames # <<>> /\ AsLedger!Runs /\ Alive(world[Self]) /\ Alive(Loaded(db, Self))
<1>1. frames # <<>>
  BY DEF Running, InFrame
<1>2. frames[Len(frames)].kind = "create" \/ Loaded(db, Self).code # NoCode
  BY DEF Running
<1>3. /\ frames[Len(frames)].kind = "create" => world[Self].nonce # 0
      /\ world[Self].nonce = Loaded(db, Self).nonce /\ world[Self].code = Loaded(db, Self).code
      /\ AsLedger!Self = Self /\ AsLedger!Top = frames[Len(frames)]
  BY <1>1, InnermostIs
<1> QED BY <1>1, <1>2, <1>3 DEF AsLedger!Runs, Alive

(* An operation of the innermost frame that leads to the world w.          *)
LEMMA Operated ==
  ASSUME LedgerInv, Tracks, frames # <<>>, UNCHANGED <<frames, control>>,
         NEW w, Acts(db, db', w), Carries(world, w)
  PROVE  LedgerInv' /\ Grows(db, db') /\ world' = w /\ saved' = saved
<1>1. Ordered(db, frames, Extra) /\ Extra \in Nat /\ world = View(db) /\ saved = SavedViews(db)
  BY InnermostIs DEF LedgerInv
<1>2. /\ Ordered(db', frames, Extra) /\ View(db') = w /\ SavedViews(db') = SavedViews(db)
      /\ Grows(db, db')
  BY <1>1, OrderedActs
<1>3. world' = w /\ saved' = saved
  BY <1>1, <1>2 DEF Tracks
<1>4. frames' = frames /\ phase' = phase /\ fork' = fork /\ calls' = calls
  BY DEF Tracks, control
<1>5. Extra' = Extra
  BY <1>4 DEF Extra
<1>6. Ordered(db', frames', Extra')
  BY <1>2, <1>4, <1>5
<1>7. LedgerInv'
  BY <1>4, <1>6, InvNext DEF LedgerInv, Tracks
<1> QED BY <1>2, <1>3, <1>7

(* Sload is a stutter of the ledger, and lists the slot.                   *)
LEMMA LedgerSload ==
  ASSUME LedgerInv, Tracks, NEW s \in Slot, Sload(s)
  PROVE  Implements /\ <<Self, s>> \in db'.bal.reads
<1>1. frames # <<>> /\ db' = k_sload(db, Self, s) /\ UNCHANGED <<frames, control>>
  BY RunningIs DEF Sload, Instruction
<1>2. Reads(db, db') /\ <<Self, s>> \in db'.bal.reads
  <2>1. Overlaid(db) /\ Self \in Addr
    BY <1>1, InnermostIs
  <2> QED BY <1>1, <2>1, SloadReads
<1>3. Acts(db, db', world)
  BY <1>2 DEF Reads, Acts, LedgerInv
<1>4. LedgerInv' /\ Grows(db, db') /\ world' = world /\ saved' = saved
  BY <1>1, <1>3, Operated, CarriesSelf
<1>5. UNCHANGED AsLedger!vars
  BY <1>1, <1>4 DEF AsLedger!vars, control, Tracks
<1> QED BY <1>2, <1>4, <1>5 DEF Implements, Lists

(* Sstore implements Store, and lists the slot.                            *)
LEMMA LedgerSstore ==
  ASSUME LedgerInv, Tracks, NEW s \in Slot, NEW v \in Word, Sstore(s, v)
  PROVE  Implements /\ <<Self, s>> \in db'.bal.reads
<1>1. frames # <<>> /\ db' = execute_sstore(db, Self, s, v) /\ UNCHANGED <<frames, control>>
      /\ AsLedger!Runs /\ Alive(Loaded(db, Self)) /\ Alive(world[Self])
  BY RunningIs DEF Sstore, Instruction
<1>2. Overlaid(db) /\ Self \in Addr /\ IsWorld(world) /\ AsLedger!Self = Self /\ world = View(db)
  BY <1>1, InnermostIs DEF LedgerInv
<1> DEFINE w == [world EXCEPT ![Self].storage[s] = v]
<1>3. Acts(db, db', w) /\ <<Self, s>> \in db'.bal.reads
  BY <1>1, <1>2, Sstored DEF Acts
<1>4. Carries(world, w)
  BY <1>1, <1>2, StoreKeeps
<1>5. LedgerInv' /\ Grows(db, db') /\ world' = w /\ saved' = saved
  <2> HIDE DEF w
  <2> QED BY <1>1, <1>3, <1>4, Operated
<1>6. AsLedger!Store(s, v)
  BY <1>1, <1>2, <1>5 DEF AsLedger!Store, control
<1>7. AsLedger!Next
  BY <1>6 DEF AsLedger!Next, AsLedger!Step, Tracks, Word
<1> QED BY <1>3, <1>5, <1>7 DEF Implements, Lists

(* Nothing is empty that something was appended to.                        *)
LEMMA AppendedIs ==
  ASSUME NEW s, IsSeq(s), NEW e
  PROVE  Append(s, e) # <<>>
<1>1. Len(Append(s, e)) = Len(s) + 1 /\ Len(s) \in Nat
  BY SeqAppend DEF IsSeq
<1>2. Len(<<>>) = 0
  OBVIOUS
<1> QED BY <1>1, <1>2

(* A frame f is entered from the world u, and begins in w.                 *)
LEMMA Entering ==
  ASSUME LedgerInv, Tracks, frames # <<>>, UNCHANGED control,
         NEW x, NEW u, Acts(db, x, u), Carries(world, u),
         NEW w, Acts(state_journal_checkpoint(x), db', w), Carries(u, w),
         NEW f, IsFrame(f), f.addr \in db'.bal.accounts, Keeps(w, f), frames' = Append(frames, f)
  PROVE  LedgerInv' /\ Grows(db, db') /\ world' = w /\ saved' = Append(saved, u)
<1>1. Ordered(db, frames, Extra) /\ Extra \in Nat /\ world = View(db) /\ saved = SavedViews(db)
      /\ IsSeq(frames)
  BY InnermostIs DEF LedgerInv
<1>2. /\ Ordered(x, frames, Extra) /\ View(x) = u /\ SavedViews(x) = SavedViews(db)
      /\ Grows(db, x)
  BY <1>1, OrderedActs
<1>3. /\ Ordered(db', Append(frames, f), Extra) /\ View(db') = w
      /\ SavedViews(db') = Append(SavedViews(x), View(x)) /\ Grows(x, db')
  BY <1>1, <1>2, OrderedEnters
<1>4. world' = w /\ saved' = Append(saved, u)
  BY <1>1, <1>2, <1>3 DEF Tracks
<1>5. phase' = phase /\ fork' = fork /\ calls' = calls
  BY DEF Tracks, control
<1>6. Extra' = Extra
  BY <1>5 DEF Extra
<1>7. Ordered(db', frames', Extra') /\ frames' # <<>>
  BY <1>1, <1>3, <1>6, AppendedIs
<1>8. LedgerInv'
  BY <1>5, <1>7, InvNext DEF LedgerInv, Tracks
<1> QED BY <1>2, <1>3, <1>4, <1>8, GrowsStep

(* Call implements the ledger's Call: the checkpoint before the transfer   *)
(* saves the world the ledger saves.                                       *)
LEMMA LedgerCall ==
  ASSUME LedgerInv, Tracks, NEW a \in Addr, NEW v \in Value, Call(a, v)
  PROVE  Implements
<1> DEFINE c == state_journal_checkpoint(db)
           f == [kind |-> "call", addr |-> a]
           w == AsLedger!Pay(world, Self, a, v)
<1>1. frames # <<>> /\ db' = k_transfer(c, Self, a, v) /\ UNCHANGED control
      /\ AsLedger!Runs /\ frames' = Append(frames, f) /\ Balance(Self) >= v /\ Alive(world[Self])
  BY RunningIs DEF Call, Instruction
<1>2. Overlaid(db) /\ Self \in Addr /\ IsWorld(world) /\ AsLedger!Self = Self /\ world = View(db)
      /\ Good(db) /\ world[Self].balance = Loaded(db, Self).balance /\ world[Self].balance \in Nat
  BY <1>1, InnermostIs DEF LedgerInv
<1>3. v \in Nat /\ v <= world[Self].balance /\ world[Self].balance >= v
  BY <1>1, <1>2, AmountAssumption DEF Balance
<1>4. Good(c) /\ View(c) = world
  BY <1>2, Checkpointed
<1> HIDE DEF c
<1>5. Acts(c, db', w) /\ a \in db'.bal.accounts
  BY <1>1, <1>2, <1>3, <1>4, Transferred DEF Good
<1>6. Acts(db, db, world)
  <2>1. Reads(db, db)
    BY <1>2, ReadsSelf
  <2> QED BY <1>2, <2>1 DEF Reads, Acts
<1>7. Carries(world, w) /\ Carries(world, world)
  BY <1>1, <1>2, PayCarries, CarriesSelf
<1>8. IsFrame(f) /\ f.addr = a /\ Keeps(w, f)
  BY DEF IsFrame, Keeps
<1>9. LedgerInv' /\ Grows(db, db') /\ world' = w /\ saved' = Append(saved, world)
  <2> HIDE DEF w, f
  <2> QED BY <1>1, <1>5, <1>6, <1>7, <1>8, Entering DEF c
<1>10. AsLedger!Call(a, v)
  BY <1>1, <1>2, <1>3, <1>9 DEF AsLedger!Call, control
<1>11. AsLedger!Next
  BY <1>10 DEF AsLedger!Next, AsLedger!Step, Tracks
<1> QED BY <1>9, <1>11 DEF Implements, Lists

(* An address that is not occupied has neither nonce nor code.             *)
LEMMA NotOccupied ==
  ASSUME NEW acc, ~AsLedger!Occupied(acc)
  PROVE  ~Alive(acc)
BY DEF AsLedger!Occupied, Alive

(* Create implements the ledger's Create, whether the address is occupied  *)
(* or not.                                                                 *)
LEMMA LedgerCreate ==
  ASSUME LedgerInv, Tracks, NEW a \in Creatable, NEW v \in Value, Create(a, v)
  PROVE  Implements
<1> DEFINE d == k_aload(db, a)
           n == k_bump_nonce(d, Self)
           u == AsLedger!Bump(world, Self)
<1>1. frames # <<>> /\ AsLedger!Runs /\ Balance(Self) >= v /\ Alive(world[Self])
  BY RunningIs DEF Create
<1>2. Overlaid(db) /\ Self \in Addr /\ IsWorld(world) /\ AsLedger!Self = Self /\ world = View(db)
      /\ Good(db) /\ world[Self].balance = Loaded(db, Self).balance /\ world[Self].balance \in Nat
      /\ world[Self].nonce \in Nat /\ a \in Addr
  BY <1>1, InnermostIs, AddressAssumption DEF LedgerInv
<1>3. v \in Nat /\ v <= world[Self].balance /\ world[Self].balance >= v
  BY <1>1, <1>2, AmountAssumption DEF Balance
<1>4. Reads(db, d) /\ Overlaid(d) /\ View(d) = world
  BY <1>2, Aload DEF Reads
<1>5. IF k_account_occupied(d, a)
      THEN Instruction(n) /\ UNCHANGED frames
      ELSE /\ Instruction(CreateScope(d, Self, a, v))
           /\ frames' = Append(frames, [kind |-> "create", addr |-> a])
  BY DEF Create
<1>6. k_account_occupied(d, a) <=> AsLedger!Occupied(world[a])
  BY <1>2, <1>4, OccupiedIs
<1> HIDE DEF d
<1>7. Acts(db, n, u)
  BY <1>2, <1>4, Bumped, ReadsActs
<1>8. /\ Carries(world, u) /\ u[Self].balance = world[Self].balance /\ u[Self].nonce # 0
      /\ \A b \in Addr \ {Self} : u[b] = world[b]
  BY <1>2, BumpKeeps
<1> HIDE DEF u, n
<1>9. CASE AsLedger!Occupied(world[a])
  <2>1. db' = n /\ UNCHANGED <<frames, control>>
    BY <1>5, <1>6, <1>9 DEF Instruction
  <2>2. LedgerInv' /\ Grows(db, db') /\ world' = u /\ saved' = saved
    BY <1>1, <1>7, <1>8, <2>1, Operated
  <2>3. AsLedger!Create(a, v)
    BY <1>1, <1>2, <1>3, <1>9, <2>1, <2>2 DEF AsLedger!Create, control, u
  <2>4. AsLedger!Next
    BY <2>3 DEF AsLedger!Next, AsLedger!Step, Tracks
  <2> QED BY <2>2, <2>4 DEF Implements, Lists
<1>10. CASE ~AsLedger!Occupied(world[a])
  <2> DEFINE c == state_journal_checkpoint(n)
             f == [kind |-> "create", addr |-> a]
             w == AsLedger!Born(u, Self, a, v)
  <2>1. db' = EnterCreate(c, Self, a, v) /\ frames' = Append(frames, f) /\ UNCHANGED control
    BY <1>5, <1>6, <1>10 DEF Instruction, CreateScope, n
  <2>2. Ordered(n, frames, Extra) /\ View(n) = u
    BY <1>1, <1>2, <1>7, <1>8, InnermostIs, OrderedActs
  <2>3. Good(c) /\ View(c) = u /\ Overlaid(c)
    BY <2>2, Checkpointed DEF Ordered, Good
  <2> HIDE DEF c
  <2>4. a # Self /\ u[a] = world[a] /\ ~Alive(u[a])
    BY <1>1, <1>2, <1>8, <1>10, NotOccupied
  <2>5. IsWorld(u) /\ u[a].nonce \in Nat
    BY <1>2, <2>3, ViewWorld, ViewOf
  <2>6. Acts(c, db', w) /\ a \in db'.bal.accounts
    BY <1>2, <1>3, <1>8, <2>1, <2>3, <2>4, CreateEntered
  <2>7. Carries(u, w) /\ w[a].nonce # 0
    <3>1. Alive(u[Self]) /\ ~AsLedger!Occupied(u[a])
      BY <1>8, <1>10, <2>4 DEF Alive
    <3> QED BY <1>2, <2>5, <3>1, BornKeeps
  <2> HIDE DEF w
  <2>8. IsFrame(f) /\ f.addr = a /\ Keeps(w, f)
    BY <1>2, <2>7 DEF IsFrame, Keeps
  <2>9. LedgerInv' /\ Grows(db, db') /\ world' = w /\ saved' = Append(saved, u)
    <3> HIDE DEF f
    <3> QED BY <1>1, <1>7, <1>8, <2>1, <2>6, <2>7, <2>8, Entering DEF c
  <2>10. AsLedger!Create(a, v)
    BY <1>1, <1>2, <1>3, <1>10, <2>1, <2>9 DEF AsLedger!Create, control, u, w
  <2>11. AsLedger!Next
    BY <2>10 DEF AsLedger!Next, AsLedger!Step, Tracks
  <2> QED BY <2>9, <2>11 DEF Implements, Lists
<1> QED BY <1>9, <1>10

(* The last of the frames is the only one exactly when none is left        *)
(* without it.                                                             *)
LEMMA LastFrame ==
  ASSUME NEW s, IsSeq(s), Len(s) > 0
  PROVE  Pop(s) = <<>> <=> Len(s) = 1
<1>1. IsSeq(Pop(s)) /\ Len(Pop(s)) = Len(s) - 1 /\ Len(s) \in Nat
  BY PopCut DEF IsSeq
<1>2. Pop(s) = <<>> <=> Len(Pop(s)) = 0
  BY <1>1, EmptySeq
<1> QED BY <1>1, <1>2

(* The innermost frame is left, with the host x and its world w.           *)
LEMMA Leaving ==
  ASSUME LedgerInv, Tracks, frames # <<>>, calls' = calls, phase' = phase \/ Len(frames) = 1,
         Index' = Index,
         NEW x, NEW w, Ordered(x, Pop(frames), Extra), Grows(db, x), View(x) = w,
         SavedViews(x) = Pop(saved), Leave(x)
  PROVE  LedgerInv' /\ Lists /\ AsLedger!Leave(w)
<1>1. IsSeq(frames) /\ Len(frames) > 0
  BY InnermostIs
<1>2. Pop(frames) = <<>> <=> Len(frames) = 1
  BY <1>1, LastFrame
<1>3. /\ db' = IF Len(frames) = 1 THEN EndOfOutermost(x) ELSE x
      /\ frames' = Pop(frames)
  BY DEF Leave
<1>4. Pop(frames) = AsLedger!Pop(frames) /\ Pop(saved) = AsLedger!Pop(saved)
  BY DEF Pop, AsLedger!Pop
<1>5. fork' = fork /\ fork \in DOMAIN Blocks /\ calls' \in Seq(Addr)
      /\ world' = View(db') /\ saved' = SavedViews(db')
  BY DEF Tracks, LedgerInv
<1>6. CASE Len(frames) = 1
  <2>1. Ordered(x, <<>>, Extra) /\ db' = EndOfOutermost(x) /\ frames' = <<>>
    BY <1>2, <1>3, <1>6
  <2>2. Whole(db') /\ Clean(db') /\ View(db') = AsLedger!Settled(w)
        /\ Merging(x, db', Index)
    BY <1>5, <2>1, Ends
  <2>3. SavedViews(db') = <<>>
    BY <2>2, NoSaved DEF Whole
  <2>4. Lists
    <3>1. Merging(db, db', Index)
      BY <2>2, MergingStep
    <3> QED BY <2>1, <3>1 DEF Lists
  <2>5. LedgerInv'
    BY <1>5, <2>1, <2>2, InvNext
  <2>6. AsLedger!Leave(w)
    BY <1>3, <1>4, <1>5, <1>6, <2>2, <2>3 DEF AsLedger!Leave
  <2> QED BY <2>4, <2>5, <2>6
<1>7. CASE Len(frames) # 1
  <2>1. db' = x /\ frames' # <<>> /\ phase' = phase
    BY <1>2, <1>3, <1>7
  <2>2. Extra' = Extra
    BY <1>5, <2>1 DEF Extra
  <2>3. Ordered(db', frames', Extra')
    BY <1>3, <2>1, <2>2
  <2>4. LedgerInv'
    BY <1>5, <2>1, <2>3, InvNext
  <2>5. AsLedger!Leave(w)
    BY <1>3, <1>4, <1>5, <1>7, <2>1 DEF AsLedger!Leave
  <2> QED BY <2>1, <2>4, <2>5 DEF Lists
<1> QED BY <1>6, <1>7

(* The scope of the innermost frame is closed.                             *)
LEMMA FrameCommitted ==
  ASSUME LedgerInv, frames # <<>>, NEW y, NEW w, Acts(db, y, w), Carries(world, w)
  PROVE  LET x == state_journal_commit(y)
         IN /\ Ordered(x, Pop(frames), Extra) /\ Grows(db, x) /\ View(x) = w
            /\ SavedViews(x) = Pop(saved)
<1> DEFINE x == state_journal_commit(y)
<1>1. Ordered(db, frames, Extra) /\ Extra \in Nat /\ world = View(db) /\ saved = SavedViews(db)
      /\ Len(frames) \in Nat /\ Len(frames) > 0
  BY InnermostIs DEF LedgerInv
<1>2. Ordered(y, frames, Extra) /\ View(y) = w /\ SavedViews(y) = saved /\ Grows(db, y)
  BY <1>1, OrderedActs
<1>3. Good(y) /\ Len(ScopesOf(y)) > 0
  BY <1>1, <1>2 DEF Ordered
<1>4. /\ Good(x) /\ View(x) = View(y) /\ Grows(y, x) /\ SavedViews(x) = Pop(SavedViews(y))
      /\ Len(ScopesOf(x)) = Len(ScopesOf(y)) - 1
  BY <1>3, Committed
<1> HIDE DEF x
<1>5. Ordered(x, Pop(frames), Extra)
  BY <1>1, <1>2, <1>4, OrderedLeaves
<1>6. Grows(db, x)
  BY <1>2, <1>4, GrowsStep
<1> QED BY <1>2, <1>4, <1>5, <1>6 DEF x

(* Return implements the ledger's Return.                                  *)
LEMMA LedgerReturn ==
  ASSUME LedgerInv, Tracks, NEW c \in Code \union {NoCode}, Return(c)
  PROVE  Implements
<1> DEFINE w == IF frames[Len(frames)].kind = "create" THEN [world EXCEPT ![Self].code = c] ELSE world
           y == Deployed(db, frames[Len(frames)], c)
<1>1. frames # <<>> /\ (frames[Len(frames)].kind = "create" \/ c = NoCode)
      /\ Leave(state_journal_commit(y)) /\ UNCHANGED control
  BY DEF Return, InFrame
<1>2. /\ Overlaid(db) /\ Self \in Addr /\ IsWorld(world) /\ AsLedger!Self = Self
      /\ AsLedger!Top = frames[Len(frames)] /\ world = View(db)
      /\ frames[Len(frames)].kind = "create" => world[Self].nonce # 0
      /\ frames[Len(frames)].addr = Self
  BY <1>1, InnermostIs DEF LedgerInv, Self
<1>3. Acts(db, y, w) /\ Carries(world, w)
  <2>1. CASE frames[Len(frames)].kind = "create"
    <3>1. y = k_deploy_code(db, Self, c) /\ w = [world EXCEPT ![Self].code = c]
      BY <1>2, <2>1 DEF Deployed
    <3>2. View(db)[Self].nonce # 0
      BY <1>2, <2>1
    <3>3. Acts(db, k_deploy_code(db, Self, c), [world EXCEPT ![Self].code = c])
      BY <1>2, <3>2, CodeDeployed
    <3>4. Carries(world, [world EXCEPT ![Self].code = c])
      BY <1>2, <2>1, CodeKeeps
    <3> QED BY <3>1, <3>3, <3>4
  <2>2. CASE frames[Len(frames)].kind # "create"
    <3>1. y = db /\ w = world
      BY <2>2 DEF Deployed
    <3>2. Acts(db, db, world)
      BY <1>2, ReadsSelf DEF Reads, Acts
    <3> QED BY <3>1, <3>2, CarriesSelf
  <2> QED BY <2>1, <2>2
<1> HIDE DEF w, y
<1>4. LET x == state_journal_commit(y)
      IN /\ Ordered(x, Pop(frames), Extra) /\ Grows(db, x) /\ View(x) = w
         /\ SavedViews(x) = Pop(saved)
  BY <1>1, <1>3, FrameCommitted
<1>5. phase' = phase /\ calls' = calls /\ tx' = tx
  BY <1>1 DEF control
<1>a. Index' = Index
  BY <1>5 DEF Tracks, Index, MaxTx
<1>6. LedgerInv' /\ Lists /\ AsLedger!Leave(w)
  BY <1>1, <1>4, <1>5, <1>a, Leaving
<1>7. AsLedger!Return(c)
  BY <1>1, <1>2, <1>5, <1>6 DEF AsLedger!Return, w
<1>8. AsLedger!Next
  BY <1>7 DEF AsLedger!Next, AsLedger!Step, Tracks
<1> QED BY <1>6, <1>8 DEF Implements

(* Revert implements the ledger's Revert: undoing the journal gives the    *)
(* saved world back.                                                       *)
LEMMA LedgerRevert ==
  ASSUME LedgerInv, Tracks, Revert
  PROVE  Implements
<1> DEFINE x == state_journal_revert(db)
           w == saved[Len(saved)]
<1>1. frames # <<>> /\ Leave(x) /\ UNCHANGED <<calls, tx>>
      /\ phase' = IF phase = "end" /\ Len(frames) = 1 THEN "invalid" ELSE phase
  BY DEF Revert, InFrame
<1>2. Ordered(db, frames, Extra) /\ Extra \in Nat /\ world = View(db) /\ saved = SavedViews(db)
      /\ Len(frames) \in Nat /\ Len(frames) > 0
  BY <1>1, InnermostIs DEF LedgerInv
<1>3. Good(db) /\ Len(ScopesOf(db)) > 0
  BY <1>2 DEF Ordered
<1>4. /\ Good(x) /\ View(x) = w /\ Grows(db, x) /\ SavedViews(x) = Pop(saved)
      /\ Len(ScopesOf(x)) = Len(ScopesOf(db)) - 1
  BY <1>2, <1>3, Reverted
<1> HIDE DEF x
<1>5. Ordered(x, Pop(frames), Extra)
  BY <1>2, <1>4, OrderedLeaves
<1>6. Grows(db, x)
  BY <1>4
<1>a. Index' = Index
  BY <1>1 DEF Tracks, Index, MaxTx
<1>7. LedgerInv' /\ Lists /\ AsLedger!Leave(w)
  <2> HIDE DEF w
  <2> QED BY <1>1, <1>4, <1>5, <1>6, <1>a, Leaving
<1>8. AsLedger!Revert
  BY <1>1, <1>7 DEF AsLedger!Revert
<1>9. AsLedger!Next
  BY <1>8 DEF AsLedger!Next, AsLedger!Step, Tracks
<1> QED BY <1>7, <1>9 DEF Implements

(* Selfdestruct implements the ledger's.                                   *)
LEMMA LedgerSelfdestruct ==
  ASSUME LedgerInv, Tracks, NEW b \in Addr, Selfdestruct(b)
  PROVE  Implements
<1> DEFINE e == execute_selfdestruct(db, Self, b)
           u == AsLedger!Destruct(world, Self, b)
           w == IF frames[Len(frames)].kind = "create" THEN [u EXCEPT ![Self].code = NoCode] ELSE u
           y == Deployed(e, frames[Len(frames)], NoCode)
<1>1. frames # <<>> /\ AsLedger!Runs /\ Leave(state_journal_commit(y)) /\ UNCHANGED control
      /\ Alive(world[Self])
  BY RunningIs DEF Selfdestruct
<1>2. /\ Overlaid(db) /\ Self \in Addr /\ IsWorld(world) /\ AsLedger!Self = Self
      /\ AsLedger!Top = frames[Len(frames)] /\ world = View(db)
      /\ frames[Len(frames)].kind = "create" => world[Self].nonce # 0
      /\ frames[Len(frames)].addr = Self /\ fork \in DOMAIN Blocks
  BY <1>1, InnermostIs DEF LedgerInv, Self
<1>3. Acts(db, e, u) /\ Carries(world, u)
  BY <1>1, <1>2, Destructed, DestructKeeps
<1> HIDE DEF e, u
<1>4. Acts(db, y, w) /\ Carries(world, w)
  <2>1. CASE frames[Len(frames)].kind = "create"
    <3>1. y = k_deploy_code(e, Self, NoCode) /\ w = [u EXCEPT ![Self].code = NoCode]
      BY <1>2, <2>1 DEF Deployed
    <3>2. Overlaid(e) /\ View(e) = u
      BY <1>3 DEF Acts, Reaches
    <3>3. u[Self].nonce # 0 /\ View(e)[Self].nonce # 0 /\ IsWorld(u)
      BY <1>2, <1>3, <2>1, <3>2, ViewWorld DEF Carries, Carried
    <3>4. Acts(e, k_deploy_code(e, Self, NoCode), [u EXCEPT ![Self].code = NoCode])
      BY <1>2, <3>2, <3>3, CodeDeployed
    <3>5. Carries(u, [u EXCEPT ![Self].code = NoCode])
      BY <1>2, <3>3, CodeKeeps
    <3> HIDE DEF y, w
    <3>6. Acts(db, y, w)
      BY <1>2, <1>3, <3>1, <3>4, ActsStep
    <3>7. Carries(world, w)
      BY <1>3, <3>1, <3>5, CarriesOn
    <3> QED BY <3>6, <3>7
  <2>2. CASE frames[Len(frames)].kind # "create"
    <3>1. y = e /\ w = u
      BY <2>2 DEF Deployed
    <3> QED BY <1>3, <3>1
  <2> QED BY <2>1, <2>2
<1> HIDE DEF w, y
<1>5. LET x == state_journal_commit(y)
      IN /\ Ordered(x, Pop(frames), Extra) /\ Grows(db, x) /\ View(x) = w
         /\ SavedViews(x) = Pop(saved)
  BY <1>1, <1>4, FrameCommitted
<1>6. phase' = phase /\ calls' = calls /\ tx' = tx
  BY <1>1 DEF control
<1>a. Index' = Index
  BY <1>6 DEF Tracks, Index, MaxTx
<1>7. LedgerInv' /\ Lists /\ AsLedger!Leave(w)
  BY <1>1, <1>5, <1>6, <1>a, Leaving
<1>8. AsLedger!Selfdestruct(b)
  BY <1>1, <1>2, <1>6, <1>7 DEF AsLedger!Selfdestruct, w, u
<1>9. AsLedger!Next
  BY <1>8 DEF AsLedger!Next, AsLedger!Step, Tracks
<1> QED BY <1>7, <1>9 DEF Implements

(* A sequence of one element.                                              *)
LEMMA AppendEmpty ==
  ASSUME NEW e
  PROVE  Append(<<>>, e) = <<e>> /\ <<e>> # <<>>
OBVIOUS

(* Between transactions.                                                   *)
LEMMA IdleIs ==
  ASSUME LedgerInv, frames = <<>>
  PROVE  /\ Whole(db) /\ Clean(db) /\ Overlaid(db) /\ saved = <<>> /\ world = View(db)
         /\ fork \in DOMAIN Blocks /\ IsWorld(world)
         /\ \A a \in Addr : /\ world[a].nonce = Loaded(db, a).nonce /\ world[a].balance = Loaded(db, a).balance
                            /\ world[a].code = Loaded(db, a).code
                            /\ world[a].nonce \in Nat /\ world[a].balance \in Nat
<1>1. Whole(db) /\ Clean(db) /\ world = View(db) /\ saved = SavedViews(db) /\ fork \in DOMAIN Blocks
  BY DEF LedgerInv
<1>2. Overlaid(db) /\ saved = <<>>
  BY <1>1, NoSaved DEF Whole, Good
<1> QED BY <1>1, <1>2, ViewWorld, ViewOf

(* k_aload leaves an empty transaction overlay empty.                      *)
LEMMA AloadClean ==
  ASSUME NEW x, Whole(x), Clean(x), NEW a \in Addr
  PROVE  LET y == k_aload(x, a)
         IN Whole(y) /\ Clean(y) /\ View(y) = View(x) /\ Grows(x, y) /\ a \in y.bal.accounts
<1> DEFINE y == k_aload(x, a)
           t == [x EXCEPT !.bal = bal_account_touch(@, a)]
<1>1. Overlaid(x)
  BY DEF Whole, Good
<1>2. Reads(x, y) /\ a \in y.bal.accounts
  BY <1>1, Aload
<1>3. Whole(y) /\ View(y) = View(x) /\ Grows(x, y)
  <2>1. Acts(x, y, View(x))
    BY <1>2 DEF Reads, Acts
  <2> HIDE DEF y
  <2> QED BY <2>1, WholeActs, CarriesSelf
<1>4. Clean(y)
  <2>1. CASE acct_tx_found(x, a)
    BY <2>1 DEF k_aload
  <2>2. CASE ~acct_tx_found(x, a)
    <3>1. Touching(x, t, {a}, {})
      BY <1>1, TouchAccount
    <3>2. IsHost(t) /\ SameTables(x, t) /\ t.next_generation = x.next_generation
      BY <3>1 DEF Touching
    <3>3. y = acct_block_cache(t, a, stateless_account_by_key(a))
      BY <2>2 DEF k_aload
    <3> HIDE DEF t
    <3>4. y = t \/ \E v : y = AccountHost(t, v)
      BY <3>3 DEF acct_block_cache, AccountHost
    <3>5. SameTables(t, y) /\ y.next_generation = t.next_generation
      <4>1. ASSUME NEW v, y = AccountHost(t, v)
            PROVE  SameTables(t, y) /\ y.next_generation = t.next_generation
        BY <3>2, <4>1, HostWith
      <4> QED BY <3>4, <4>1 DEF SameTables
    <3> QED BY <3>2, <3>5 DEF SameTables, Clean
  <2> QED BY <2>1, <2>2
<1> QED BY <1>2, <1>3, <1>4

(* The end of a transaction, whatever its index.                           *)
Closed(d) == IF fork = "Amsterdam" THEN state_journal_commit(d) ELSE d

(* The end of a transaction, whatever its index.                           *)
LEMMA TransactionEnds ==
  ASSUME NEW x, Ordered(x, <<>>, Scope), fork \in DOMAIN Blocks, NEW i
  PROVE  LET y == k_tx_merge(Settled(Closed(x)), i)
         IN /\ Whole(y) /\ Clean(y) /\ Merging(x, y, i)
            /\ View(y) = AsLedger!Finish(AsLedger!Credit(View(x), Coinbase, Fee))
<1>1. Good(x) /\ Begun(x) /\ Len(ScopesOf(x)) = Scope
  BY WholeOrdered DEF Scope
<1> DEFINE c == Closed(x)
           s == Settled(c)
<1>2. Whole(c) /\ View(c) = View(x) /\ Grows(x, c)
  <2>1. CASE fork = "Amsterdam"
    <3>1. c = state_journal_commit(x) /\ Len(ScopesOf(x)) = 1
      BY <1>1, <2>1 DEF Closed, Scope
    <3> QED BY <1>1, <3>1, WholeCommitted
  <2>2. CASE fork # "Amsterdam"
    <3>1. c = x /\ Len(ScopesOf(x)) = 0
      BY <1>1, <2>2 DEF Closed, Scope
    <3> QED BY <1>1, <3>1, SameGrows DEF Whole
  <2> QED BY <2>1, <2>2
<1> HIDE DEF c
<1>3. Whole(s) /\ View(s) = AsLedger!Credit(View(c), Coinbase, Fee) /\ Grows(c, s)
  BY <1>2, WholeSettled
<1> HIDE DEF s
<1>4. LET y == k_tx_merge(s, i)
      IN Whole(y) /\ Clean(y) /\ View(y) = AsLedger!Finish(View(s))
  BY <1>3, WholeMerged
<1>5. Merging(x, k_tx_merge(s, i), i)
  BY <1>2, <1>3, GrowsStep DEF Merging
<1> QED BY <1>2, <1>3, <1>4, <1>5 DEF s, c

(* A transaction of the block: what it pays leaves u, and x is the host at *)
(* the checkpoint of its outermost frame.                                  *)
LEMMA Charging ==
  ASSUME LedgerInv, NEW v \in Value, BeginTransaction, Balance(Sender) >= Fee + v
  PROVE  LET x == Prepared(db)
             u == AsLedger!Charged
         IN /\ frames = <<>> /\ phase = "body" /\ tx < MaxTx /\ tx' = tx + 1 /\ UNCHANGED <<phase, calls>>
            /\ Ordered(x, <<>>, Scope) /\ View(x) = u /\ Grows(db, x)
            /\ v \in Nat /\ v <= u[Sender].balance /\ world[Sender].balance >= Fee + v
            /\ SavedViews(x) = IF fork = "Amsterdam" THEN <<u>> ELSE <<>>
            /\ IsWorld(u) /\ \A a \in Addr : u[a].nonce \in Nat
            /\ Overlaid(x) /\ Good(state_journal_checkpoint(x)) /\ View(state_journal_checkpoint(x)) = u
            /\ Scope \in Nat /\ Extra = Scope /\ Sender \in Addr
<1> DEFINE x == Prepared(db)
           u == AsLedger!Charged
<1>1. frames = <<>> /\ phase = "body" /\ tx < MaxTx /\ tx' = tx + 1 /\ UNCHANGED <<phase, calls>>
  BY DEF BeginTransaction, Idle
<1>2. Whole(db) /\ Clean(db) /\ world = View(db) /\ Sender \in Addr /\ Fee \in Nat /\ v \in Nat
      /\ world[Sender].balance = Loaded(db, Sender).balance /\ world[Sender].balance \in Nat
  BY <1>1, IdleIs, AddressAssumption, AmountAssumption
<1>3. world[Sender].balance >= Fee + v /\ Fee <= world[Sender].balance
      /\ v <= world[Sender].balance - Fee
  BY <1>2 DEF Balance
<1>4. u = Charges(View(db))
  BY <1>2 DEF AsLedger!Charged, Charges
<1> HIDE DEF u
<1>5. /\ Ordered(x, <<>>, Scope) /\ View(x) = Charges(View(db)) /\ Grows(db, x)
      /\ View(x)[Sender].balance = View(db)[Sender].balance - Fee
      /\ SavedViews(x) = IF fork = "Amsterdam" THEN <<View(x)>> ELSE <<>>
  BY <1>2, <1>3, PreparedIs
<1> HIDE DEF x
<1>6. Good(x) /\ Overlaid(x)
  BY <1>5 DEF Ordered, Good
<1>7. IsWorld(u) /\ \A a \in Addr : u[a].nonce \in Nat
  BY <1>4, <1>5, <1>6, ViewWorld, ViewOf
<1>8. Good(state_journal_checkpoint(x)) /\ View(state_journal_checkpoint(x)) = u
  BY <1>4, <1>5, <1>6, Checkpointed
<1>9. Scope \in Nat /\ Extra = Scope
  BY <1>1 DEF Scope, Extra
<1>10. v <= u[Sender].balance /\ SavedViews(x) = IF fork = "Amsterdam" THEN <<u>> ELSE <<>>
  BY <1>2, <1>3, <1>4, <1>5
<1> QED BY <1>1, <1>2, <1>3, <1>4, <1>5, <1>6, <1>7, <1>8, <1>9, <1>10 DEF x, u

(* A transaction saves the charged world once for each of its scopes.      *)
LEMMA ScopesSaved ==
  ASSUME NEW u, NEW s, s = IF fork = "Amsterdam" THEN <<u>> ELSE <<>>
  PROVE  Append(s, u) = [n \in 1 .. AsLedger!Scopes |-> u]
<1>1. CASE fork = "Amsterdam"
  <2>1. s = <<u>> /\ AsLedger!Scopes = 2
    BY <1>1 DEF AsLedger!Scopes
  <2>2. Append(<<u>>, u) = [n \in 1 .. 2 |-> u]
    OBVIOUS
  <2> QED BY <2>1, <2>2
<1>2. CASE fork # "Amsterdam"
  <2>1. s = <<>> /\ AsLedger!Scopes = 1
    BY <1>2 DEF AsLedger!Scopes
  <2>2. Append(<<>>, u) = [n \in 1 .. 1 |-> u]
    OBVIOUS
  <2> QED BY <2>1, <2>2
<1> QED BY <1>1, <1>2

(* The outermost frame of a transaction begins in the world w.             *)
LEMMA Starting ==
  ASSUME LedgerInv, Tracks, NEW v \in Value, BeginTransaction, Balance(Sender) >= Fee + v,
         NEW w, Acts(state_journal_checkpoint(Prepared(db)), db', w), Carries(AsLedger!Charged, w),
         NEW f, IsFrame(f), f.addr \in db'.bal.accounts, Keeps(w, f), frames' = <<f>>
  PROVE  /\ LedgerInv' /\ Grows(db, db') /\ world' = w
         /\ saved' = [n \in 1 .. AsLedger!Scopes |-> AsLedger!Charged]
<1> DEFINE x == Prepared(db)
           u == AsLedger!Charged
<1>1. /\ phase' = phase /\ calls' = calls
      /\ Ordered(x, <<>>, Scope) /\ View(x) = u /\ Grows(db, x)
      /\ SavedViews(x) = IF fork = "Amsterdam" THEN <<u>> ELSE <<>>
      /\ Scope \in Nat /\ Extra = Scope
  BY Charging
<1> HIDE DEF x, u
<1>2. /\ Ordered(db', Append(<<>>, f), Scope) /\ View(db') = w
      /\ SavedViews(db') = Append(SavedViews(x), u) /\ Grows(x, db')
  <2>1. Acts(state_journal_checkpoint(x), db', w) /\ Carries(View(x), w)
    BY <1>1 DEF x, u
  <2> QED BY <1>1, <2>1, OrderedEnters
<1>3. saved' = [n \in 1 .. AsLedger!Scopes |-> u] /\ world' = w
  <2>1. Append(SavedViews(x), u) = [n \in 1 .. AsLedger!Scopes |-> u]
    BY <1>1, ScopesSaved
  <2> QED BY <1>2, <2>1 DEF Tracks
<1>4. fork' = fork /\ fork \in DOMAIN Blocks /\ calls' \in Seq(Addr)
      /\ world' = View(db') /\ saved' = SavedViews(db')
  BY <1>1 DEF Tracks, LedgerInv
<1>5. Extra' = Scope
  BY <1>1, <1>4 DEF Extra
<1>6. Ordered(db', frames', Extra') /\ frames' # <<>>
  BY <1>2, <1>5, AppendEmpty
<1>7. LedgerInv'
  BY <1>4, <1>6, InvNext
<1>8. Grows(db, db')
  BY <1>1, <1>2, GrowsStep
<1> QED BY <1>3, <1>7, <1>8 DEF u

(* CallTransaction implements Transaction.                                 *)
LEMMA LedgerCallTransaction ==
  ASSUME LedgerInv, Tracks, NEW a \in Addr, NEW v \in Value, CallTransaction(a, v)
  PROVE  Implements
<1> DEFINE c == state_journal_checkpoint(Prepared(db))
           d == k_aload(c, a)
           u == AsLedger!Charged
           w == AsLedger!Pay(u, Sender, a, v)
           f == [kind |-> "call", addr |-> a]
<1>1. BeginTransaction /\ Balance(Sender) >= Fee + v
      /\ db' = k_transfer(d, Sender, a, v) /\ frames' = <<f>>
  BY UpfrontIs DEF CallTransaction
<1>2. /\ frames = <<>> /\ phase = "body" /\ tx < MaxTx /\ tx' = tx + 1 /\ UNCHANGED <<phase, calls>>
      /\ v \in Nat /\ v <= u[Sender].balance /\ world[Sender].balance >= Fee + v
      /\ IsWorld(u) /\ Good(c) /\ View(c) = u /\ Sender \in Addr
  BY <1>1, Charging
<1> HIDE DEF c, u
<1>3. Overlaid(c)
  BY <1>2 DEF Good
<1>4. Reads(c, d) /\ Overlaid(d) /\ View(d) = u
  BY <1>2, <1>3, Aload DEF Reads
<1> HIDE DEF d
<1>5. Acts(d, db', w) /\ a \in db'.bal.accounts
  BY <1>1, <1>2, <1>4, Transferred
<1>6. Acts(c, db', w)
  BY <1>3, <1>4, <1>5, ReadsActs
<1>7. Carries(u, w)
  BY <1>2, PayCarries
<1>8. IsFrame(f) /\ f.addr = a /\ Keeps(w, f)
  BY DEF IsFrame, Keeps
<1>9. /\ LedgerInv' /\ Grows(db, db') /\ world' = w
      /\ saved' = [n \in 1 .. AsLedger!Scopes |-> u]
  <2> HIDE DEF w, f
  <2> QED BY <1>1, <1>5, <1>6, <1>7, <1>8, Starting DEF c, u
<1>10. AsLedger!Transaction(a, v, "call")
  BY <1>1, <1>2, <1>9 DEF AsLedger!Transaction, MaxTx, u
<1>11. AsLedger!Next
  BY <1>10 DEF AsLedger!Next, AsLedger!Step, Tracks
<1> QED BY <1>9, <1>11 DEF Implements, Lists

(* CreateTransaction implements Transaction: over an occupied address the  *)
(* frame's scope is undone and the transaction ends at once.               *)
LEMMA LedgerCreateTransaction ==
  ASSUME LedgerInv, Tracks, NEW a \in Creatable, NEW v \in Value, CreateTransaction(a, v)
  PROVE  Implements
<1> DEFINE x == Prepared(db)
           c == state_journal_checkpoint(x)
           d == k_aload(c, a)
           u == AsLedger!Charged
           y == state_journal_revert(d)
<1>1. /\ BeginTransaction /\ Balance(Sender) >= Fee + v
      /\ IF k_account_occupied(d, a)
         THEN db' = k_tx_merge(Settled(Closed(y)), tx + 1) /\ frames' = <<>>
         ELSE db' = EnterCreate(d, Sender, a, v) /\ frames' = <<[kind |-> "create", addr |-> a]>>
  BY UpfrontIs DEF CreateTransaction, Closed
<1>2. /\ frames = <<>> /\ phase = "body" /\ tx < MaxTx /\ tx' = tx + 1 /\ UNCHANGED <<phase, calls>>
      /\ Ordered(x, <<>>, Scope) /\ View(x) = u /\ Grows(db, x)
      /\ v \in Nat /\ v <= u[Sender].balance /\ world[Sender].balance >= Fee + v
      /\ IsWorld(u) /\ Good(c) /\ View(c) = u /\ Sender \in Addr /\ \A b \in Addr : u[b].nonce \in Nat
  BY <1>1, Charging
<1>3. a \in Addr
  BY AddressAssumption
<1>4. Good(x) /\ Begun(x) /\ Len(ScopesOf(x)) = Scope /\ Scope \in Nat /\ IsSeq(SavedViews(x))
      /\ Len(SavedViews(x)) = Scope
  BY <1>2, Charging, WholeOrdered, SavedSeq DEF Ordered, Scope
<1>5. Grows(x, c) /\ SavedViews(c) = Append(SavedViews(x), u) /\ Len(ScopesOf(c)) = Scope + 1
  BY <1>2, <1>4, Checkpointed
<1> HIDE DEF c, u, x
<1>6. Overlaid(c)
  BY <1>2 DEF Good
<1>7. Reads(c, d) /\ Overlaid(d) /\ View(d) = u
  BY <1>2, <1>3, <1>6, Aload DEF Reads
<1>8. k_account_occupied(d, a) <=> AsLedger!Occupied(u[a])
  BY <1>3, <1>7, OccupiedIs
<1>9. fork' = fork /\ fork \in DOMAIN Blocks /\ calls' \in Seq(Addr)
      /\ world' = View(db') /\ saved' = SavedViews(db')
  BY <1>2 DEF Tracks, LedgerInv
<1>10. CASE AsLedger!Occupied(u[a])
  <2>1. db' = k_tx_merge(Settled(Closed(y)), tx + 1) /\ frames' = <<>>
    BY <1>1, <1>8, <1>10
  <2>2. Good(d) /\ SavedViews(d) = SavedViews(c) /\ Len(ScopesOf(d)) = Len(ScopesOf(c)) /\ Grows(c, d)
    BY <1>2, <1>7, GoodReaches DEF Reads, Reaches
  <2>3. Len(ScopesOf(d)) > 0
    BY <1>4, <1>5, <2>2
  <2> HIDE DEF d
  <2>4. /\ Good(y) /\ View(y) = SavedViews(d)[Len(SavedViews(d))] /\ Grows(d, y)
        /\ Len(ScopesOf(y)) = Scope /\ SavedViews(y) = Pop(SavedViews(d))
    <3>1. /\ Good(y) /\ View(y) = SavedViews(d)[Len(SavedViews(d))] /\ Grows(d, y)
          /\ Len(ScopesOf(y)) = Len(ScopesOf(d)) - 1 /\ SavedViews(y) = Pop(SavedViews(d))
      BY <2>2, <2>3, Reverted
    <3> HIDE DEF y
    <3> QED BY <1>4, <1>5, <2>2, <3>1
  <2>5. View(y) = u
    <3>1. Len(SavedViews(d)) = Scope + 1 /\ SavedViews(d)[Scope + 1] = u
      BY <1>4, <1>5, <2>2, SeqAppend
    <3> QED BY <2>4, <3>1
  <2>6. Ordered(y, <<>>, Scope)
    <3> DEFINE sd == SavedViews(d)
    <3>1. IsSeq(sd) /\ Len(sd) = Scope + 1 /\ \A p \in 1 .. Scope : sd[p] = SavedViews(x)[p]
      BY <1>4, <1>5, <2>2, SeqAppend
    <3>2. \A p \in 1 .. Len(sd) - 1 : Pop(sd)[p] = sd[p]
      <4> HIDE DEF sd
      <4> QED BY <1>4, <3>1, PopCut
    <3>3. \A p \in 1 .. Scope : SavedViews(y)[p] = SavedViews(x)[p]
      BY <1>4, <2>4, <3>1, <3>2
    <3>4. Grows(x, y) /\ Starts(u, x)
      BY <1>2, <1>4, <1>5, <2>2, <2>4, GrowsStep DEF Begun
    <3>5. Begun(y)
      BY <1>4, <2>4, <2>5, <3>3, <3>4, CarriesSelf, BegunOn
    <3> QED BY <1>4, <2>4, <3>5, WholeOrdered
  <2> HIDE DEF y
  <2>7. /\ Whole(db') /\ Clean(db') /\ Merging(y, db', tx + 1)
        /\ View(db') = AsLedger!Finish(AsLedger!Credit(u, Coinbase, Fee))
    BY <1>9, <2>1, <2>5, <2>6, TransactionEnds
  <2>8. Lists
    <3>1. Grows(db, y)
      BY <1>2, <1>5, <2>2, <2>4, GrowsStep
    <3>2. Index' = tx + 1
      BY <1>2 DEF Index
    <3> QED BY <2>1, <2>7, <3>1, <3>2, MergingStep DEF Lists
  <2>9. world' = AsLedger!Settled(u) /\ saved' = <<>>
    <3>1. AsLedger!Settled(u) = AsLedger!Finish(AsLedger!Credit(u, Coinbase, Fee))
      BY <1>2 DEF AsLedger!Settled, Coinbase
    <3>2. SavedViews(db') = <<>>
      BY <2>7, NoSaved DEF Whole
    <3> QED BY <1>9, <2>7, <3>1, <3>2
  <2>10. LedgerInv'
    BY <1>9, <2>1, <2>7, InvNext
  <2>11. UNCHANGED <<saved, frames>>
    BY <1>2, <2>1, <2>9, IdleIs
  <2>12. AsLedger!Transaction(a, v, "create")
    BY <1>2, <1>10, <2>9, <2>11 DEF AsLedger!Transaction, MaxTx, u
  <2>13. AsLedger!Next
    BY <2>12 DEF AsLedger!Next, AsLedger!Step, Tracks
  <2> QED BY <2>8, <2>10, <2>13 DEF Implements
<1>11. CASE ~AsLedger!Occupied(u[a])
  <2> DEFINE w == AsLedger!Born(u, Sender, a, v)
             f == [kind |-> "create", addr |-> a]
  <2>1. db' = EnterCreate(d, Sender, a, v) /\ frames' = <<f>>
    BY <1>1, <1>8, <1>11
  <2> HIDE DEF d
  <2>2. ~Alive(View(d)[a])
    BY <1>7, <1>11, NotOccupied
  <2>3. Acts(d, db', w) /\ a \in db'.bal.accounts
    BY <1>2, <1>3, <1>7, <2>1, <2>2, CreateEntered
  <2>4. Acts(c, db', w)
    BY <1>6, <1>7, <2>3, ReadsActs
  <2>5. Carries(u, w) /\ w[a].nonce # 0
    BY <1>2, <1>3, <1>11, BornKeeps
  <2> HIDE DEF w
  <2>6. IsFrame(f) /\ f.addr = a /\ Keeps(w, f)
    BY <1>3, <2>5 DEF IsFrame, Keeps
  <2>7. /\ LedgerInv' /\ Grows(db, db') /\ world' = w
        /\ saved' = [n \in 1 .. AsLedger!Scopes |-> u]
    <3> HIDE DEF f
    <3> QED BY <1>1, <2>1, <2>3, <2>4, <2>5, <2>6, Starting DEF c, u, x
  <2>8. AsLedger!Transaction(a, v, "create")
    BY <1>2, <1>11, <2>1, <2>7 DEF AsLedger!Transaction, MaxTx, u, w
  <2>9. AsLedger!Next
    BY <2>8 DEF AsLedger!Next, AsLedger!Step, Tracks
  <2> QED BY <2>7, <2>9 DEF Implements, Lists
<1> QED BY <1>10, <1>11

(* SystemCall implements the ledger's SystemCall.                          *)
LEMMA LedgerSystemCall ==
  ASSUME LedgerInv, Tracks, SystemCall
  PROVE  Implements
<1> DEFINE a == Head(calls)
           d == k_aload(db, a)
           c == state_journal_checkpoint(d)
           f == [kind |-> "call", addr |-> a]
<1>1. /\ frames = <<>> /\ phase \in {"start", "end"} /\ calls # <<>> /\ calls' = Tail(calls) /\ tx' = tx
      /\ IF Loaded(d, a).code = NoCode
         THEN /\ db' = d /\ frames' = frames
              /\ phase' = IF phase = "end" THEN "invalid" ELSE phase
         ELSE db' = c /\ frames' = <<f>> /\ phase' = phase
  BY DEF SystemCall, Idle
<1>2. /\ Whole(db) /\ Clean(db) /\ Overlaid(db) /\ saved = <<>> /\ world = View(db)
      /\ fork \in DOMAIN Blocks
  BY <1>1, IdleIs
<1>3. calls \in Seq(Addr) /\ a \in Addr /\ Tail(calls) \in Seq(Addr)
  <2>1. calls \in Seq(Addr)
    BY DEF LedgerInv
  <2> QED BY <1>1, <2>1
<1>4. fork' = fork /\ fork \in DOMAIN Blocks /\ calls' \in Seq(Addr)
      /\ world' = View(db') /\ saved' = SavedViews(db')
  BY <1>1, <1>2, <1>3 DEF Tracks
<1> HIDE DEF a
<1>5. Whole(d) /\ Clean(d) /\ View(d) = world /\ Grows(db, d) /\ a \in d.bal.accounts
  BY <1>2, <1>3, AloadClean
<1>6. world[a].code = Loaded(d, a).code
  BY <1>3, <1>5, ViewOf DEF Whole, Good
<1> HIDE DEF d
<1>7. CASE Loaded(d, a).code = NoCode
  <2>1. db' = d /\ frames' = <<>> /\ phase' \in {phase, "invalid"}
    BY <1>1, <1>7
  <2>2. SavedViews(d) = <<>>
    BY <1>5, NoSaved DEF Whole
  <2>3. world' = world /\ saved' = saved
    BY <1>2, <1>4, <1>5, <2>1, <2>2
  <2>4. LedgerInv'
    BY <1>4, <1>5, <2>1, InvNext
  <2>5. Lists
    BY <1>5, <2>1 DEF Lists
  <2>6. AsLedger!SystemCall
    BY <1>1, <1>6, <1>7, <2>1, <2>3 DEF AsLedger!SystemCall, a
  <2>7. AsLedger!Next
    BY <2>6 DEF AsLedger!Next, AsLedger!Step, Tracks
  <2> QED BY <2>4, <2>5, <2>7 DEF Implements
<1>8. CASE Loaded(d, a).code # NoCode
  <2>1. db' = c /\ frames' = <<f>> /\ phase' = phase
    BY <1>1, <1>8
  <2>2. Extra = 0 /\ Extra' = 0 /\ 0 \in Nat
    BY <1>1, <1>4, <2>1 DEF Extra
  <2>3. Ordered(d, <<>>, 0) /\ Good(d)
    BY <1>5, <2>2, WholeOrdered DEF Whole
  <2>4. Good(c) /\ View(c) = world /\ c.bal.accounts = d.bal.accounts
    <3>1. Good(c) /\ View(c) = world /\ Grows(d, c)
      BY <1>5, <2>3, Checkpointed
    <3>2. IsHost(d)
      BY <2>3 DEF Good, Overlaid, Shaped
    <3>3. Marks(d, Push(d, "Checkpointed", NoPrior, NoPrior), "Checkpointed")
      BY <3>2, PushMarks
    <3> QED BY <3>1, <3>3 DEF Marks, state_journal_checkpoint
  <2>5. Acts(c, db', world) /\ a \in db'.bal.accounts
    <3>1. Overlaid(c)
      BY <2>4 DEF Good
    <3>2. Reads(c, c)
      BY <3>1, ReadsSelf
    <3> HIDE DEF c
    <3> QED BY <1>5, <2>1, <2>4, <3>2 DEF Reads, Acts
  <2>6. IsFrame(f) /\ f.addr = a /\ Keeps(world, f)
    BY <1>3 DEF IsFrame, Keeps
  <2>7. SavedViews(d) = <<>>
    BY <1>5, NoSaved DEF Whole
  <2>8. /\ Ordered(db', Append(<<>>, f), 0) /\ View(db') = world
        /\ SavedViews(db') = Append(SavedViews(d), View(d)) /\ Grows(d, db')
    <3>1. Carries(View(d), world)
      BY <1>5, CarriesSelf
    <3> HIDE DEF f
    <3> QED BY <2>2, <2>3, <2>5, <2>6, <3>1, OrderedEnters DEF c
  <2>9. world' = world /\ saved' = <<world>>
    BY <1>4, <1>5, <2>7, <2>8, AppendEmpty
  <2>10. LedgerInv'
    <3>1. Ordered(db', frames', Extra') /\ frames' # <<>>
      <4> HIDE DEF f
      <4> QED BY <2>1, <2>2, <2>8, AppendEmpty
    <3> QED BY <1>4, <3>1, InvNext
  <2>11. Lists
    BY <1>5, <2>8, GrowsStep DEF Lists
  <2>12. AsLedger!SystemCall
    BY <1>1, <1>6, <1>8, <2>1, <2>9 DEF AsLedger!SystemCall, a
  <2>13. AsLedger!Next
    BY <2>12 DEF AsLedger!Next, AsLedger!Step, Tracks
  <2> QED BY <2>10, <2>11, <2>13 DEF Implements
<1> QED BY <1>7, <1>8

(* BeginBody and EndBlock implement Advance.                               *)
LEMMA LedgerAdvance ==
  ASSUME LedgerInv, Tracks, BeginBody \/ EndBlock
  PROVE  Implements
<1>1. /\ frames = <<>> /\ calls = <<>> /\ db' = db /\ UNCHANGED <<frames, calls, tx>>
      /\ \/ phase = "start" /\ phase' = "body"
         \/ phase = "end" /\ phase' = "done"
  BY DEF BeginBody, EndBlock, Idle
<1>2. world = View(db) /\ saved = SavedViews(db) /\ Whole(db) /\ Clean(db)
      /\ fork \in DOMAIN Blocks /\ calls \in Seq(Addr)
  BY <1>1 DEF LedgerInv
<1>3. world' = world /\ saved' = saved /\ fork' = fork
  BY <1>1, <1>2 DEF Tracks
<1>4. LedgerInv'
  BY <1>1, <1>2, <1>3, InvNext
<1>5. AsLedger!Advance
  BY <1>1, <1>3 DEF AsLedger!Advance
<1>6. AsLedger!Next
  BY <1>3, <1>5 DEF AsLedger!Next, AsLedger!Step
<1>7. Lists
  BY <1>1, SameGrows DEF Lists
<1> QED BY <1>4, <1>6, <1>7 DEF Implements

(* apply_block_end_state implements Withdraw.                              *)
LEMMA LedgerWithdraw ==
  ASSUME LedgerInv, Tracks, NEW a \in Withdrawers, apply_block_end_state(a)
  PROVE  Implements
<1> DEFINE e == k_add_balance(db, a, Reward)
<1>1. /\ frames = <<>> /\ phase = "body" /\ tx = MaxTx /\ phase' = "end" /\ calls' = EndCalls
      /\ db' = k_tx_merge(e, MaxTx + 1) /\ frames' = frames /\ tx' = tx
  BY DEF apply_block_end_state, Idle
<1>2. /\ Whole(db) /\ Overlaid(db) /\ saved = <<>> /\ world = View(db) /\ fork \in DOMAIN Blocks
  BY <1>1, IdleIs
<1>3. a \in Addr /\ EndCalls \in Seq(Addr) /\ Reward \in Nat
  BY <1>2, BlockAssumption, AmountAssumption DEF Withdrawers, EndCalls
<1>4. Whole(e) /\ View(e) = AsLedger!Credit(world, a, Reward) /\ Grows(db, e)
  <2>1. Acts(db, e, AsLedger!Credit(world, a, Reward))
    BY <1>2, <1>3, Added
  <2>2. Carries(View(db), AsLedger!Credit(world, a, Reward))
    BY <1>2, <1>3, IdleIs, <1>1, CreditCarries
  <2> HIDE DEF e
  <2> QED BY <1>2, <2>1, <2>2, WholeActs
<1> HIDE DEF e
<1>5. /\ Whole(db') /\ Clean(db')
      /\ View(db') = AsLedger!Finish(AsLedger!Credit(world, a, Reward))
  BY <1>1, <1>2, <1>4, WholeMerged
<1>6. SavedViews(db') = <<>>
  BY <1>5, NoSaved DEF Whole
<1>7. fork' = fork /\ world' = View(db') /\ saved' = SavedViews(db')
  BY DEF Tracks
<1>8. LedgerInv'
  BY <1>1, <1>2, <1>3, <1>5, <1>7, InvNext
<1>9. AsLedger!Withdraw(a)
  BY <1>1, <1>2, <1>5, <1>6, <1>7 DEF AsLedger!Withdraw, MaxTx, EndCalls
<1>10. AsLedger!Next
  BY <1>3, <1>7, <1>9 DEF AsLedger!Next, AsLedger!Step
<1>11. Lists
  <2>1. Merging(db, db', MaxTx + 1)
    BY <1>1, <1>4 DEF Merging
  <2>2. Index' = MaxTx + 1
    BY <1>1, <1>7 DEF Index, MaxTx
  <2> QED BY <1>1, <2>1, <2>2 DEF Lists
<1> QED BY <1>8, <1>10, <1>11 DEF Implements

-----------------------------------------------------------------------------
(* The initial host.                                                       *)
LEMMA InitHost ==
  /\ IsHost(HostInit) /\ Clean(HostInit) /\ HostInit.journal = <<>>
  /\ HostInit.account_block = <<>> /\ HostInit.storage_block = <<>> /\ IsBal(HostInit.bal)
BY DEF HostInit, IsHost, Clean, InitialGeneration, IsBal, EmptyBal

(* An empty block overlay is in order, over the accounts of the parent     *)
(* state.                                                                  *)
LEMMA InitBlock ==
  BlockOK(HostInit) /\ \A a \in Addr : Base(HostInit, a) = stateless_account_by_key(a)
<1>1. HostInit.account_block = <<>> /\ HostInit.storage_block = <<>> /\ IsBal(HostInit.bal)
  BY InitHost
<1>2. DOMAIN HostInit.account_block = {} /\ DOMAIN HostInit.storage_block = {}
  BY <1>1
<1>3. \A a : Base(HostInit, a) = stateless_account_by_key(a)
  BY <1>2 DEF Base, acct_block_found
<1>4. \A k : SlotBase(HostInit, k) = Anchor(HostInit, k)
  BY <1>2 DEF SlotBase
<1> QED BY <1>1, <1>2, <1>3, <1>4 DEF BlockOK

(* The slots of the parent state.                                          *)
LEMMA InitSlots ==
  ASSUME NEW a \in Addr, NEW s \in Slot
  PROVE  SlotBase(HostInit, <<a, s>>) = Parent[a].storage[s]
<1>1. SlotBase(HostInit, <<a, s>>) = Anchor(HostInit, <<a, s>>)
  BY InitHost DEF SlotBase
<1>2. Base(HostInit, a) = stateless_account_by_key(a)
  BY InitBlock
<1>3. stateless_account_by_key(a).storage_cleared = ~Parent[a].present
  <2>1. Parent[a].present \in BOOLEAN
    BY ParentAssumption
  <2> QED BY <2>1 DEF stateless_account_by_key, EmptyAccount
<1>4. ~Parent[a].present => Parent[a].storage[s] = 0
  BY ParentAssumption
<1> QED BY <1>1, <1>2, <1>3, <1>4 DEF Anchor

(* The account of the parent state, present or not.                        *)
LEMMA InitAccount ==
  ASSUME NEW a \in Addr
  PROVE  LET acc == stateless_account_by_key(a)
         IN /\ acc.nonce = Parent[a].nonce /\ acc.balance = Parent[a].balance /\ acc.code = Parent[a].code
            /\ acc.created = FALSE /\ acc.selfdestructed = FALSE
<1>1. /\ Parent[a].present \in BOOLEAN
      /\ ~Parent[a].present => Parent[a].nonce = 0 /\ Parent[a].balance = 0 /\ Parent[a].code = NoCode
  BY ParentAssumption
<1> QED BY <1>1 DEF stateless_account_by_key, EmptyAccount

(* The initial host shows the parent state.                                *)
LEMMA InitView ==
  /\ Whole(HostInit)
  /\ View(HostInit) = [a \in Addr |->
       [nonce |-> Parent[a].nonce, balance |-> Parent[a].balance, code |-> Parent[a].code,
        created |-> FALSE, doomed |-> FALSE,
        storage |-> Parent[a].storage, orig |-> Parent[a].storage]]
<1>1. IsSeq(HostInit.journal) /\ Len(ScopesOf(HostInit)) = 0
  BY InitHost, NoScopes
<1>2. /\ Overlaid(HostInit)
      /\ View(HostInit) = [a \in Addr |-> LET st == [s \in Slot |-> SlotBase(HostInit, <<a, s>>)]
                                          IN Shown(Base(HostInit, a), st, st)]
  BY <1>1, InitHost, InitBlock, CleanOverlaid
<1>3. Whole(HostInit)
  <2>1. Starts(View(HostInit), HostInit)
    <3> SUFFICES ASSUME NEW a \in Addr
                 PROVE  /\ Still(a, View(HostInit)[a]) /\ View(HostInit)[a].orig = SlotsBase(HostInit, a)
                        /\ ~View(HostInit)[a].created
      BY DEF Starts
    <3> DEFINE q == View(HostInit)[a]
    <3>1. /\ q.nonce = Base(HostInit, a).nonce /\ q.code = Base(HostInit, a).code
          /\ q.created = Base(HostInit, a).created /\ ~Base(HostInit, a).created
          /\ q.storage = SlotsBase(HostInit, a) /\ q.orig = SlotsBase(HostInit, a)
      BY <1>2, InitHost, CleanShows
    <3> HIDE DEF q
    <3>2. q.nonce = Parent[a].nonce /\ q.code = Parent[a].code
      BY <3>1, InitBlock, InitAccount
    <3>3. a = Sender /\ ~Alive(q) => q.storage = Zeros
      <4> SUFFICES ASSUME a = Sender, ~Alive(q) PROVE q.storage = Zeros
        OBVIOUS
      <4>1. \A s \in Slot : Parent[a].storage[s] = 0
        BY <3>2, SenderAssumption DEF Alive
      <4>2. SlotsBase(HostInit, a) = Zeros
        BY <4>1, InitSlots DEF SlotsBase, Zeros
      <4> QED BY <3>1, <4>2
    <3> QED BY <3>1, <3>3 DEF Still, q
  <2> QED BY <1>1, <1>2, <2>1 DEF Whole, Good, Begun
<1>4. ASSUME NEW a \in Addr
      PROVE  LET st == [s \in Slot |-> SlotBase(HostInit, <<a, s>>)]
             IN Shown(Base(HostInit, a), st, st) =
                  [nonce |-> Parent[a].nonce, balance |-> Parent[a].balance, code |-> Parent[a].code,
                   created |-> FALSE, doomed |-> FALSE,
                   storage |-> Parent[a].storage, orig |-> Parent[a].storage]
  <2>1. [s \in Slot |-> SlotBase(HostInit, <<a, s>>)] = Parent[a].storage
    <3>1. [s \in Slot |-> SlotBase(HostInit, <<a, s>>)] = [s \in Slot |-> Parent[a].storage[s]]
      BY InitSlots
    <3> QED BY <3>1, ParentSlots
  <2>2. Base(HostInit, a) = stateless_account_by_key(a)
    BY InitBlock
  <2> QED BY <2>1, <2>2, InitAccount DEF Shown
<1> QED BY <1>2, <1>3, <1>4

(* The initial states map to initial states.                               *)
LEMMA LedgerInit ==
  ASSUME ViewInit
  PROVE  LedgerInv /\ AsLedger!Init
<1>1. /\ fork \in DOMAIN Blocks /\ db = HostInit /\ frames = <<>> /\ phase = "start"
      /\ calls = Blocks[fork].start /\ tx = 0 /\ world = View(db) /\ saved = SavedViews(db)
  BY DEF ViewInit, Init, StartCalls
<1>2. Whole(db) /\ Clean(db)
  BY <1>1, InitView, InitHost
<1>3. calls \in Seq(Addr)
  BY <1>1, BlockAssumption
<1>4. saved = <<>>
  BY <1>1, <1>2, NoSaved DEF Whole
<1>5. LedgerInv
  BY <1>1, <1>2, <1>3 DEF LedgerInv
<1>6. AsLedger!Init
  BY <1>1, <1>4, InitView DEF AsLedger!Init
<1> QED BY <1>5, <1>6

-----------------------------------------------------------------------------
(* Every step.                                                             *)
LEMMA LedgerStep ==
  ASSUME LedgerInv, Tracks, Step
  PROVE  Implements
<1>1. ASSUME NEW s \in Slot, Sload(s) PROVE Implements
  BY <1>1, LedgerSload
<1>2. ASSUME NEW s \in Slot, NEW v \in Word, Sstore(s, v) PROVE Implements
  BY <1>2, LedgerSstore
<1>3. ASSUME NEW a \in Addr, NEW v \in Value, Call(a, v) PROVE Implements
  BY <1>3, LedgerCall
<1>4. ASSUME NEW a \in Creatable, NEW v \in Value, Create(a, v) PROVE Implements
  BY <1>4, LedgerCreate
<1>5. ASSUME NEW c \in Code \union {NoCode}, Return(c) PROVE Implements
  BY <1>5, LedgerReturn
<1>6. ASSUME NEW a \in Addr, Selfdestruct(a) PROVE Implements
  BY <1>6, LedgerSelfdestruct
<1>7. ASSUME NEW a \in Addr, NEW v \in Value, CallTransaction(a, v) PROVE Implements
  BY <1>7, LedgerCallTransaction
<1>8. ASSUME NEW a \in Creatable, NEW v \in Value, CreateTransaction(a, v) PROVE Implements
  BY <1>8, LedgerCreateTransaction
<1>9. ASSUME NEW a \in Withdrawers, apply_block_end_state(a) PROVE Implements
  BY <1>9, LedgerWithdraw
<1> QED BY <1>1, <1>2, <1>3, <1>4, <1>5, <1>6, <1>7, <1>8, <1>9,
           LedgerRevert, LedgerSystemCall, LedgerAdvance DEF Step

(* A step that changes nothing is a stutter of the ledger.                 *)
LEMMA LedgerStutter ==
  ASSUME LedgerInv, UNCHANGED <<vars, world, saved>>
  PROVE  Implements
<1>1. db' = db /\ fork' = fork /\ frames' = frames /\ phase' = phase /\ calls' = calls /\ tx' = tx
      /\ world' = world /\ saved' = saved
  BY DEF vars, control
<1>2. LedgerInv'
  BY <1>1, InvNext DEF LedgerInv, Extra
<1>3. UNCHANGED AsLedger!vars
  BY <1>1 DEF AsLedger!vars
<1>4. Grows(db, db')
  BY <1>1, SameGrows
<1> QED BY <1>2, <1>3, <1>4 DEF Implements, Lists

(* What AccessesStayListed says of a step.                                 *)
LEMMA StepLists ==
  ASSUME LedgerInv, Implements, Tracks, Next
  PROVE  /\ db.bal.accounts \subseteq db'.bal.accounts
         /\ db.bal.reads \subseteq db'.bal.reads
         /\ \A n \in 1 .. Len(frames') : frames'[n].addr \in db'.bal.accounts
         /\ \A s \in Slot : (Sload(s) \/ \E v \in Word : Sstore(s, v)) => <<Self, s>> \in db'.bal.reads
<1>1. Widens(db, db') /\ LedgerInv'
  <2>1. fork \in DOMAIN Blocks
    BY DEF LedgerInv
  <2> QED BY <2>1, GrowsWidens, MergingWidens DEF Implements, Lists
<1>2. ASSUME NEW n \in 1 .. Len(frames') PROVE frames'[n].addr \in db'.bal.accounts
  <2>1. frames' # <<>>
    BY <1>2
  <2>2. Ordered(db', frames', Extra')
    BY <1>1, <2>1, InvNext DEF Tracks
  <2> QED BY <1>2, <2>2 DEF Ordered
<1>3. ASSUME NEW s \in Slot, Sload(s) PROVE <<Self, s>> \in db'.bal.reads
  BY <1>3, LedgerSload
<1>4. ASSUME NEW s \in Slot, NEW v \in Word, Sstore(s, v) PROVE <<Self, s>> \in db'.bal.reads
  BY <1>4, LedgerSstore
<1> QED BY <1>1, <1>2, <1>3, <1>4 DEF Widens

(* The parts of a step.                                                    *)
LEMMA NextIs ==
  ASSUME ViewNext
  PROVE  Tracks /\ Step /\ Next
BY DEF ViewNext, Next, Tracks

-----------------------------------------------------------------------------
(* What the merges of a block record.                                      *)

(* The fields whose changes bal_field_change records.                      *)
Fields == {"balance", "nonce", "code"}

(* The table that Over makes.                                              *)
LEMMA OverIs ==
  ASSUME NEW c, NEW t, NEW x
  PROVE  /\ x \in DOMAIN c => x \in DOMAIN Over(c, t) /\ Over(c, t)[x] = c[x]
         /\ x \notin DOMAIN c => /\ x \in DOMAIN Over(c, t) <=> x \in DOMAIN t
                                 /\ x \in DOMAIN t => Over(c, t)[x] = t[x]
BY DEF Over

(* The key of a change: the account, or the account and the slot, and the  *)
(* index.                                                                  *)
LEMMA KeyIs ==
  ASSUME NEW a, NEW s, NEW n
  PROVE  Append(<<a>>, n) = <<a, n>> /\ Append(<<a, s>>, n) = <<a, s, n>>
<1>1. IsSeq(<<a>>) /\ IsSeq(<<a, s>>) /\ IsSeq(<<a, n>>) /\ IsSeq(<<a, s, n>>)
  BY DEF IsSeq
<1>2. Append(<<a>>, n) = <<a, n>>
  <2> DEFINE p == <<a>>
             q == Append(p, n)
             r == <<a, n>>
  <2>1. IsSeq(p) /\ Len(p) = 1 /\ p[1] = a
    BY <1>1
  <2>2. IsSeq(r) /\ Len(r) = 2 /\ r[1] = a /\ r[2] = n
    BY <1>1
  <2> HIDE DEF p, r
  <2>3. IsSeq(q) /\ Len(q) = 2 /\ q[1] = a /\ q[2] = n
    <3>1. IsSeq(q) /\ Len(q) = Len(p) + 1 /\ (\A i \in 1 .. Len(p) : q[i] = p[i]) /\ q[Len(p) + 1] = n
      BY <2>1, SeqAppend
    <3>2. 1 \in 1 .. Len(p) /\ Len(p) + 1 = 2
      BY <2>1
    <3> HIDE DEF q
    <3> QED BY <2>1, <3>1, <3>2
  <2> HIDE DEF q
  <2>4. q = r
    BY <2>2, <2>3, SeqSame
  <2> QED BY <2>4 DEF q, p, r
<1>3. Append(<<a, s>>, n) = <<a, s, n>>
  <2> DEFINE p == <<a, s>>
             q == Append(p, n)
             r == <<a, s, n>>
  <2>1. IsSeq(p) /\ Len(p) = 2 /\ p[1] = a /\ p[2] = s
    BY <1>1
  <2>2. IsSeq(r) /\ Len(r) = 3 /\ r[1] = a /\ r[2] = s /\ r[3] = n
    BY <1>1
  <2> HIDE DEF p, r
  <2>3. IsSeq(q) /\ Len(q) = 3 /\ q[1] = a /\ q[2] = s /\ q[3] = n
    BY <2>1, SeqAppend
  <2> HIDE DEF q
  <2>4. q = r
    BY <2>2, <2>3, SeqSame
  <2> QED BY <2>4 DEF q, p, r
<1> QED BY <1>2, <1>3

(* A merge at index i that records the changed value new, if it is one.    *)
LEMMA RecordTold ==
  ASSUME NEW t, NEW c, NEW key, NEW base, NEW val, NEW new, NEW i \in Nat, NEW m \in Nat,
         Told(t, key, base, val, Before(i, m), m),
         \A n \in Nat : n # i => ~Noted(c, key, n),
         Noted(c, key, i) <=> new # val,
         Noted(c, key, i) => c[Append(key, i)] = new
  PROVE  Told(Over(c, t), key, base, new, i, m)
<1> DEFINE u == Over(c, t)
<1>1. ASSUME NEW n \in Nat
      PROVE  /\ ~Noted(c, key, n) => Agree(t, u, key, n)
             /\ Noted(c, key, n) => Noted(u, key, n) /\ u[Append(key, n)] = c[Append(key, n)]
  <2> DEFINE x == Append(key, n)
  <2> HIDE DEF x
  <2>1. /\ x \in DOMAIN c => x \in DOMAIN u /\ u[x] = c[x]
        /\ x \notin DOMAIN c => /\ x \in DOMAIN u <=> x \in DOMAIN t
                                /\ x \in DOMAIN t => u[x] = t[x]
    BY OverIs
  <2> HIDE DEF u
  <2> QED BY <2>1, Zenon DEF Agree, Noted, x
<1> HIDE DEF u
<1>2. Told(u, key, base, new, i, m)
  BY <1>1, ToldMerged
<1> QED BY <1>2 DEF u

(* The access list, replayed on the parent state up to index i, gives what *)
(* the block overlay holds of every account and slot.                      *)
Recorded(d, i, m) ==
  \A a \in Addr :
    /\ \A f \in Fields : Told(d.bal[f], <<a>>, Parent[a][f], Base(d, a)[f], i, m)
    /\ \A s \in Slot : Told(d.bal.storage, <<a, s>>, Parent[a].storage[s], SlotBase(d, <<a, s>>), i, m)

(* No instruction touches the changes or the block overlay.                *)
LEMMA RecordedGrows ==
  ASSUME NEW x, NEW y, Grows(x, y), NEW i, NEW m, Recorded(x, i, m)
  PROVE  Recorded(y, i, m)
<1>1. \A f \in Fields : y.bal[f] = x.bal[f]
  BY DEF Grows, Fields
<1>2. /\ \A a \in Addr : Base(y, a) = Base(x, a)
      /\ \A a \in Addr, s \in Slot : SlotBase(y, <<a, s>>) = SlotBase(x, <<a, s>>)
      /\ y.bal.storage = x.bal.storage
  BY DEF Grows
<1> QED BY <1>1, <1>2 DEF Recorded

(* What is recorded up to an index is recorded up to a later one.          *)
LEMMA RecordedLater ==
  ASSUME NEW d, NEW i \in Nat, NEW j \in Nat, i <= j, NEW m, Recorded(d, i, m)
  PROVE  Recorded(d, j, m)
BY ToldLater DEF Recorded

(* The tables of the list after a merge.                                   *)
LEMMA MergedLists ==
  ASSUME NEW d, Overlaid(d), NEW i
  PROVE  LET y == k_tx_merge(d, i)
             e == MergeAccounts(d, i)
         IN /\ Merges(d, e, y)
            /\ \A f \in Fields : y.bal[f] = Over(FieldChanges(d, i, f), d.bal[f])
            /\ y.bal.storage = Over(StorageChanges(d, e, i), d.bal.storage)
<1> DEFINE y == k_tx_merge(d, i)
           e == MergeAccounts(d, i)
           c == RecordChanges(d, i)
           S == StorageChanges(d, e, i)
<1>1. Merges(d, e, y) /\ y.bal = bal_storage_change(c, S) /\ IsBal(d.bal)
  BY MergeIs DEF Overlaid, BlockOK, Shaped
<1>2. /\ IsBal(c) /\ c.storage = d.bal.storage
      /\ \A f \in {"nonce", "balance", "code"} : c[f] = Over(FieldChanges(d, i, f), d.bal[f])
  BY <1>1, ChangesRecorded
<1> HIDE DEF c, S, y, e
<1>3. /\ y.bal.storage = Over(S, c.storage)
      /\ y.bal.balance = c.balance /\ y.bal.nonce = c.nonce /\ y.bal.code = c.code
  BY <1>1, <1>2, StorageNoted
<1>4. \A f \in Fields : y.bal[f] = c[f]
  BY <1>3 DEF Fields
<1>5. \A f \in Fields : y.bal[f] = Over(FieldChanges(d, i, f), d.bal[f])
  BY <1>2, <1>4 DEF Fields
<1> QED BY <1>1, <1>2, <1>3, <1>5 DEF y, e, S

(* A merge records a field of an account exactly when the transaction      *)
(* leaves it another than the block holds.                                 *)
LEMMA FieldChanged ==
  ASSUME NEW d, Overlaid(d), NEW i, NEW f \in Fields, NEW a \in Addr
  PROVE  LET c == FieldChanges(d, i, f)
         IN /\ \A n : n # i => ~Noted(c, <<a>>, n)
            /\ Noted(c, <<a>>, i) <=> After(d, a)[f] # Base(d, a)[f]
            /\ Noted(c, <<a>>, i) => c[Append(<<a>>, i)] = After(d, a)[f]
<1> DEFINE changed == {b \in Touched(d) : MergedAccount(AccountRow(d, b))[f] # AccountRow(d, b).original[f]}
           c == FieldChanges(d, i, f)
<1>1. c = [k \in changed \X {i} |-> MergedAccount(AccountRow(d, k[1]))[f]]
  BY Zenon DEF FieldChanges
<1>2. a \in Touched(d) => /\ MergedAccount(AccountRow(d, a))[f] = After(d, a)[f]
                          /\ AccountRow(d, a).original = Base(d, a)
  <2> SUFFICES ASSUME a \in Touched(d)
               PROVE  /\ MergedAccount(AccountRow(d, a))[f] = After(d, a)[f]
                      /\ AccountRow(d, a).original = Base(d, a)
    OBVIOUS
  <2> DEFINE row == AccountRow(d, a)
  <2>1. row.current = Loaded(d, a) /\ row.original = Base(d, a) /\ Fine(Loaded(d, a))
    BY TxRow, LoadedIs
  <2>2. After(d, a) = SettledAccount(row)
    BY DEF After
  <2> HIDE DEF row
  <2>3. SameFields(SettledAccount(row), MergedAccount(row))
    BY <2>1, RowSettled
  <2>4. MergedAccount(row)[f] = SettledAccount(row)[f]
    BY <2>3 DEF SameFields, Fields
  <2> QED BY <2>1, <2>2, <2>4 DEF row
<1>3. a \in changed <=> After(d, a)[f] # Base(d, a)[f]
  <2>1. a \notin Touched(d) => After(d, a) = Base(d, a)
    BY DEF After
  <2> QED BY <1>2, <2>1
<1>4. a \in changed => a \in Touched(d)
  OBVIOUS
<1> HIDE DEF changed, c
<1>5. \A n : <<a, n>> \in DOMAIN c <=> a \in changed /\ n = i
  BY <1>1
<1>6. <<a, i>> \in DOMAIN c => c[<<a, i>>] = MergedAccount(AccountRow(d, a))[f]
  BY <1>1, <1>5
<1>7. \A n : Append(<<a>>, n) = <<a, n>>
  BY KeyIs
<1>8. \A n : Noted(c, <<a>>, n) <=> a \in changed /\ n = i
  BY <1>5, <1>7, Zenon DEF Noted
<1>9. Noted(c, <<a>>, i) => c[Append(<<a>>, i)] = MergedAccount(AccountRow(d, a))[f]
  BY <1>6, <1>7, Zenon DEF Noted
<1> QED BY <1>2, <1>3, <1>4, <1>8, <1>9 DEF c

(* After a merge the table of a field tells of each account.               *)
LEMMA FieldTold ==
  ASSUME NEW d, Overlaid(d), NEW i \in Nat, NEW m \in Nat, NEW f \in Fields, NEW a \in Addr, NEW base,
         Told(d.bal[f], <<a>>, base, Base(d, a)[f], Before(i, m), m)
  PROVE  LET y == k_tx_merge(d, i) IN Told(y.bal[f], <<a>>, base, Base(y, a)[f], i, m)
<1> DEFINE y == k_tx_merge(d, i)
           e == MergeAccounts(d, i)
           c == FieldChanges(d, i, f)
           key == <<a>>
           val == Base(d, a)[f]
           new == After(d, a)[f]
<1>1. y.bal[f] = Over(c, d.bal[f]) /\ Base(y, a) = After(d, a)
  BY MergedLists, MergedBase
<1>2. /\ \A n : n # i => ~Noted(c, key, n)
      /\ Noted(c, key, i) <=> new # val
      /\ Noted(c, key, i) => c[Append(key, i)] = new
  BY FieldChanged
<1>3. Told(d.bal[f], key, base, val, Before(i, m), m)
  OBVIOUS
<1> HIDE DEF y, c, key, val, new
<1>4. Told(Over(c, d.bal[f]), key, base, new, i, m)
  BY <1>2, <1>3, RecordTold
<1> QED BY <1>1, <1>4 DEF y, key, new

(* A merge records a slot exactly when the block holds another value after *)
(* it: no deleted account had a slot to lose, for it was created in this   *)
(* transaction.                                                            *)
LEMMA SlotChanged ==
  ASSUME NEW d, Whole(d), fork = "Amsterdam", fork \in DOMAIN Blocks, NEW i, NEW a \in Addr, NEW s \in Slot
  PROVE  LET y == k_tx_merge(d, i)
             c == StorageChanges(d, MergeAccounts(d, i), i)
         IN /\ \A n : n # i => ~Noted(c, <<a, s>>, n)
            /\ Noted(c, <<a, s>>, i) <=> SlotBase(y, <<a, s>>) # SlotBase(d, <<a, s>>)
            /\ Noted(c, <<a, s>>, i) => c[Append(<<a, s>>, i)] = SlotBase(y, <<a, s>>)
<1> DEFINE y == k_tx_merge(d, i)
           e == MergeAccounts(d, i)
           c == StorageChanges(d, e, i)
           k == <<a, s>>
<1>0. k \in Addr \X Slot /\ k[1] = a /\ k[2] = s
  OBVIOUS
<1>1. Overlaid(d) /\ Merges(d, e, y)
  BY MergedLists DEF Whole, Good
<1>2. c = [x \in {<<x[1], x[2], i>> : x \in Written(d, e)} |-> storage_tx_get(d, <<x[1], x[2]>>).curr]
  BY Zenon DEF StorageChanges
<1> HIDE DEF c
<1>3. Written(d, e) \subseteq Addr \X Slot
  BY DEF Written
<1>4. \A n : <<a, s, n>> \in DOMAIN c <=> <<a, s>> \in Written(d, e) /\ n = i
  BY <1>2, <1>3
<1>5. <<a, s, i>> \in DOMAIN c => c[<<a, s, i>>] = storage_tx_get(d, <<a, s>>).curr
  BY <1>2
<1> HIDE DEF y, e
<1>6. SlotBase(y, <<a, s>>) = IF Gone(d, a) THEN 0 ELSE Slots(d, a)[s]
  BY <1>1, MergedSlot
<1>7. /\ View(d)[a].orig = Births(d, a) /\ View(d)[a].created = Loaded(d, a).created
      /\ View(d)[a].orig = SlotsBase(d, a)
      /\ View(d)[a].created => View(d)[a].orig = Zeros
  <2>1. View(d)[a] = Shown(Loaded(d, a), Slots(d, a), Births(d, a))
    BY <1>1, ViewIs
  <2>2. /\ View(d)[a].orig = SlotsBase(d, a)
        /\ View(d)[a].created => View(d)[a].orig = Zeros
    BY DEF Whole, Begun, Starts
  <2> QED BY <2>1, <2>2 DEF Shown
<1>8. Born(d, <<a, s>>) = SlotBase(d, <<a, s>>)
  <2>1. Births(d, a)[s] = SlotsBase(d, a)[s]
    BY <1>7
  <2> QED BY <2>1 DEF Births, SlotsBase
<1>9. Gone(d, a) => SlotBase(d, <<a, s>>) = 0
  <2> SUFFICES ASSUME Gone(d, a) PROVE SlotBase(d, <<a, s>>) = 0
    OBVIOUS
  <2>1. Loaded(d, a).created
    BY <1>1, GoneIs
  <2>2. SlotsBase(d, a)[s] = Zeros[s]
    BY <1>7, <2>1
  <2> QED BY <2>2 DEF SlotsBase, Zeros
<1>10. Slots(d, a)[s] = IF Listed(d.storage_tx, <<a, s>>) THEN Row(d, <<a, s>>).curr ELSE Born(d, <<a, s>>)
  BY DEF Slots
<1>11. /\ <<a, s>> \in Written(d, e) <=>
            /\ Listed(d.storage_tx, <<a, s>>) /\ ~Gone(d, a) /\ Row(d, <<a, s>>).curr # Born(d, <<a, s>>)
       /\ storage_tx_get(d, <<a, s>>).curr = Row(d, <<a, s>>).curr
  <2>1. /\ k \in Written(d, e) <=>
             /\ Listed(d.storage_tx, k) /\ ~Gone(d, k[1]) /\ Row(d, k).curr # Born(d, k)
        /\ storage_tx_get(d, k).curr = Row(d, k).curr
    <3> HIDE DEF k
    <3> QED BY <1>0, <1>1, WrittenIs
  <2> QED BY <2>1
<1>12. <<a, s>> \in Written(d, e) <=> SlotBase(y, <<a, s>>) # SlotBase(d, <<a, s>>)
  BY <1>6, <1>8, <1>9, <1>10, <1>11
<1>13. <<a, s>> \in Written(d, e) => storage_tx_get(d, <<a, s>>).curr = SlotBase(y, <<a, s>>)
  BY <1>6, <1>10, <1>11
<1>14. \A n : Append(<<a, s>>, n) = <<a, s, n>>
  BY KeyIs
<1>15. \A n : Noted(c, <<a, s>>, n) <=> <<a, s>> \in Written(d, e) /\ n = i
  BY <1>4, <1>14, Zenon DEF Noted, e
<1>16. Noted(c, <<a, s>>, i) => c[Append(<<a, s>>, i)] = storage_tx_get(d, <<a, s>>).curr
  BY <1>5, <1>14, Zenon DEF Noted
<1> QED BY <1>12, <1>13, <1>15, <1>16 DEF y, e, c

(* After a merge the storage table tells of each slot.                     *)
LEMMA SlotTold ==
  ASSUME NEW d, Whole(d), fork = "Amsterdam", fork \in DOMAIN Blocks, NEW i \in Nat, NEW m \in Nat,
         NEW a \in Addr, NEW s \in Slot, NEW base,
         Told(d.bal.storage, <<a, s>>, base, SlotBase(d, <<a, s>>), Before(i, m), m)
  PROVE  LET y == k_tx_merge(d, i) IN Told(y.bal.storage, <<a, s>>, base, SlotBase(y, <<a, s>>), i, m)
<1> DEFINE y == k_tx_merge(d, i)
           c == StorageChanges(d, MergeAccounts(d, i), i)
           key == <<a, s>>
           val == SlotBase(d, key)
           new == SlotBase(y, key)
<1>1. y.bal.storage = Over(c, d.bal.storage)
  BY MergedLists DEF Whole, Good
<1>2. /\ \A n : n # i => ~Noted(c, key, n)
      /\ Noted(c, key, i) <=> new # val
      /\ Noted(c, key, i) => c[Append(key, i)] = new
  BY SlotChanged
<1>3. Told(d.bal.storage, key, base, val, Before(i, m), m)
  OBVIOUS
<1> HIDE DEF y, c, key, val, new
<1>4. Told(Over(c, d.bal.storage), key, base, new, i, m)
  BY <1>2, <1>3, RecordTold
<1> QED BY <1>1, <1>4 DEF y, key, new

(* k_tx_merge brings the list up to its index.                             *)
LEMMA RecordedMerged ==
  ASSUME NEW d, Whole(d), fork = "Amsterdam", fork \in DOMAIN Blocks, NEW i \in Nat, NEW m \in Nat,
         Recorded(d, Before(i, m), m)
  PROVE  Recorded(k_tx_merge(d, i), i, m)
<1>1. Overlaid(d)
  BY DEF Whole, Good
<1> QED BY <1>1, FieldTold, SlotTold DEF Recorded

(* An empty list replays to the parent state.                              *)
LEMMA RecordedInit ==
  ASSUME NEW i \in Nat, NEW m
  PROVE  Recorded(HostInit, i, m)
<1>1. /\ \A f \in Fields : HostInit.bal[f] = <<>>
      /\ HostInit.bal.storage = <<>>
  BY DEF HostInit, EmptyBal, Fields
<1>2. ASSUME NEW key, NEW val PROVE Told(<<>>, key, val, val, i, m)
  <2>1. \A x : x \notin DOMAIN <<>>
    OBVIOUS
  <2> QED BY <2>1 DEF Told, Noted, Latest
<1>3. ASSUME NEW a \in Addr, NEW f \in Fields PROVE Base(HostInit, a)[f] = Parent[a][f]
  <2>1. Base(HostInit, a) = stateless_account_by_key(a)
    BY InitBlock
  <2> QED BY <2>1, InitAccount DEF Fields
<1> QED BY <1>1, <1>2, <1>3, InitSlots DEF Recorded

-----------------------------------------------------------------------------
(* Where the block is: merges come in the order of their indices.          *)
Paced == tx \in Nat /\ tx <= MaxTx /\ (phase = "start" => tx = 0)

(* The highest index recorded so far: within a transaction or a system     *)
(* call, what its own merge will find.                                     *)
Reached == IF frames = <<>> THEN Index ELSE Before(Index, MaxTx)

(* The invariant of the list: it tells of the merges there have been.      *)
ListInv == Paced /\ (fork = "Amsterdam" => Recorded(db, Reached, MaxTx))

(* How a step moves the block on.                                          *)
Moves ==
  \/ /\ frames # <<>> /\ tx' = tx
     /\ \/ phase' = phase
        \/ phase = "end" /\ phase' = "invalid"
  \/ frames = <<>> /\ phase = "body" /\ phase' = "body" /\ tx < MaxTx /\ tx' = tx + 1
  \/ /\ frames = <<>> /\ tx' = tx
     /\ \/ phase = "body" /\ tx = MaxTx /\ phase' = "end"
        \/ phase \in {"start", "end"} /\ phase' = phase
        \/ phase = "end" /\ phase' \in {"invalid", "done"}
        \/ phase = "start" /\ phase' = "body"

(* Every step moves the block on so.                                       *)
LEMMA StepMoves ==
  ASSUME Step
  PROVE  Moves
<1>1. ASSUME NEW d, Running, Instruction(d) PROVE Moves
  BY <1>1 DEF Running, InFrame, Instruction, control, Moves
<1>2. ASSUME InFrame, UNCHANGED control PROVE Moves
  BY <1>2 DEF InFrame, control, Moves
<1>3. ASSUME BeginTransaction PROVE Moves
  BY <1>3 DEF BeginTransaction, Idle, Moves
<1>4. ASSUME NEW s \in Slot, Sload(s) PROVE Moves
  BY <1>1, <1>4 DEF Sload
<1>5. ASSUME NEW s \in Slot, NEW v \in Word, Sstore(s, v) PROVE Moves
  BY <1>1, <1>5 DEF Sstore
<1>6. ASSUME NEW a \in Addr, NEW v \in Value, Call(a, v) PROVE Moves
  BY <1>1, <1>6 DEF Call
<1>7. ASSUME NEW a \in Creatable, NEW v \in Value, Create(a, v) PROVE Moves
  BY <1>1, <1>7 DEF Create
<1>8. ASSUME NEW c \in Code \union {NoCode}, Return(c) PROVE Moves
  <2>1. UNCHANGED control
    BY <1>8 DEF Return, control
  <2> QED BY <1>2, <1>8, <2>1 DEF Return
<1>9. ASSUME NEW a \in Addr, Selfdestruct(a) PROVE Moves
  BY <1>2, <1>9 DEF Selfdestruct, Running
<1>10. ASSUME NEW a \in Addr, NEW v \in Value, CallTransaction(a, v) PROVE Moves
  BY <1>3, <1>10 DEF CallTransaction
<1>11. ASSUME NEW a \in Creatable, NEW v \in Value, CreateTransaction(a, v) PROVE Moves
  BY <1>3, <1>11 DEF CreateTransaction
<1>12. ASSUME NEW a \in Withdrawers, apply_block_end_state(a) PROVE Moves
  BY <1>12 DEF apply_block_end_state, Idle, Moves
<1>13. ASSUME Revert PROVE Moves
  BY <1>13 DEF Revert, InFrame, Moves
<1>14. ASSUME SystemCall PROVE Moves
  BY <1>14 DEF SystemCall, Idle, Moves
<1>15. ASSUME BeginBody \/ EndBlock PROVE Moves
  BY <1>15 DEF BeginBody, EndBlock, Idle, Moves
<1> QED BY <1>4, <1>5, <1>6, <1>7, <1>8, <1>9, <1>10, <1>11, <1>12, <1>13, <1>14, <1>15 DEF Step

(* The index only grows, and what was reached lies before what the merge   *)
(* of the step may find.                                                   *)
LEMMA PacedOn ==
  ASSUME Paced, Moves, fork' = fork, fork \in DOMAIN Blocks
  PROVE  /\ Paced' /\ Index \in Nat /\ Index' \in Nat /\ MaxTx \in Nat /\ MaxTx' = MaxTx
         /\ Reached \in Nat /\ Reached <= Before(Index', MaxTx) /\ Before(Index', MaxTx) \in Nat
         /\ Reached' \in Nat /\ Before(Index', MaxTx) <= Reached' /\ Reached' <= Index'
<1>1. MaxTx \in Nat /\ MaxTx' = MaxTx
  BY BlockAssumption DEF MaxTx
<1>2. Index = CASE phase = "start" -> 0 [] phase = "body" -> tx [] OTHER -> MaxTx + 1
  BY DEF Index
<1>3. Index' = CASE phase' = "start" -> 0 [] phase' = "body" -> tx' [] OTHER -> MaxTx + 1
  BY <1>1 DEF Index
<1> DEFINE M == MaxTx
           i == Index
           j == Index'
<1> HIDE DEF M, i, j
<1>4. M \in Nat /\ MaxTx = M
  BY <1>1 DEF M
<1>5. Paced' /\ i \in Nat /\ j \in Nat
  BY <1>1, <1>2, <1>3 DEF Paced, Moves, i, j
<1>6. frames # <<>> => j = i
  BY <1>1, <1>2, <1>3 DEF Paced, Moves, i, j
<1>7. frames = <<>> => i <= Before(j, M)
  BY <1>1, <1>2, <1>3 DEF Paced, Moves, Before, i, j, M
<1>8. Before(j, M) \in Nat /\ Before(j, M) <= j
  BY <1>4, <1>5 DEF Before
<1>9. Reached = IF frames = <<>> THEN i ELSE Before(i, M)
  BY DEF Reached, i, M
<1>10. Reached' = IF frames' = <<>> THEN j ELSE Before(j, M)
  BY <1>1 DEF Reached, j, M
<1>11. Reached \in Nat /\ Reached <= Before(j, M)
  BY <1>5, <1>6, <1>7, <1>8, <1>9
<1>12. Reached' \in Nat /\ Before(j, M) <= Reached' /\ Reached' <= j
  BY <1>5, <1>8, <1>10
<1> QED BY <1>1, <1>5, <1>8, <1>11, <1>12 DEF i, j, M

(* A step merges under the index it ends at or leaves the changes alone.   *)
LEMMA ListStep ==
  ASSUME LedgerInv, ListInv, Implements, Tracks, Step
  PROVE  ListInv'
<1>1. fork' = fork /\ fork \in DOMAIN Blocks
  BY DEF Tracks, LedgerInv
<1>2. /\ Paced' /\ Index \in Nat /\ Index' \in Nat /\ MaxTx \in Nat /\ MaxTx' = MaxTx
      /\ Reached \in Nat /\ Reached <= Before(Index', MaxTx) /\ Before(Index', MaxTx) \in Nat
      /\ Reached' \in Nat /\ Before(Index', MaxTx) <= Reached' /\ Reached' <= Index'
  BY <1>1, StepMoves, PacedOn DEF ListInv
<1>3. ASSUME fork = "Amsterdam" PROVE Recorded(db', Reached', MaxTx)
  <2> DEFINE j == Index'
             r == Reached'
  <2> HIDE DEF j, r
  <2>1. Recorded(db, Reached, MaxTx)
    BY <1>3 DEF ListInv
  <2>2. CASE Grows(db, db')
    <3>1. Recorded(db', Reached, MaxTx)
      BY <2>1, <2>2, RecordedGrows
    <3>2. Reached <= r /\ r \in Nat
      BY <1>2 DEF r
    <3> QED BY <1>2, <3>1, <3>2, RecordedLater DEF r
  <2>3. CASE Merging(db, db', Index') /\ frames' = <<>>
    <3>1. PICK z : Grows(db, z) /\ Whole(z) /\ db' = k_tx_merge(z, j)
      BY <2>3 DEF Merging, j
    <3>2. Recorded(z, Reached, MaxTx)
      BY <2>1, <3>1, RecordedGrows
    <3>3. Recorded(z, Before(j, MaxTx), MaxTx)
      BY <1>2, <3>2, RecordedLater DEF j
    <3>4. Recorded(k_tx_merge(z, j), j, MaxTx)
      BY <1>1, <1>2, <1>3, <3>1, <3>3, RecordedMerged DEF j, Before
    <3>5. r = j
      BY <2>3 DEF Reached, r, j
    <3> QED BY <3>1, <3>4, <3>5 DEF r
  <2> QED BY <2>2, <2>3 DEF Implements, Lists
<1>4. fork' = "Amsterdam" => Recorded(db', Reached', MaxTx')
  BY <1>1, <1>2, <1>3
<1> QED BY <1>2, <1>4 DEF ListInv

(* A stuttering step changes nothing.                                      *)
LEMMA ListStutter ==
  ASSUME ListInv, UNCHANGED <<vars, world, saved>>
  PROVE  ListInv'
<1>1. db' = db /\ fork' = fork /\ frames' = frames /\ phase' = phase /\ tx' = tx
  BY DEF vars, control
<1>2. MaxTx' = MaxTx
  BY <1>1 DEF MaxTx
<1>3. Index' = Index
  BY <1>1, <1>2 DEF Index
<1>4. Reached' = Reached /\ Paced' = Paced
  BY <1>1, <1>2, <1>3 DEF Reached, Paced
<1> QED BY <1>1, <1>2, <1>4 DEF ListInv

(* The list of a new block is empty.                                       *)
LEMMA ListInit ==
  ASSUME ViewInit
  PROVE  ListInv
<1>1. fork \in DOMAIN Blocks /\ db = HostInit /\ frames = <<>> /\ phase = "start" /\ tx = 0
  BY DEF ViewInit, Init
<1>2. MaxTx \in Nat
  BY <1>1, BlockAssumption DEF MaxTx
<1>3. Paced
  BY <1>1, <1>2 DEF Paced
<1>4. Reached = 0
  BY <1>1 DEF Reached, Index
<1> QED BY <1>1, <1>3, <1>4, RecordedInit DEF ListInv

(* Between transactions the list, replayed to its end, gives the world.    *)
LEMMA ListShows ==
  ASSUME LedgerInv, ListInv, Idle, fork = "Amsterdam", NEW a \in Addr
  PROVE  /\ \A f \in Fields : Told(db.bal[f], <<a>>, Parent[a][f], world[a][f], MaxTx + 1, MaxTx)
         /\ \A s \in Slot : Told(db.bal.storage, <<a, s>>, Parent[a].storage[s],
                                 world[a].storage[s], MaxTx + 1, MaxTx)
<1>1. Overlaid(db) /\ Clean(db) /\ world = View(db) /\ fork \in DOMAIN Blocks /\ frames = <<>>
  BY IdleIs DEF Idle
<1>2. MaxTx \in Nat /\ Index \in Nat /\ Index <= MaxTx + 1 /\ MaxTx + 1 \in Nat
  <2>1. MaxTx \in Nat
    BY <1>1, BlockAssumption DEF MaxTx
  <2> HIDE DEF MaxTx
  <2> QED BY <2>1 DEF ListInv, Paced, Index
<1>3. Reached = Index
  BY <1>1 DEF Reached
<1>4. Recorded(db, Index, MaxTx)
  BY <1>3 DEF ListInv
<1>5. Recorded(db, MaxTx + 1, MaxTx)
  BY <1>2, <1>4, RecordedLater
<1>6. /\ world[a].nonce = Base(db, a).nonce /\ world[a].balance = Base(db, a).balance
      /\ world[a].code = Base(db, a).code /\ world[a].storage = SlotsBase(db, a)
  BY <1>1, CleanShows
<1>7. \A f \in Fields : world[a][f] = Base(db, a)[f]
  BY <1>6 DEF Fields
<1>8. \A s \in Slot : world[a].storage[s] = SlotBase(db, <<a, s>>)
  BY <1>6 DEF SlotsBase
<1> QED BY <1>5, <1>7, <1>8 DEF Recorded

(* Said of the list as the properties of WorldLedger say it.               *)
LEMMA ListDescribes ==
  ASSUME LedgerInv, ListInv, fork = "Amsterdam"
  PROVE  BalReplaysBlock /\ BalChangesAreChanges
<1>1. BalReplaysBlock
  BY ListShows DEF BalReplaysBlock, Told, Fields
<1>2. BalChangesAreChanges
  <2> SUFFICES ASSUME Idle, NEW i \in 1 .. MaxTx, NEW a \in Addr
               PROVE  /\ \A f \in {"balance", "nonce", "code"} :
                           <<a, i>> \in DOMAIN db.bal[f] =>
                             db.bal[f][<<a, i>>] # Latest(db.bal[f], <<a>>, i - 1, Parent[a][f])
                      /\ \A s \in Slot :
                           <<a, s, i>> \in DOMAIN db.bal.storage =>
                             db.bal.storage[<<a, s, i>>] #
                               Latest(db.bal.storage, <<a, s>>, i - 1, Parent[a].storage[s])
    BY DEF BalChangesAreChanges
  <2>1. \A f \in Fields : Noted(db.bal[f], <<a>>, i) =>
          db.bal[f][Append(<<a>>, i)] # Latest(db.bal[f], <<a>>, i - 1, Parent[a][f])
    BY ListShows DEF Told
  <2>2. \A s \in Slot : Noted(db.bal.storage, <<a, s>>, i) =>
          db.bal.storage[Append(<<a, s>>, i)] # Latest(db.bal.storage, <<a, s>>, i - 1, Parent[a].storage[s])
    BY ListShows DEF Told
  <2>3. Append(<<a>>, i) = <<a, i>> /\ \A s : Append(<<a, s>>, i) = <<a, s, i>>
    BY KeyIs
  <2>4. \A f \in Fields : <<a, i>> \in DOMAIN db.bal[f] =>
          db.bal[f][<<a, i>>] # Latest(db.bal[f], <<a>>, i - 1, Parent[a][f])
    BY <2>1, <2>3, Zenon DEF Noted
  <2>5. \A s \in Slot : <<a, s, i>> \in DOMAIN db.bal.storage =>
          db.bal.storage[<<a, s, i>>] # Latest(db.bal.storage, <<a, s>>, i - 1, Parent[a].storage[s])
    BY <2>2, <2>3, Zenon DEF Noted
  <2> QED BY <2>4, <2>5, Zenon DEF Fields
<1> QED BY <1>1, <1>2

-----------------------------------------------------------------------------
(* The invariant of the tables: between transactions the overlay of the    *)
(* transaction is empty and no scope is open; otherwise every frame has    *)
(* its scope, the journal leads back to a host in order at each of them,   *)
(* and no row of the overlays contradicts another.                         *)
THEOREM TablesStandForTheWorld == ViewSpec => []LedgerInv
<1>1. ViewInit => LedgerInv
  BY LedgerInit
<1>2. LedgerInv /\ [ViewNext]_<<vars, world, saved>> => LedgerInv'
  BY NextIs, LedgerStep, LedgerStutter DEF Implements
<1> QED BY <1>1, <1>2, PTL DEF ViewSpec

(* Refinement: the overlays, the generations and the journal are a map of  *)
(* accounts with a stack of snapshots. A frame that fails leaves the world *)
(* it was entered with, a created account starts without storage, an       *)
(* emptied or destroyed one is gone.                                       *)
THEOREM LedgerIsImplemented == ViewSpec => ImplementsLedger
<1>1. ViewInit => AsLedger!Init
  BY LedgerInit
<1>2. LedgerInv /\ [ViewNext]_<<vars, world, saved>> => [AsLedger!Next]_(AsLedger!vars)
  BY NextIs, LedgerStep, LedgerStutter DEF Implements
<1>3. ViewSpec => []LedgerInv
  BY TablesStandForTheWorld
<1> QED BY <1>1, <1>2, <1>3, PTL DEF ViewSpec, ImplementsLedger, AsLedger!Spec

(* compute_state_root sees the world: between transactions and at the end  *)
(* of the block its leaves are those of the accounts and slots the kernel  *)
(* would load.                                                             *)
THEOREM RootSeesTheWorld == ViewSpec => []StateRootSeesWorld
<1>1. LedgerInv => StateRootSeesWorld
  <2> SUFFICES ASSUME LedgerInv, Idle, NEW a \in Addr
               PROVE  compute_state_root(db)[a] =
                        IF account_info_empty(world[a]) THEN NoLeaf ELSE Leaf(world[a], world[a].storage)
    BY DEF StateRootSeesWorld
  <2>1. Overlaid(db) /\ Clean(db) /\ world = View(db)
    BY IdleIs DEF Idle
  <2> QED BY <2>1, CleanRoot
<1> QED BY <1>1, TablesStandForTheWorld, PTL

(* No account or slot leaves the access list: the account of every frame   *)
(* is listed when it is entered, and every slot an SLOAD or SSTORE         *)
(* reaches, though a revert removes the rows through which it was reached. *)
THEOREM AccessesAreListed == ViewSpec => AccessesStayListed
<1>1. LedgerInv /\ [ViewNext]_<<vars, world, saved>> =>
        [/\ db.bal.accounts \subseteq db'.bal.accounts
         /\ db.bal.reads \subseteq db'.bal.reads
         /\ \A n \in 1 .. Len(frames') : frames'[n].addr \in db'.bal.accounts
         /\ \A s \in Slot : (Sload(s) \/ \E v \in Word : Sstore(s, v)) => <<Self, s>> \in db'.bal.reads
        ]_vars
  <2>1. ASSUME LedgerInv, ViewNext
        PROVE  /\ db.bal.accounts \subseteq db'.bal.accounts
               /\ db.bal.reads \subseteq db'.bal.reads
               /\ \A n \in 1 .. Len(frames') : frames'[n].addr \in db'.bal.accounts
               /\ \A s \in Slot : (Sload(s) \/ \E v \in Word : Sstore(s, v)) => <<Self, s>> \in db'.bal.reads
    <3>1. Tracks /\ Step /\ Next
      BY <2>1, NextIs
    <3>2. Implements
      BY <2>1, <3>1, LedgerStep
    <3> QED BY <2>1, <3>1, <3>2, StepLists
  <2> QED BY <2>1
<1> QED BY <1>1, TablesStandForTheWorld, PTL DEF ViewSpec, AccessesStayListed

(* The block-level access list of EIP-7928 replays: between transactions   *)
(* the changes that k_tx_merge recorded under the index of each            *)
(* transaction and system call, applied to the parent state, give every    *)
(* account and slot the block holds, and no change that a transaction      *)
(* records repeats the value that was there before it.                     *)
THEOREM AccessListReplays ==
  ViewSpec => [](fork = "Amsterdam" => BalReplaysBlock /\ BalChangesAreChanges)
<1>1. ViewInit => ListInv
  BY ListInit
<1>2. LedgerInv /\ ListInv /\ [ViewNext]_<<vars, world, saved>> => ListInv'
  BY NextIs, LedgerStep, ListStep, ListStutter
<1>3. LedgerInv /\ ListInv => (fork = "Amsterdam" => BalReplaysBlock /\ BalChangesAreChanges)
  BY ListDescribes
<1> QED BY <1>1, <1>2, <1>3, TablesStandForTheWorld, PTL DEF ViewSpec
=============================================================================
