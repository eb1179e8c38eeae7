---------------------------- MODULE WorldLedger ----------------------------
(***************************************************************************)
(* The world the tables of WorldState stand for, and what must hold of it: *)
(* the tables implement Ledger, the block overlay holds every change the   *)
(* state root has to see, and the access list describes the block.         *)
(***************************************************************************)
EXTENDS WorldState

(* Reading every account and slot of a host, without the caching. *)
View(d) ==
  [a \in Addr |->
     LET acc == Loaded(d, a)
     IN [nonce |-> acc.nonce, balance |-> acc.balance, code |-> acc.code,
         created |-> acc.created, doomed |-> acc.selfdestructed,
         storage |-> [s \in Slot |-> SlotValue(d, <<a, s>>).curr],
         orig |-> [s \in Slot |-> SlotValue(d, <<a, s>>).orig]]]

(* The checkpoints that no commit has closed, after each entry, and the    *)
(* world at each: what undoing the journal down to it leaves.              *)
OpenAfter(j) ==
  LET open[n \in 0 .. Len(j)] ==
        IF n = 0 THEN <<>>
        ELSE CASE j[n].tag = "Checkpointed" -> Append(open[n - 1], n)
               [] j[n].tag = "Committed" -> Pop(open[n - 1])
               [] OTHER -> open[n - 1]
  IN open
OpenScopes(j) == OpenAfter(j)[Len(j)]
SavedViews(d) ==
  LET scopes == OpenScopes(d.journal)
  IN [n \in 1 .. Len(scopes) |-> View(UndoTo(d, scopes[n]))]

VARIABLES world, saved  \* View(db) and SavedViews(db), kept so that they are computed once

ViewInit == Init /\ world = View(db) /\ saved = SavedViews(db)
ViewNext == Next /\ world' = View(db') /\ saved' = SavedViews(db')
ViewSpec == ViewInit /\ [][ViewNext]_<<vars, world, saved>>

(* The overlays, the generations and the journal are a map of accounts     *)
(* with a stack of snapshots: a frame that fails leaves exactly the world  *)
(* it was entered with, a created account starts without storage, an       *)
(* emptied or destroyed one is gone, and SSTORE always prices against the  *)
(* storage at the beginning of the transaction.                            *)
AsLedger == INSTANCE Ledger
ImplementsLedger == AsLedger!Spec

----------------------------------------------------------------------------
(* compute_state_root walks the rows of the block overlay and applies the  *)
(* changed ones to the parent trie.                                        *)

StorageChanged(d, a) ==
  \E k \in DOMAIN d.storage_block : k[1] = a /\ d.storage_block[k].curr # d.storage_block[k].orig

StorageRoot(d, a) ==
  LET curr == acct_block_get(d, a)
      base == IF curr.storage_cleared THEN [s \in Slot |-> 0] ELSE Parent[a].storage
      update(s) == LET k == <<a, s>>
                   IN IF k \in DOMAIN d.storage_block /\ d.storage_block[k].curr # d.storage_block[k].orig
                      THEN d.storage_block[k].curr ELSE base[s]
  IN IF curr.present /\ ~account_info_empty(curr) /\ StorageChanged(d, a)
     THEN [s \in Slot |-> update(s)] ELSE base

NoLeaf == [leaf |-> FALSE]
Leaf(acc, root) == [leaf |-> TRUE, nonce |-> acc.nonce, balance |-> acc.balance, code |-> acc.code, storage |-> root]
ParentLeaf(a) == IF Parent[a].present THEN Leaf(Parent[a], Parent[a].storage) ELSE NoLeaf

(* Mutant: accounts whose own fields are unchanged are skipped. *)
MutAccountTrieUpdate(d, a) ==
  LET row == d.account_block[a]
  IN IF ~account_changed(row.curr, row.orig) THEN ParentLeaf(a)
     ELSE IF ~row.curr.present \/ account_info_empty(row.curr) THEN NoLeaf
     ELSE Leaf(row.curr, StorageRoot(d, a))

account_trie_update(d, a) ==
  LET row == d.account_block[a]
  IN IF ~account_changed(row.curr, row.orig) /\ ~StorageChanged(d, a) THEN ParentLeaf(a)
     ELSE IF ~row.curr.present \/ account_info_empty(row.curr) THEN NoLeaf
     ELSE Leaf(row.curr, StorageRoot(d, a))

compute_state_root(d) ==
  [a \in Addr |-> IF acct_block_found(d, a) THEN account_trie_update(d, a) ELSE ParentLeaf(a)]

(* Between transactions and at the end of the block the leaves the state   *)
(* root is computed from are those of the world: no change of an earlier   *)
(* transaction is lost because a later one undid, cleared, deleted or      *)
(* recreated around it, and an account never carries slots of a former     *)
(* life into the root.                                                     *)
StateRootSeesWorld ==
  Idle => \A a \in Addr :
    LET acc == world[a]
    IN compute_state_root(db)[a] =
         IF account_info_empty(acc) THEN NoLeaf ELSE Leaf(acc, acc.storage)

----------------------------------------------------------------------------
(* The access list. *)

(* Replaying the recorded changes: the value a field of the parent state   *)
(* has after the changes with an index up to i.                            *)
Latest(table, key, i, base) ==
  LET at == {n \in 0 .. i : Append(key, n) \in DOMAIN table}
  IN IF at = {} THEN base ELSE table[Append(key, Max(at))]

(* Whoever replays the recorded changes of the indices so far on the       *)
(* parent state gets the world the block has reached: k_tx_merge records   *)
(* everything it merges, under the right index, and nothing that a failed  *)
(* frame wrote or that an account did not live to keep.                    *)
BalReplaysBlock ==
  Idle => \A a \in Addr :
    /\ \A f \in {"balance", "nonce", "code"} :
         Latest(db.bal[f], <<a>>, MaxTx + 1, Parent[a][f]) = world[a][f]
    /\ \A s \in Slot :
         Latest(db.bal.storage, <<a, s>>, MaxTx + 1, Parent[a].storage[s]) = world[a].storage[s]

(* What a transaction is recorded to have changed, it changed: a value     *)
(* that was written and put back within one transaction is not listed.     *)
BalChangesAreChanges ==
  Idle => \A i \in 1 .. MaxTx : \A a \in Addr :
    /\ \A f \in {"balance", "nonce", "code"} :
         <<a, i>> \in DOMAIN db.bal[f] =>
           db.bal[f][<<a, i>>] # Latest(db.bal[f], <<a>>, i - 1, Parent[a][f])
    /\ \A s \in Slot :
         <<a, s, i>> \in DOMAIN db.bal.storage =>
           db.bal.storage[<<a, s, i>>] # Latest(db.bal.storage, <<a, s>>, i - 1, Parent[a].storage[s])

(* An account or slot that a frame reached stays in the list, even when    *)
(* the frame, or one around it, reverts: k_sload and k_aload skip the      *)
(* recorder for rows of the transaction overlay, and a revert removes such *)
(* rows, but never the record of what was accessed.                        *)
AccessesStayListed ==
  [][/\ db.bal.accounts \subseteq db'.bal.accounts
     /\ db.bal.reads \subseteq db'.bal.reads
     /\ \A n \in 1 .. Len(frames') : frames'[n].addr \in db'.bal.accounts
     /\ \A s \in Slot : (Sload(s) \/ \E v \in Word : Sstore(s, v)) => <<Self, s>> \in db'.bal.reads
    ]_vars

(* Lists one edit away from the reconstructed one: an entry, a change or a *)
(* read dropped, repeated, added, changed or moved, the changes of a slot  *)
(* divided between two entries of it, or an entry of a slot without any.   *)
Edits(list) ==
  LET at(n, field, value) == [list EXCEPT ![n] = [@ EXCEPT ![field] = value]]
      N == 1 .. Len(list)
      entries(n) == 1 .. Len(list[n].storage)
      fields == {"storage", "reads", "balance", "nonce", "code"}
      filled(n, among) == {f \in among : list[n][f] # <<>>}
      divided(n, m, p) ==
        LET c == list[n].storage[m]
        IN SubSeq(list[n].storage, 1, m - 1)
             \o <<[c EXCEPT !.changes = SubSeq(c.changes, 1, p)],
                  [c EXCEPT !.changes = SubSeq(c.changes, p + 1, Len(c.changes))]>>
             \o SubSeq(list[n].storage, m + 1, Len(list[n].storage))
      empty(s) == [slot |-> s, changes |-> <<>>]
  IN UNION {
       {RemoveAt(list, n) : n \in N},
       {InsertAt(list, n, list[n]) : n \in N},
       {[m \in N |-> list[IF m = n THEN n + 1 ELSE IF m = n + 1 THEN n ELSE m]] : n \in 1 .. Len(list) - 1},
       {at(n, "reads", Append(list[n].reads, s)) : n \in N, s \in Slot},
       {at(n, "storage", Append(list[n].storage, empty(s))) : n \in N, s \in Slot},
       UNION {{at(n, f, Tail(list[n][f])) : f \in filled(n, fields)} : n \in N},
       UNION {{at(n, f, <<list[n][f][1]>> \o list[n][f]) : f \in filled(n, fields)} : n \in N},
       UNION {{at(n, f, [list[n][f] EXCEPT ![1].index = @ + 1])
                 : f \in filled(n, {"balance", "nonce", "code"})} : n \in N},
       UNION {{at(n, f, [list[n][f] EXCEPT ![1].value = @ + 1]) : f \in filled(n, {"balance", "nonce"})} : n \in N},
       UNION {{at(n, "storage", [list[n].storage EXCEPT ![m].slot = @ + 1]) : m \in entries(n)} : n \in N},
       UNION {{at(n, "storage", [list[n].storage EXCEPT ![m].changes[1].value = @ + 1]) : m \in entries(n)} : n \in N},
       UNION {UNION {{at(n, "storage", divided(n, m, p)) : p \in 1 .. Len(list[n].storage[m].changes) - 1}
                     : m \in entries(n)} : n \in N}}

(* A list with neighbouring entries of one slot taken together.            *)
Joined(list) ==
  LET add(done, e) ==
        IF done # <<>> /\ Last(done).slot = e.slot
          THEN Append(Front(done), [e EXCEPT !.changes = Last(done).changes \o @])
          ELSE Append(done, e)
  IN [n \in DOMAIN list |-> [list[n] EXCEPT !.storage = FoldLeft(add, <<>>, @)]]
EveryEntryChanges(list) ==
  \A n \in DOMAIN list : \A m \in DOMAIN list[n].storage : list[n].storage[m].changes # <<>>

GasEnough == 1000

(* The walk compares the changes of a list and not its bytes: it accepts   *)
(* the list the host would write, and among those an edit away exactly the *)
(* ones that divide the changes of one slot between two entries of it      *)
(* (bal_validate_storage_changes starts every entry afresh). Whatever      *)
(* lacks, repeats, adds, changes or moves something is refused.            *)
WalkDecidesTheList ==
  phase = "done" =>
    \A list \in {Reconstructed(db.bal)} : \A events \in {bal_prepare_iter(db.bal)} :
      /\ validate_block_access_list(db.bal, list, GasEnough) = "accepted"
      /\ \A e \in Edits(list) :
           WalkVerdict(events, e, GasEnough) = "accepted" <=> Joined(e) = list /\ EveryEntryChanges(e)

(* From Amsterdam on the list the block is checked against describes the   *)
(* block: replayed on the parent state it gives the world reached, it      *)
(* lists no change that was none, and the walk over the payload's list     *)
(* accepts it and no list an edit away, but for one that divides the       *)
(* changes of a slot between two entries (k_tx_merge, the recorder,        *)
(* bal_prepare_iter and validate_block_access_list together).              *)
AccessListDescribesBlock ==
  fork = "Amsterdam" => /\ BalReplaysBlock
                        /\ BalChangesAreChanges
                        /\ WalkDecidesTheList
=============================================================================
