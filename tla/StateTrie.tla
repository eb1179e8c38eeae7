----------------------------- MODULE StateTrie ------------------------------
(***************************************************************************)
(* A chain of blocks over one trie: every block gets a witness, reads      *)
(* values of the parent state through it and computes the new root from    *)
(* its sorted updates (compute_state_root of lib/state_trie).  The witness *)
(* is complete or lacks one node.                                          *)
(***************************************************************************)
EXTENDS MerkleTrie

CONSTANTS
    Keys,        \* secure keys, PathLimit nibbles long
    Values,      \* records with kind "value" and a size
    MaxEntries,  \* bound on the entries of the trie
    MaxUpdates   \* bound on the keys one block writes

ASSUME StateTrieAssumption ==
    /\ Keys \subseteq [1 .. PathLimit -> Nibbles]
    /\ \A v \in Values : v.kind = "value" /\ v.size \in Nat

VARIABLES
    content,   \* the state the trie stands for: a function on some of Keys
    base,      \* its root, as the blocks computed it
    outcome    \* what the current block did

trie == <<content, base, outcome>>

----------------------------------------------------------------------------
(* The trie the root has to be the root of, by the rules of the Merkle     *)
(* Patricia trie: no empty node, no chain of one, longest extensions.      *)

Below(m, prefix) == {k \in DOMAIN m : IsPrefix(prefix, k)}

SharedLength(ks) ==
    Max({n \in 0 .. PathLimit : \A j, k \in ks :
           /\ n <= Len(j) /\ n <= Len(k)
           /\ SubSeq(j, 1, n) = SubSeq(k, 1, n)})

RECURSIVE Canonical(_, _)
Canonical(m, prefix) ==
    LET ks     == Below(m, prefix)
        one    == CHOOSE k \in ks : TRUE
        shared == SharedLength(ks)
        branch == SubSeq(one, 1, shared)
        below  == child_ref([refs |-> [n \in Nibbles |-> Canonical(m, Append(branch, n))]])
    IN  IF ks = {} THEN EmptyRef
        ELSE IF Cardinality(ks) = 1 THEN leaf_child_ref(path_drop(one, Len(prefix)), m[one])
        ELSE IF shared = Len(prefix) THEN below
        ELSE extension_child_ref(path_drop(branch, Len(prefix)), below)

CanonicalRoot(m) == trie_ref_to_root(Canonical(m, <<>>))

(* Every node behind a hash, with the prefix it stands at. *)
RECURSIVE HashedAt(_, _)
HashedAt(ref, prefix) ==
    LET decoded == decode_trie_node(ref.node)
        below   == CASE decoded.kind = "leaf" -> {}
                     [] decoded.kind = "extension" ->
                          HashedAt(decoded.ref, prefix \o decoded.path)
                     [] OTHER -> UNION {HashedAt(decoded.refs[n], Append(prefix, n)) : n \in Nibbles}
    IN  CASE ref.kind = "empty"  -> {}
          [] ref.kind = "inline" -> below
          [] OTHER -> {[ref |-> ref, at |-> prefix]} \cup below

Hashed(root) == {h.ref : h \in HashedAt(root, <<>>)}

----------------------------------------------------------------------------
Changes == {[put |-> TRUE, value |-> v] : v \in Values} \cup {[put |-> FALSE]}

Lower(j, k) == \E n \in 0 .. PathLimit - 1 :
    SubSeq(j, 1, n) = SubSeq(k, 1, n) /\ j[n + 1] < k[n + 1]

(* The host iterates the changed entries by ascending hashed key. *)
Sorted(updates) ==
    [i \in 1 .. Cardinality(DOMAIN updates) |->
       LET k == SetToSortSeq(DOMAIN updates, Lower)[i] IN [key |-> k] @@ updates[k]]

After(m, updates) ==
    LET dropped == {k \in DOMAIN updates : ~updates[k].put}
    IN  [k \in (DOMAIN m \cup DOMAIN updates) \ dropped |->
           IF k \in DOMAIN updates THEN updates[k].value ELSE m[k]]

StateTrieInit == node_db = {} /\ content = <<>> /\ base = EmptyRef /\ outcome = [kind |-> "parent"]

(* nodedb_reset and one insert per witness node. *)
LoadWitness ==
    /\ outcome.kind = "parent"
    /\ \E lost \in SUBSET Hashed(base) :
         /\ Cardinality(lost) <= 1
         /\ node_db' = Hashed(base) \ lost
    /\ outcome' = [kind |-> "loaded"]
    /\ UNCHANGED <<content, base>>

(* stateless_account_by_key and stateless_storage_by_key. *)
ReadKey(k) ==
    /\ outcome.kind = "loaded"
    /\ outcome' = [kind |-> "read", key |-> k, value |-> trie_lookup(base, k)]
    /\ UNCHANGED <<node_db, content, base>>

(* compute_state_root; a delete of an absent key happens when an account is *)
(* touched and left empty.                                                  *)
compute_state_root(updates) ==
    /\ outcome.kind = "loaded"
    /\ outcome' = [kind |-> "root", updates |-> updates, root |-> trie_root(base, Sorted(updates))]
    /\ UNCHANGED <<node_db, content, base>>

NextBlock ==
    /\ outcome.kind = "root"
    /\ outcome.root # FatalRef
    /\ base' = outcome.root
    /\ content' = After(content, outcome.updates)
    /\ Cardinality(DOMAIN content') <= MaxEntries
    /\ node_db' = {}
    /\ outcome' = [kind |-> "parent"]

Updates == UNION {[ks -> Changes] : ks \in {s \in SUBSET Keys : Cardinality(s) <= MaxUpdates}}

StateTrieNext == \/ LoadWitness
                 \/ \E k \in Keys : ReadKey(k)
                 \/ \E updates \in Updates : compute_state_root(updates)
                 \/ NextBlock

----------------------------------------------------------------------------
(* The root a block computes by touching only the nodes its updates need   *)
(* (updates_subtree, the overlays, the collapse of a branch left with one  *)
(* child, inlining) is the root of the updated state built from nothing,   *)
(* after any chain of earlier blocks; a deficient witness may stop the     *)
(* block and never gives another root.                                     *)
CanonicalOrFatal ==
    outcome.kind = "root" =>
        \/ outcome.root = FatalRef
        \/ outcome.root = CanonicalRoot(After(content, outcome.updates))

(* The nodes an update pass reads: those above an updated key, and the     *)
(* child a touched branch is left with, which is merged into its parent.   *)
Touched(updates, prefix) == \E k \in DOMAIN updates : IsPrefix(prefix, k)

LeftAlone(h, updates) ==
    LET parent == Front(h.at)
        left   == Below(After(content, updates), parent)
    IN  /\ h.at # <<>>
        /\ \E k \in Below(content, parent) : ~IsPrefix(h.at, k)
        /\ Touched(updates, parent)
        /\ left # {}
        /\ \A k \in left : IsPrefix(h.at, k)

Needed(updates) ==
    {h.ref : h \in {g \in HashedAt(base, <<>>) : Touched(updates, g.at) \/ LeftAlone(g, updates)}}

(* The witness is deficient exactly when it lacks a node the block needs:  *)
(* a node on the path of a written key, or the last sibling of deleted     *)
(* ones.  Less would be a wrong root, more would reject sound witnesses.   *)
FatalIffDeficient ==
    outcome.kind = "root" =>
        (outcome.root = FatalRef <=> ~(Needed(outcome.updates) \subseteq node_db))

(* A read through the witness returns what the state holds at the key,     *)
(* proves absence the same way, and fails only for want of a node above    *)
(* the key.                                                                *)
ReadsAreTheState ==
    outcome.kind = "read" =>
        \/ outcome.value = (IF outcome.key \in DOMAIN content THEN content[outcome.key] ELSE EmptyRef)
        \/ /\ outcome.value = FatalRef
           /\ \E h \in HashedAt(base, <<>>) : h.ref \notin node_db /\ IsPrefix(h.at, outcome.key)

(* A block over any witness reads the state it stands on, computes the     *)
(* root of the state it leaves, and is stopped exactly when the witness    *)
(* lacks a node it needs (trie_root, trie_lookup).                         *)
RootIsCanonical == CanonicalOrFatal /\ FatalIffDeficient /\ ReadsAreTheState
=============================================================================
