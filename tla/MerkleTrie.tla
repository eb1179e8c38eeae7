----------------------------- MODULE MerkleTrie -----------------------------
(***************************************************************************)
(* The Merkle Patricia trie of lib/mpt: paths and their hex-prefix         *)
(* encoding, node references, the sparse rebuild of a root from a witness  *)
(* and a sorted stream of updates, and lookups.                            *)
(*                                                                         *)
(* Keccak is an injective wrapper: a hash reference holds the node it      *)
(* names, and that node is readable only if node_db has the reference.     *)
(* Slices of the input and of scratch memory are one kind of value.  A     *)
(* fatal_error is a value that every operator hands on.                    *)
(***************************************************************************)
EXTENDS Integers, Sequences, FiniteSets, FiniteSetsExt, SequencesExt

CONSTANTS
    Nibbles,         \* 0 .. 15, or fewer
    PathLimit,       \* length of a secure key in nibbles: 64
    MPT_HASH_LENGTH  \* encodings shorter than this are inlined: 32

ASSUME TrieAssumption ==
    /\ Nibbles = 0 .. Max(Nibbles)
    /\ PathLimit \in Nat \ {0}
    /\ MPT_HASH_LENGTH \in Nat \ {0}

VARIABLE node_db     \* the hash references whose nodes the witness holds

----------------------------------------------------------------------------
(* Paths are sequences of nibbles. *)

path_drop(path, n) == SubSeq(path, n + 1, Len(path))

path_matches(key, pos, seg) ==
    /\ pos + Len(seg) <= Len(key)
    /\ SubSeq(key, pos + 1, pos + Len(seg)) = seg

path_prefix_of(prefix, path) == path_matches(path, 0, prefix)

common_prefix_length(a, b) ==
    Max({n \in 0 .. Min({Len(a), Len(b)}) : SubSeq(a, 1, n) = SubSeq(b, 1, n)})

(* A byte is a pair of nibbles; the first one carries the two flags. *)
hex_prefix_first_byte(path, is_leaf) ==
    <<(IF is_leaf THEN 2 ELSE 0) + (Len(path) % 2),
      IF Len(path) % 2 = 1 THEN path[1] ELSE 0>>

hex_prefix_encode(path, is_leaf) ==
    LET odd == Len(path) % 2
    IN  <<hex_prefix_first_byte(path, is_leaf)>>
        \o [i \in 1 .. (Len(path) \div 2) |->
              <<path[odd + 2 * i - 1], path[odd + 2 * i]>>]

hex_prefix_decode(bytes) ==
    IF bytes = <<>> THEN [is_leaf |-> FALSE, path |-> <<>>]
    ELSE LET flag == bytes[1][1]
             head == IF flag % 2 = 1 THEN <<bytes[1][2]>> ELSE <<>>
         IN  [is_leaf |-> (flag \div 2) % 2 = 1,
              path    |-> head \o FlattenSeq(Tail(bytes))]

----------------------------------------------------------------------------
(* References and encodings.  A value knows the size of its RLP string. *)

EmptyRef == [kind |-> "empty"]
FatalRef == [kind |-> "fatal"]

IsBranch(node) == "refs" \in DOMAIN node

rlp_hex_prefix_size(hp) == IF Len(hp) = 1 THEN 1 ELSE Len(hp) + 1

RECURSIVE encoded_size(_)
node_ref_size(r) == CASE r.kind = "empty"  -> 1
                      [] r.kind = "value"  -> r.size
                      [] r.kind = "inline" -> encoded_size(r.node)
                      [] r.kind = "hash"   -> MPT_HASH_LENGTH + 1

(* A branch has one empty string per absent child and one for its value. *)
encoded_size(node) ==
    1 + (IF IsBranch(node)
         THEN 1 + MapThenSumSet(LAMBDA n : node_ref_size(node.refs[n]), Nibbles)
         ELSE rlp_hex_prefix_size(node.hp) + node_ref_size(node.item))

HashRef(node) == [kind |-> "hash", node |-> node]

child_ref(node) ==
    IF encoded_size(node) < MPT_HASH_LENGTH
    THEN [kind |-> "inline", node |-> node] ELSE HashRef(node)

leaf_child_ref(key, value) ==
    child_ref([hp |-> hex_prefix_encode(key, TRUE), item |-> value])

extension_child_ref(key, ref) ==
    IF ref = FatalRef THEN FatalRef
    ELSE child_ref([hp |-> hex_prefix_encode(key, FALSE), item |-> ref])

branch_child_ref(refs) ==
    IF \E n \in Nibbles : refs[n] = FatalRef THEN FatalRef
    ELSE child_ref([refs |-> refs])

(* The root is a hash whatever the size of the root node. *)
trie_ref_to_root(r) == IF r.kind = "inline" THEN HashRef(r.node) ELSE r

decode_trie_node(node) ==
    IF IsBranch(node) THEN [kind |-> "branch", refs |-> node.refs]
    ELSE LET hp == hex_prefix_decode(node.hp)
         IN  IF hp.is_leaf THEN [kind |-> "leaf", path |-> hp.path, value |-> node.item]
             ELSE IF hp.path = <<>> THEN FatalRef
             ELSE [kind |-> "extension", path |-> hp.path, ref |-> node.item]

node_db_lookup(h) == h \in node_db

(* TRUE when the node behind a reference can be read. *)
resolves(r) == r.kind = "inline" \/ (r.kind = "hash" /\ node_db_lookup(r))

merge_ext_node(prefix, node) ==
    LET decoded == decode_trie_node(node)
    IN  CASE decoded.kind = "leaf"      -> leaf_child_ref(prefix \o decoded.path, decoded.value)
          [] decoded.kind = "extension" -> extension_child_ref(prefix \o decoded.path, decoded.ref)
          [] decoded.kind = "fatal"     -> FatalRef
          [] OTHER                      -> extension_child_ref(prefix, child_ref(node))

merge_ext_ref(prefix, ref) ==
    CASE ref.kind = "hash"   -> extension_child_ref(prefix, ref)
      [] ref.kind = "inline" -> merge_ext_node(prefix, ref.node)
      [] OTHER               -> ref

----------------------------------------------------------------------------
(* The update cursor: what is left of the sorted stream, and how its head  *)
(* relates to the prefix the walk stands at.                               *)

Exhausted == [rest |-> <<>>, relation |-> [kind |-> "exhausted"]]

Under(rest, postfix) == [rest |-> rest, relation |-> [kind |-> "under", postfix |-> postfix]]

trie_updates_begin(source) ==
    IF source = <<>> THEN Exhausted ELSE Under(source, source[1].key)

updates_empty(updates) == updates.relation.kind = "exhausted"

trie_updates_pop(updates) ==
    LET rest == Tail(updates.rest)
    IN  IF rest = <<>> THEN Exhausted
        ELSE [rest     |-> rest,
              relation |-> [kind   |-> "beyond",
                            common |-> common_prefix_length(updates.rest[1].key, rest[1].key)]]

trie_updates_rebase(updates, prefix) ==
    IF updates.relation.kind = "beyond" /\ Len(prefix) <= updates.relation.common
    THEN Under(updates.rest, path_drop(updates.rest[1].key, Len(prefix)))
    ELSE updates

update_under_current_prefix(updates) == updates.relation.kind = "under"

(* Asked only of an update below the prefix, as the code asserts. *)
update_child_nibble(updates) == Head(updates.relation.postfix)

trie_updates_descend(updates) == Under(updates.rest, Tail(updates.relation.postfix))

----------------------------------------------------------------------------
(* Items: a rebuilt subtree, by its full path. *)

EmptySubtree == [kind |-> "empty"]
FatalItem == [kind |-> "fatal"]
trie_leaf(path, value) == [kind |-> "leaf", path |-> path, value |-> value]
trie_branch(path, ref) == [kind |-> "branch", path |-> path, ref |-> ref]
trie_subtree(path, ref) == [kind |-> "subtree", path |-> path, ref |-> ref]

MutChildRef(it, depth) ==
    CASE it.kind = "empty"   -> EmptyRef
      [] it.kind = "fatal"   -> FatalRef
      [] it.kind = "leaf"    -> leaf_child_ref(path_drop(it.path, depth), it.value)
      [] OTHER -> IF Len(it.path) <= depth THEN it.ref
                  ELSE merge_ext_ref(path_drop(it.path, depth), it.ref)

trie_child_ref(it, depth) ==
    LET suffix == path_drop(it.path, depth)
    IN  CASE it.kind = "empty"  -> EmptyRef
          [] it.kind = "fatal"  -> FatalRef
          [] it.kind = "leaf"   -> leaf_child_ref(suffix, it.value)
          [] OTHER ->
               IF suffix = <<>> THEN it.ref
               ELSE IF it.kind = "branch" \/ it.ref.kind # "hash" THEN merge_ext_ref(suffix, it.ref)
               ELSE IF node_db_lookup(it.ref) THEN merge_ext_node(suffix, it.ref.node)
               ELSE FatalRef

trie_children_empty == [refs |-> [n \in Nibbles |-> EmptyRef], only |-> EmptySubtree]

trie_children_add(children, prefix, index, child) ==
    IF child.kind = "empty" THEN children
    ELSE [refs |-> [children.refs EXCEPT ![index] =
                      IF /\ @ = EmptyRef
                         /\ child.kind # "fatal"
                         /\ path_prefix_of(Append(prefix, index), child.path)
                      THEN trie_child_ref(child, Len(prefix) + 1) ELSE FatalRef],
          only |-> child]

trie_children_finish(prefix, children) ==
    LET present == {n \in Nibbles : children.refs[n] # EmptyRef}
    IN  IF \E n \in present : children.refs[n] = FatalRef THEN FatalItem
        ELSE CASE Cardinality(present) = 0 -> EmptySubtree
               [] Cardinality(present) = 1 -> children.only
               [] OTHER -> trie_branch(prefix, branch_child_ref(children.refs))

trie_subtree_root(subtree) ==
    IF subtree.kind = "empty" THEN EmptyRef ELSE trie_ref_to_root(trie_child_ref(subtree, 0))

----------------------------------------------------------------------------
(* The rebuild.  Each operator returns an item and the rest of the stream. *)

Built(item, rest) == [item |-> item, rest |-> rest]
Fatal == Built(FatalItem, Exhausted)

RECURSIVE witness_subtree(_, _, _), overlay_subtree(_, _, _),
          overlay_children(_, _, _, _), branch_children(_, _, _, _, _)

(* The update at a full key, over the leaf that has that key, if one has. *)
at_full_key(base, updates, prefix) ==
    IF ~update_under_current_prefix(updates) THEN Built(base, updates)
    ELSE IF updates.relation.postfix # <<>> \/ updates.rest[1].key # prefix THEN Fatal
    ELSE Built(IF updates.rest[1].put THEN trie_leaf(prefix, updates.rest[1].value)
               ELSE EmptySubtree, trie_updates_pop(updates))

(* updates_subtree, overlay_leaf_subtree and overlay_extension_subtree:     *)
(* base is the empty item, a leaf or the branch below an extension.         *)
overlay_subtree(base, updates, prefix) ==
    IF base.kind = "empty" /\ ~update_under_current_prefix(updates)
    THEN Built(EmptySubtree, updates)
    ELSE IF base.kind # "empty" /\ ~path_prefix_of(prefix, base.path) THEN Fatal
    ELSE IF base.kind = "branch" /\ base.path = prefix
    THEN IF ~update_under_current_prefix(updates) THEN Built(base, updates)
         ELSE IF resolves(base.ref) THEN witness_subtree(base.ref.node, prefix, updates)
         ELSE Fatal
    ELSE IF Len(prefix) = PathLimit THEN at_full_key(base, updates, prefix)
    ELSE overlay_children(trie_children_empty, base, updates, prefix)

(* One child range at a time: the next update's, or the base item if its    *)
(* nibble comes first; the base item joins the updates that share it.       *)
overlay_children(children, base, updates, prefix) ==
    LET pending  == base.kind # "empty"
        under    == update_under_current_prefix(updates)
        own      == base.path[Len(prefix) + 1]
        nib      == update_child_nibble(updates)
        consumes == pending /\ own = nib
        sub      == overlay_subtree(IF consumes THEN base ELSE EmptySubtree,
                                    trie_updates_descend(updates), Append(prefix, nib))
        rebased  == trie_updates_rebase(sub.rest, prefix)
    IN  CASE ~pending /\ ~under -> Built(trie_children_finish(prefix, children), updates)
          [] pending /\ (~under \/ own < nib) ->
               overlay_children(trie_children_add(children, prefix, own, base),
                                EmptySubtree, updates, prefix)
          [] OTHER ->
               IF update_under_current_prefix(rebased) /\ update_child_nibble(rebased) <= nib
               THEN Fatal
               ELSE overlay_children(trie_children_add(children, prefix, nib, sub.item),
                                     IF consumes THEN EmptySubtree ELSE base, rebased, prefix)

(* The children of a witness branch from nibble nib on. *)
branch_children(built, refs, nib, updates, prefix) ==
    LET under == update_under_current_prefix(updates)
        path  == Append(prefix, nib)
        down  == trie_updates_descend(updates)
        sub   == IF refs[nib] = EmptyRef THEN overlay_subtree(EmptySubtree, down, path)
                 ELSE IF resolves(refs[nib]) THEN witness_subtree(refs[nib].node, path, down)
                 ELSE Fatal
        kept  == IF refs[nib] = EmptyRef THEN EmptySubtree ELSE trie_subtree(path, refs[nib])
    IN  IF nib \notin Nibbles
        THEN IF under THEN Fatal ELSE Built(trie_children_finish(prefix, built), updates)
        ELSE IF under /\ update_child_nibble(updates) < nib THEN Fatal
        ELSE IF under /\ update_child_nibble(updates) = nib
        THEN branch_children(trie_children_add(built, prefix, nib, sub.item), refs, nib + 1,
                             trie_updates_rebase(sub.rest, prefix), prefix)
        ELSE branch_children(trie_children_add(built, prefix, nib, kept), refs, nib + 1,
                             updates, prefix)

witness_subtree(node, prefix, updates) ==
    LET decoded == decode_trie_node(node)
    IN  CASE decoded.kind = "leaf" ->
               overlay_subtree(trie_leaf(prefix \o decoded.path, decoded.value), updates, prefix)
          [] decoded.kind = "extension" ->
               IF Len(prefix) + Len(decoded.path) > PathLimit THEN Fatal
               ELSE overlay_subtree(trie_branch(prefix \o decoded.path, decoded.ref),
                                    updates, prefix)
          [] decoded.kind = "branch" ->
               IF Len(prefix) >= PathLimit THEN Fatal
               ELSE branch_children(trie_children_empty, decoded.refs, 0, updates, prefix)
          [] OTHER -> Fatal

(* The root after the updates, FatalRef when the witness lacks a node. *)
trie_root(base_root, source) ==
    LET updates == trie_updates_begin(source)
        built   == IF base_root = EmptyRef THEN overlay_subtree(EmptySubtree, updates, <<>>)
                   ELSE IF node_db_lookup(base_root)
                   THEN witness_subtree(base_root.node, <<>>, updates) ELSE Fatal
    IN  IF updates_empty(updates) THEN base_root
        ELSE IF updates_empty(built.rest) THEN trie_subtree_root(built.item) ELSE FatalRef

----------------------------------------------------------------------------
(* Lookups: the value at a key, EmptyRef for none, FatalRef for a missing  *)
(* node.                                                                   *)

RECURSIVE trie_walk(_, _, _)
trie_walk(node, key, pos) ==
    LET decoded == decode_trie_node(node)
        child   == IF decoded.kind = "branch" THEN decoded.refs[key[pos + 1]] ELSE decoded.ref
        next    == pos + (IF decoded.kind = "branch" THEN 1 ELSE Len(decoded.path))
    IN  CASE decoded.kind = "fatal" -> FatalRef
          [] decoded.kind = "leaf"  ->
               IF path_matches(key, pos, decoded.path) /\ next = Len(key)
               THEN decoded.value ELSE EmptyRef
          [] OTHER ->
               IF \/ decoded.kind = "extension" /\ ~path_matches(key, pos, decoded.path)
                  \/ decoded.kind = "branch" /\ pos = Len(key)
                  \/ child = EmptyRef
               THEN EmptyRef
               ELSE IF resolves(child) THEN trie_walk(child.node, key, next) ELSE FatalRef

trie_lookup(root, key) ==
    IF root = EmptyRef THEN EmptyRef
    ELSE IF node_db_lookup(root) THEN trie_walk(root.node, key, 0) ELSE FatalRef
=============================================================================
