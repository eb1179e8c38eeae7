------------------------------ MODULE MCTries -------------------------------
(* A state trie over four keys of three nibbles: a pair that differs in    *)
(* the last one, a neighbour of the pair, and one key apart; a value whose *)
(* leaf is inlined and one whose leaf is hashed; blocks that write any of  *)
(* the keys.  Beside it, lists of up to 260 entries, past both changes in  *)
(* the width of a key.                                                     *)
EXTENDS StateTrie, IndexedTrie

VARIABLE part
vars == <<node_db, trie, lists, part>>

MCNibbles == 0 .. 15
MCKeys == {<<0, 1, 0>>, <<0, 1, 15>>, <<0, 9, 1>>, <<15, 0, 2>>}
MCValues == {[kind |-> "value", size |-> 1], [kind |-> "value", size |-> 30]}

Init == StateTrieInit /\ IndexedInit /\ part \in {"state", "lists"}
Next ==
    /\ \/ part = "state" /\ StateTrieNext /\ UNCHANGED lists
       \/ part = "lists" /\ IndexedNext /\ UNCHANGED trie
    /\ UNCHANGED part

Spec == Init /\ [][Next]_vars
=============================================================================
