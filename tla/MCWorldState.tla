---------------------------- MODULE MCWorldState ----------------------------
(* Small instances of WorldLedger: 1 sends, 2 is a contract with storage,  *)
(* 3 can be created.                                                       *)
EXTENDS WorldLedger
CONSTANTS none, c1

MCParent ==
  [a \in 1 .. 3 |->
     CASE a = 1 -> [nonce |-> 0, balance |-> 3, code |-> none, present |-> TRUE, storage |-> <<0>>]
       [] a = 2 -> [nonce |-> 1, balance |-> 0, code |-> c1, present |-> TRUE, storage |-> <<1>>]
       [] a = 3 -> [nonce |-> 0, balance |-> 0, code |-> none, present |-> FALSE, storage |-> <<0>>]]

(* Before Cancun nothing but withdrawals follows the transactions; Cancun  *)
(* calls the beacon roots contract first, Amsterdam request contracts last. *)
MCBlocks ==
  [Shanghai |-> [coinbase |-> 1, start |-> <<>>, end |-> <<>>, words |-> {0, 2},
                 withdrawers |-> {2}, transactions |-> 2, steps |-> 2],
   Cancun |-> [coinbase |-> 2, start |-> <<2>>, end |-> <<>>, words |-> {2},
               withdrawers |-> {3}, transactions |-> 1, steps |-> 3],
   Amsterdam |-> [coinbase |-> 2, start |-> <<>>, end |-> <<2>>, words |-> {0, 2},
                  withdrawers |-> {3}, transactions |-> 1, steps |-> 2]]
=============================================================================
