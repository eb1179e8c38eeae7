--------------------------- MODULE MCTransactions ---------------------------
(* Instances of TransactionGas: a funded sender, a coinbase, an account    *)
(* that does not exist.                                                    *)
EXTENDS TransactionLedger, TLC

CONSTANTS alice, miner, ghost

MCWorld ==
    [balance |-> (alice :> 90 @@ miner :> 1 @@ ghost :> 0),
     nonce   |-> (alice :> 0 @@ miner :> 1 @@ ghost :> 0),
     code    |-> (alice :> "empty" @@ miner :> "delegated" @@ ghost :> "empty"),
     grown   |-> 0]

Plain ==
    [sender |-> alice, is_create |-> FALSE, target |-> miner, nonce |-> 0,
     value |-> 0, gas_limit |-> 6, max_fee |-> 4, max_priority_fee |-> 1,
     blobs |-> 0, max_blob_fee |-> 0, intrinsic |-> 2, floor |-> 3,
     auths |-> <<>>]

Sets(a, n) == [authority |-> a, clears |-> FALSE, nonce |-> n, signed |-> TRUE]
Clears(a, n) == [Sets(a, n) EXCEPT !.clears = TRUE]
Forged(a, n) == [Sets(a, n) EXCEPT !.signed = FALSE]

AuthLists ==
    { <<Sets(ghost, 0)>>,
      <<Sets(ghost, 0), Clears(ghost, 1), Sets(ghost, 2)>>,
      <<Clears(miner, 1), Sets(miner, 2)>>,
      <<Sets(alice, 1), Forged(ghost, 0), Sets(ghost, 7)>> }

Calls ==
    {[Plain EXCEPT !.target = t, !.value = v, !.gas_limit = g, !.nonce = n] :
        t \in {miner, ghost}, v \in {0, 1}, g \in {6, 10}, n \in {0, 1}}

Creates ==
    {[Plain EXCEPT !.is_create = TRUE, !.target = t, !.value = 1,
                   !.nonce = n, !.gas_limit = g] :
        t \in {miner, ghost}, n \in {0, 1}, g \in {6, 8}}

SetCodes ==
    {[Plain EXCEPT !.target = t, !.auths = l, !.gas_limit = g, !.value = v,
                   !.intrinsic = i] :
        t \in {ghost, miner}, l \in AuthLists, g \in {6, 10}, v \in {0, 1},
        i \in {2, 6}}

Blobs == {[Plain EXCEPT !.blobs = 1, !.max_blob_fee = 2]}

(* Of EIP-7623: enough gas for the intrinsic cost, not for the floor.      *)
Tight == [Plain EXCEPT !.gas_limit = 3, !.floor = 4]

MCTransactionsOf ==
    [f \in Forks |-> Calls \cup Creates \cup Blobs
                       \cup IF f >= Prague THEN SetCodes ELSE {Tight}]

MCProfileRegular == [f \in Forks |-> IF f >= Amsterdam THEN 7 ELSE 20]
=============================================================================
