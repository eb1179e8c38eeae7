-------------------------- MODULE TransactionLedger --------------------------
(***************************************************************************)
(* What a block of transactions may do to balances, nonces and gas: the    *)
(* properties of TransactionGas, with one history variable.                *)
(***************************************************************************)
EXTENDS TransactionGas

VARIABLE charged     \* the world after the upfront effects of tx

LInit == Init /\ charged = InitialWorld

LNext ==
    /\ Next
    /\ charged' = IF phase = "validated" THEN world'
                  ELSE IF phase' = "idle" THEN InitialWorld ELSE charged

LSpec == LInit /\ [][LNext]_<<vars, charged>>

OpenScopes ==
    IF phase = "authorizing" THEN 1
    ELSE IF phase \notin {"frame", "ran"} THEN 0
    ELSE IF fork >= Amsterdam THEN 2 ELSE 1

(* The state of the loop, and the scopes open in each phase: none between  *)
(* transactions, two while an Amsterdam frame runs.                        *)
TypeOK ==
    /\ fork \in Forks
    /\ phase \in Phases
    /\ count \in 0..MaxTransactions
    /\ tx \in Transactions[fork] \cup {NoTransaction}
    /\ frame \in Frame
    /\ context \in Context
    /\ {world, charged} \subseteq World
    /\ scopes \in Seq(World)
    /\ result \in [success : BOOLEAN, remaining : Nat, state_used : Nat,
                   refund : Int]
    /\ usage \in [execution : Nat, state : Nat, receipts : Nat]
    /\ blob_gas \in Nat
    /\ Len(scopes) = OpenScopes

(* Between transactions every wei is accounted for: what the accounts hold *)
(* with the base fee burned on the gas of all receipts and the blob fees   *)
(* is what the block started with.  Debit at the limit, refund, floor, tip *)
(* and reverted value transfers have to agree (settle_transaction).        *)
EtherConserved ==
    phase \in {"idle", "done"} =>
        SumFunction(world.balance) + BaseFee * usage.receipts
          + BlobPrice * blob_gas
            = SumFunction(InitialWorld.balance)

(* Both gas dimensions of the block stay within the header limit, although *)
(* block_gas_usage_add checks nothing: admission has reserved enough for   *)
(* whatever the frame and the settlement come to.                          *)
BlockWithinLimits ==
    /\ usage.execution <= BlockLimit
    /\ usage.state <= BlockLimit
    /\ usage.receipts <= usage.execution + usage.state

(* In a transaction that has left its frame phases: the frame was never    *)
(* run.                                                                    *)
PreparationFailed == frame.status = "Running" \/ ~AuthsDone

(* A transaction that was admitted reaches its receipt: the checks of      *)
(* tx_frame_gas_snapshot and settle_transaction hold of every frame that   *)
(* was run, and of a failed preparation unless gas was admitted above the  *)
(* regular limit.  Every scope opened on the way is closed by then.        *)
SnapshotsAddUp ==
    /\ TypeOK
    /\ phase = "fatal" => PreparationFailed /\ tx.gas_limit > Regular(tx)

(* "A valid transaction that reverts or runs out of gas still has          *)
(* success = false and produces a legitimate receipt" (primitives/tx.sail, *)
(* on Receipt): no admitted transaction ends in fatal_error.               *)
ValidTransactionGetsReceipt == phase # "fatal"

(* "EIP-7623 (Prague+): the calldata floor is ALSO a validity bound"       *)
(* (check_transaction_validity): before Prague no transaction is rejected  *)
(* that is valid but for the floor.                                        *)
FloorBindsFromPrague ==
    phase = "invalid" /\ fork < Prague =>
        ~(BlockHasRoom(tx) /\ ValidButForFloor(tx))

Authorities == {tx.auths[i].authority : i \in DOMAIN tx.auths}

(* A transaction that failed has undone everything since its upfront       *)
(* effects but the authorizations, and those too when it was their         *)
(* preparation that failed; the nonce and the debit stay.                  *)
FailureKeepsOnlyAuthorizations ==
    phase = "settling" /\ ~result.success =>
        /\ world.balance = charged.balance
        /\ world.grown = charged.grown
        /\ \A a \in Accounts \ Authorities :
              world.code[a] = charged.code[a] /\ world.nonce[a] = charged.nonce[a]
        /\ PreparationFailed => world = charged

(* The authorizations that were applied have paid for exactly what they    *)
(* added to the state the transaction found: each new account once, each   *)
(* delegation of an account that had none once, however often the list     *)
(* names it, clears it and sets it again (authorization_tracker).          *)
AuthorizationsPayOnce ==
    phase = "frame" /\ fork >= Amsterdam =>
        context.state_gas =
            StateNewAccount
              * Cardinality({a \in Accounts : account_info_empty(charged, a)
                                /\ ~account_info_empty(world, a)})
            + StateAuthBase
              * Cardinality({a \in context.set : charged.code[a] # "delegated"})

(* The price of what world w adds to the state the block found; the        *)
(* account of the coinbase is created by its fees, not charged to anyone.  *)
Growth(w) ==
    StateNewAccount
      * Cardinality({a \in Accounts \ {Coinbase} :
                        account_info_empty(InitialWorld, a)
                        /\ ~account_info_empty(w, a)})
    + StateAuthBase
      * Cardinality({a \in Accounts : w.code[a] = "delegated"
                                      /\ InitialWorld.code[a] # "delegated"})
    + w.grown

(* State growth is never free: the block's state gas covers the price of   *)
(* everything its transactions have left behind, whichever of them failed. *)
GrowthIsPaid ==
    fork >= Amsterdam /\ phase \in {"idle", "done"} => usage.state >= Growth(world)
=============================================================================
