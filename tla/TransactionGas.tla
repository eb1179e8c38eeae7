--------------------------- MODULE TransactionGas ---------------------------
(***************************************************************************)
(* One block's transaction loop: admission against the two gas dimensions  *)
(* of the block, the upfront debit, EIP-7702 authorizations, the top-level *)
(* frame under its journal scopes, settlement and block accounting         *)
(* (sail/evm/transaction.sail, sail/executor/block.sail).  The interpreter *)
(* is used through FrameContract, which CallLedger checks of CallTree; the *)
(* journal through its abstract specification (FrameSnapshots).            *)
(***************************************************************************)
EXTENDS GasPools, Sequences, FiniteSets, SequencesExt

CONSTANTS
    Accounts, Coinbase, InitialWorld,
    Transactions,               \* decoded transactions of a block, by fork
    NoTransaction,              \* between two transactions
    MaxTransactions,            \* bound on the length of the block
    BlockLimit,                 \* gas limit of the header
    ProfileTotal, ProfileRegular,   \* EIP-7825 limits, the second by fork
    BlobLimit,                  \* blob_schedule.max, in blobs
    BaseFee, BlobPrice,
    NonceBound,                 \* account_nonce_bound
    Refunds,                    \* refund counters a frame may end with
    Deposits,                   \* lengths of deployed code
    DepositCost, WarmAccess, ColdAccess, AccountWrite, AuthRefund,
    StateNewAccount, StateAuthBase, StateByte

Codes == {"empty", "delegated", "contract"}

(* The journalled state; grown prices the growth made by frames inside the *)
(* top-level one and by deployed code.                                     *)
World == [balance : [Accounts -> Nat], nonce : [Accounts -> Nat],
          code : [Accounts -> Codes], grown : Nat]

Authorization == [authority : Accounts, clears : BOOLEAN, nonce : Nat,
                  signed : BOOLEAN]

(* TxUpfrontResult with the authorization cursor and tracker; state_gas is *)
(* what the authorizations have used.                                      *)
Context == [next : Nat \ {0}, refund : Nat, target_empty : BOOLEAN,
            seen : SUBSET Accounts, originally : SUBSET Accounts,
            set : SUBSET Accounts, state_gas : Nat]

(* target is the recipient, or the address a creation derives.             *)
Transaction == [sender : Accounts, is_create : BOOLEAN, target : Accounts,
                nonce : Nat, value : Nat, gas_limit : Nat, max_fee : Nat,
                max_priority_fee : Nat, blobs : Nat, max_blob_fee : Nat,
                intrinsic : Nat, floor : Nat, auths : Seq(Authorization)]

ASSUME TransactionAssumption ==
    /\ Coinbase \in Accounts
    /\ IsFiniteSet(Accounts)
    /\ InitialWorld \in World
    /\ InitialWorld.grown = 0
    /\ {MaxTransactions, BlockLimit, ProfileTotal, BlobLimit, BaseFee,
        BlobPrice, NonceBound, DepositCost, WarmAccess, ColdAccess,
        AccountWrite, AuthRefund, StateNewAccount, StateAuthBase, StateByte}
           \subseteq Nat
    /\ Refunds \subseteq Int
    /\ Deposits \subseteq Nat
    /\ \A f \in Forks :
          /\ ProfileRegular[f] \in 0..ProfileTotal
          /\ f < Amsterdam => ProfileRegular[f] = ProfileTotal
          /\ Transactions[f] \subseteq Transaction
          /\ NoTransaction \notin Transactions[f]
          /\ \A t \in Transactions[f] :
                /\ t.intrinsic > 0        \* G_transaction, AMSTERDAM_TX_BASE
                /\ t.is_create => t.target # t.sender     \* a keccak image
                /\ f < Prague => t.auths = <<>>      \* minimum_fork of type 4

VARIABLES
    phase,        \* where process_transaction is
    count,        \* transactions settled so far
    tx,           \* the transaction being processed
    frame,        \* the carried gas of the top-level frame
    context,      \* TxUpfrontResult, the authorization cursor and tracker
    world, scopes,   \* journalled state, and the worlds of open scopes
    result,       \* TxFrameResult
    usage,        \* BlockGasUsage
    blob_gas      \* blob_gas_acc, in blobs

vars == <<fork, phase, count, tx, frame, context, world, scopes, result, usage,
          blob_gas>>

Phases == {"idle", "validated", "upfront", "authorizing", "frame", "ran",
           "settling", "done", "invalid", "fatal"}

NoFrame == [gas |-> 0, state_gas |-> 0, spill |-> 0, refund |-> 0,
            reservoir |-> 0, static |-> FALSE, depth |-> 0,
            status |-> "Running"]

NoContext == [next |-> 1, refund |-> 0, target_empty |-> FALSE,
              seen |-> {}, originally |-> {}, set |-> {}, state_gas |-> 0]

NoResult == [success |-> FALSE, remaining |-> 0, state_used |-> 0,
             refund |-> 0]

Init ==
    /\ fork \in Forks
    /\ phase = "idle"
    /\ count = 0
    /\ tx = NoTransaction
    /\ frame = NoFrame
    /\ context = NoContext
    /\ world = InitialWorld
    /\ scopes = <<>>
    /\ result = NoResult
    /\ usage = [execution |-> 0, state |-> 0, receipts |-> 0]
    /\ blob_gas = 0

-----------------------------------------------------------------------------
(* Admission.                                                              *)
Lesser(a, b) == IF a < b THEN a ELSE b
Greater(a, b) == IF a < b THEN b ELSE a

transaction_total_limit == Lesser(BlockLimit, ProfileTotal)
transaction_regular_limit == Lesser(transaction_total_limit, ProfileRegular[fork])

(* The regular part of transaction_gas_allowance; the total is gas_limit.  *)
Regular(t) == Lesser(t.gas_limit, transaction_regular_limit)

account_info_empty(w, a) ==
    w.code[a] = "empty" /\ w.nonce[a] = 0 /\ w.balance[a] = 0

eff_gas_price(t) == Lesser(t.max_fee, BaseFee + t.max_priority_fee)
eff_priority_fee(t) == eff_gas_price(t) - BaseFee

(* Mutant: only the regular allowance is reserved in both dimensions.      *)
MutRegularReserved(t) ==
    /\ Regular(t) <= BlockLimit - usage.execution
    /\ fork >= Amsterdam => Regular(t) <= BlockLimit - usage.state
    /\ fork >= Cancun => blob_gas + t.blobs <= BlobLimit

(* What the block has left, checked before the transaction is processed.   *)
BlockHasRoom(t) ==
    /\ IF fork >= Amsterdam
       THEN /\ Regular(t) <= BlockLimit - usage.execution
            /\ t.gas_limit <= BlockLimit - usage.state
       ELSE t.gas_limit <= BlockLimit - usage.execution
    /\ fork >= Cancun => blob_gas + t.blobs <= BlobLimit

(* The calldata floor of EIP-7623 is compared with the regular allowance   *)
(* whatever the fork.                                                      *)
FloorCovered(t) ==
    /\ fork >= Prague => t.floor <= t.gas_limit
    /\ t.floor <= Regular(t)

(* check_transaction_validity and transaction_initial_gas but for the      *)
(* floor; the upfront balance is tested at the fee caps.                   *)
ValidButForFloor(t) ==
    /\ t.gas_limit <= transaction_total_limit
    /\ t.nonce = world.nonce[t.sender]
    /\ t.nonce # NonceBound
    /\ t.blobs > 0 => /\ fork >= Cancun
                      /\ ~t.is_create
                      /\ BlobPrice <= t.max_blob_fee
    /\ t.max_fee * t.gas_limit + t.value + t.max_blob_fee * t.blobs
           <= world.balance[t.sender]
    /\ world.code[t.sender] # "contract"
    /\ BaseFee <= t.max_fee
    /\ t.max_priority_fee <= t.max_fee
    /\ t.auths # <<>> => ~t.is_create
    /\ t.intrinsic <= Regular(t)

check_transaction_validity(t) ==
    BlockHasRoom(t) /\ ValidButForFloor(t) /\ FloorCovered(t)

admit(t) ==
    /\ check_transaction_validity(t)
    /\ phase' = "validated"
    /\ tx' = t
    /\ UNCHANGED <<count, frame, context, world, scopes, result, usage,
                   blob_gas>>

(* An invalid transaction makes the block invalid: fatal_error.            *)
reject(t) ==
    /\ ~check_transaction_validity(t)
    /\ phase' = "invalid"
    /\ tx' = t
    /\ UNCHANGED <<count, frame, context, world, scopes, result, usage,
                   blob_gas>>

-----------------------------------------------------------------------------
(* Mutant: the debit is made at the fee cap, the refund at the price paid. *)
MutDebitAtCap(t) ==
    [world EXCEPT !.balance[t.sender] = @ - t.max_fee * t.gas_limit
                                          - BlobPrice * t.blobs,
                  !.nonce[t.sender] = @ + 1]

(* Upfront effects, before any scope is opened: they survive a failure.    *)
Debited(t) ==
    [world EXCEPT !.balance[t.sender] = @ - eff_gas_price(t) * t.gas_limit
                                          - BlobPrice * t.blobs,
                  !.nonce[t.sender] = @ + 1]

(* transaction_initial_gas: the gas above the regular allowance becomes    *)
(* the state reservoir.                                                    *)
enter_transaction_frame(t) ==
    LET execution == Regular(t) - t.intrinsic
        reservoir == t.gas_limit - Regular(t)
    IN  [NoFrame EXCEPT !.gas = execution, !.state_gas = reservoir,
                        !.reservoir = reservoir]

apply_transaction_upfront_effects ==
    /\ phase = "validated"
    /\ phase' = "upfront"
    /\ world' = Debited(tx)
    /\ frame' = enter_transaction_frame(tx)
    /\ context' = [NoContext EXCEPT
                     !.target_empty = /\ fork >= Amsterdam
                                      /\ tx.is_create
                                      /\ account_info_empty(world, tx.target)]
    /\ UNCHANGED <<count, tx, scopes, result, usage, blob_gas>>

-----------------------------------------------------------------------------
(* EIP-7702 authorizations, one step each in wire order.                   *)
Cursor == tx.auths[context.next]

AuthsDone == context.next > Len(tx.auths)

(* A tuple with a bad signature or chain id, or one whose authority has    *)
(* code or another nonce, is skipped.                                      *)
Applicable(au) ==
    /\ au.signed
    /\ world.code[au.authority] # "contract"
    /\ world.nonce[au.authority] = au.nonce

Delegated(au) ==
    [world EXCEPT !.code[au.authority] = IF au.clears THEN "empty"
                                         ELSE "delegated",
                  !.nonce[au.authority] = @ + 1]

(* Before Amsterdam: applied in the upfront phase, outside every scope.    *)
process_auth ==
    /\ phase = "upfront" /\ fork < Amsterdam /\ ~AuthsDone
    /\ LET au == Cursor
           earned == IF account_info_empty(world, au.authority) THEN 0
                     ELSE AuthRefund
       IN  IF Applicable(au)
           THEN /\ world' = Delegated(au)
                /\ context' = [context EXCEPT !.next = @ + 1,
                                              !.refund = @ + earned]
           ELSE /\ context' = [context EXCEPT !.next = @ + 1]
                /\ UNCHANGED world
    /\ UNCHANGED <<phase, count, tx, frame, scopes, result, usage, blob_gas>>

(* The preparation scope of run_amsterdam_transaction_frame.               *)
begin_preparation ==
    /\ phase = "upfront" /\ fork >= Amsterdam
    /\ phase' = "authorizing"
    /\ scopes' = Append(scopes, world)
    /\ UNCHANGED <<count, tx, frame, context, world, result, usage, blob_gas>>

(* Mutant: the tracker is not asked how the transaction found the account. *)
MutDelegatedNow(au) == world.code[au.authority] = "delegated"

(* The state gas and execution gas an applicable tuple costs, given what   *)
(* the tracker has seen of its authority in this transaction.              *)
delegated_before_tx(au) ==
    IF au.authority \in context.seen
    THEN au.authority \in context.originally
    ELSE world.code[au.authority] = "delegated"

AccountCharge(au) ==
    IF account_info_empty(world, au.authority) THEN StateNewAccount ELSE 0

WriteCharge(au) ==
    IF \/ au.authority \in context.seen
       \/ au.authority = tx.sender
       \/ tx.value > 0 /\ au.authority = tx.target
    THEN 0 ELSE AccountWrite

DelegationCharge(au) ==
    IF /\ ~au.clears
       /\ ~delegated_before_tx(au)
       /\ au.authority \notin context.set
    THEN StateAuthBase ELSE 0

(* The charges in their order; the frame is Exceptional once one of them   *)
(* cannot be paid.                                                         *)
Exhausted(f) == [f EXCEPT !.gas = 0, !.status = "Exceptional"]

ChargeState(f, amount) ==
    IF f.status = "Exceptional" \/ state_gas_halt(f, amount)
    THEN Exhausted(f) ELSE charge_state_gas(f, amount)

ChargeExecution(f, amount) ==
    IF f.status = "Exceptional" \/ f.gas < amount
    THEN Exhausted(f) ELSE [f EXCEPT !.gas = @ - amount]

AuthCharged(au) ==
    ChargeState(ChargeExecution(ChargeState(frame, AccountCharge(au)),
                                WriteCharge(au)),
                DelegationCharge(au))

(* authorization_tracker_commit.                                           *)
Tracked(au) ==
    [context EXCEPT
       !.next = @ + 1,
       !.seen = @ \cup {au.authority},
       !.originally = @ \cup (IF /\ au.authority \notin context.seen
                                 /\ world.code[au.authority] = "delegated"
                              THEN {au.authority} ELSE {}),
       !.set = @ \cup (IF au.clears THEN {} ELSE {au.authority})]

process_amsterdam_auth ==
    /\ phase = "authorizing" /\ ~AuthsDone
    /\ frame.status = "Running"
    /\ LET au == Cursor
       IN  IF Applicable(au)
           THEN /\ frame' = AuthCharged(au)
                /\ IF frame'.status = "Running"
                   THEN world' = Delegated(au) /\ context' = Tracked(au)
                   ELSE UNCHANGED <<world, context>>
           ELSE /\ context' = [context EXCEPT !.next = @ + 1]
                /\ UNCHANGED <<frame, world>>
    /\ UNCHANGED <<phase, count, tx, scopes, result, usage, blob_gas>>

-----------------------------------------------------------------------------
(* The gas of a finished frame, with the checks of tx_frame_gas_snapshot.  *)
snapshot_valid(gas, state, delta) ==
    LET spent == tx.gas_limit - gas - state
    IN  /\ spent >= 0
        /\ IF delta <= 0 THEN spent <= Regular(tx)
           ELSE delta <= spent /\ spent - delta <= Regular(tx)

tx_frame_gas_snapshot(success, gas, state, delta, refund) ==
    [success |-> success, remaining |-> gas + state,
     state_used |-> Greater(delta, 0),
     refund |-> IF success THEN refund ELSE 0]

(* The frame result, or fatal_error when the snapshot does not add up.     *)
EndFrame(success, gas, state, delta, refund) ==
    IF snapshot_valid(gas, state, delta)
    THEN /\ phase' = "settling"
         /\ result' = tx_frame_gas_snapshot(success, gas, state, delta, refund)
    ELSE phase' = "fatal" /\ UNCHANGED result

(* Mutant: the authorizations survive a failed preparation.                *)
MutPreparationKept ==
    /\ world' = world
    /\ scopes' = Front(scopes)
    /\ EndFrame(FALSE, 0, 0, 0, 0)
    /\ UNCHANGED <<count, tx, frame, context, usage, blob_gas>>

(* Preparation ran out of gas: its scope is reverted, all gas is consumed. *)
preparation_fails ==
    /\ world' = Last(scopes)
    /\ scopes' = Front(scopes)
    /\ EndFrame(FALSE, 0, 0, 0, 0)
    /\ UNCHANGED <<count, tx, frame, context, usage, blob_gas>>

process_amsterdam_auth_fails ==
    /\ phase = "authorizing"
    /\ frame.status = "Exceptional"
    /\ preparation_fails

(* Mutant: a value transfer to an empty account is not charged.            *)
MutFreeRecipient(access) ==
    LET f == [frame EXCEPT !.reservoir = frame.state_gas, !.spill = 0]
        new == tx.is_create /\ context.target_empty
        follows == ~tx.is_create /\ world.code[tx.target] = "delegated"
    IN  ChargeExecution(ChargeState(f, IF new THEN StateNewAccount ELSE 0),
                        IF follows THEN access ELSE 0)

(* The dispatch charges of Amsterdam, on the pools the authorizations left.*)
Dispatched(access) ==
    LET f == [frame EXCEPT !.reservoir = frame.state_gas, !.spill = 0]
        new == \/ tx.is_create /\ context.target_empty
               \/ /\ ~tx.is_create /\ tx.value > 0
                  /\ account_info_empty(world, tx.target)
        follows == ~tx.is_create /\ world.code[tx.target] = "delegated"
    IN  ChargeExecution(ChargeState(f, IF new THEN StateNewAccount ELSE 0),
                        IF follows THEN access ELSE 0)

(* With enough gas the execution scope is opened inside the preparation    *)
(* scope.                                                                  *)
prepare_amsterdam_transaction_dispatch ==
    /\ phase = "authorizing" /\ AuthsDone
    /\ frame.status = "Running"
    /\ \E access \in {WarmAccess, ColdAccess} :
         LET f == Dispatched(access)
         IN  IF f.status = "Running"
             THEN /\ phase' = "frame"
                  /\ frame' = f
                  /\ context' = [context EXCEPT
                                   !.state_gas = frame_state_gas_used(frame)]
                  /\ scopes' = Append(scopes, world)
                  /\ UNCHANGED <<count, tx, world, result, usage, blob_gas>>
             ELSE preparation_fails

(* Before Amsterdam there is one scope.                                    *)
enter_legacy_frame ==
    /\ phase = "upfront" /\ fork < Amsterdam /\ AuthsDone
    /\ phase' = "frame"
    /\ scopes' = Append(scopes, world)
    /\ UNCHANGED <<count, tx, frame, context, world, result, usage, blob_gas>>

-----------------------------------------------------------------------------
(* The top-level frame.                                                    *)
k_transfer(w) ==
    LET debited == [w.balance EXCEPT ![tx.sender] = @ - tx.value]
    IN  [w EXCEPT !.balance = [debited EXCEPT ![tx.target] = @ + tx.value]]

(* Every way interpret may end f under its contract; a precompile called   *)
(* directly ends in one of them too.                                       *)
interpret(f) ==
    LET pool == f.gas + f.spill
        ends == [gas : 0..pool, spill : 0..f.gas + f.spill,
                 state_gas : 0..f.reservoir + pool, refund : Refunds,
                 status : Statuses]
    IN  {g \in {[f EXCEPT !.gas = e.gas, !.spill = e.spill,
                          !.state_gas = e.state_gas, !.refund = e.refund,
                          !.status = e.status] : e \in ends} :
            FrameContract(f, g)}

Grown(w, f, g) == [w EXCEPT !.grown = @ + frame_state_gas_used(g)
                                        - frame_state_gas_used(f)]

FrameEnds(g, w) ==
    /\ phase' = "ran"
    /\ frame' = g
    /\ world' = IF frame_succeeded(g) THEN Grown(w, frame, g) ELSE w
    /\ UNCHANGED <<count, tx, context, scopes, result, usage, blob_gas>>

run_call_transaction_frame ==
    /\ phase = "frame" /\ ~tx.is_create
    /\ \E g \in interpret(frame) : FrameEnds(g, k_transfer(world))

(* The target has code, a nonce or storage.                                *)
k_account_occupied(stored) ==
    world.code[tx.target] # "empty" \/ world.nonce[tx.target] # 0 \/ stored

create_transaction_collides ==
    /\ phase = "frame" /\ tx.is_create
    /\ \E stored \in BOOLEAN : k_account_occupied(stored)
    /\ FrameEnds(exceptional_state(frame), world)

(* The deposit for n bytes of code, after the initcode has ended as g.     *)
Deployed(g, n) ==
    LET paid == [g EXCEPT !.gas = @ - DepositCost * n]
    IN  IF g.gas < DepositCost * n THEN exceptional_state(g)
        ELSE IF fork < Amsterdam THEN paid
        ELSE IF state_gas_halt(paid, StateByte * n) THEN exceptional_state(paid)
        ELSE charge_state_gas(paid, StateByte * n)

Born(w, n) ==
    [w EXCEPT !.nonce[tx.target] = @ + 1,
              !.code[tx.target] = IF n = 0 THEN "empty" ELSE "contract"]

(* Code that is too long or starts with 0xef fails like a missing deposit. *)
run_create_transaction_frame ==
    /\ phase = "frame" /\ tx.is_create
    /\ ~k_account_occupied(FALSE)
    /\ \E g \in interpret(frame), n \in Deposits :
         LET ended == IF frame_succeeded(g)
                      THEN {Deployed(g, n), exceptional_state(g)} ELSE {g}
         IN  \E e \in ended : FrameEnds(e, k_transfer(Born(world, n)))

(* The scope is committed or reverted and the gas captured.                *)
end_legacy_frame ==
    /\ phase = "ran" /\ fork < Amsterdam
    /\ scopes' = Front(scopes)
    /\ world' = IF frame_succeeded(frame) THEN world ELSE Last(scopes)
    /\ EndFrame(frame_succeeded(frame), frame.gas, frame.state_gas,
                frame_state_gas_used(frame), frame.refund)
    /\ UNCHANGED <<count, tx, frame, context, usage, blob_gas>>

(* Mutant: a failed frame takes back the authorizations' state gas too.    *)
MutAuthorizationsFree ==
    /\ phase = "ran" /\ fork >= Amsterdam
    /\ scopes' = Front(Front(scopes))
    /\ world' = IF frame_succeeded(frame) THEN world ELSE Last(scopes)
    /\ EndFrame(frame_succeeded(frame), frame.gas, frame.state_gas,
                IF frame_succeeded(frame)
                THEN context.state_gas + frame_state_gas_used(frame) ELSE 0,
                frame.refund)
    /\ UNCHANGED <<count, tx, frame, context, usage, blob_gas>>

(* The execution scope is committed or reverted, then the preparation      *)
(* scope committed: authorizations outlive a failed execution.             *)
end_amsterdam_frame ==
    /\ phase = "ran" /\ fork >= Amsterdam
    /\ scopes' = Front(Front(scopes))
    /\ world' = IF frame_succeeded(frame) THEN world ELSE Last(scopes)
    /\ EndFrame(frame_succeeded(frame), frame.gas, frame.state_gas,
                context.state_gas + frame_state_gas_used(frame), frame.refund)
    /\ UNCHANGED <<count, tx, frame, context, usage, blob_gas>>

-----------------------------------------------------------------------------
(* Settlement.                                                             *)
refund_divisor == IF fork < London THEN 2 ELSE 5

remaining_gas_after_refund ==
    LET cap == (tx.gas_limit - result.remaining) \div refund_divisor
        total == context.refund + result.refund
    IN  result.remaining + Lesser(Greater(total, 0), cap)

floor == IF fork >= Prague THEN tx.floor ELSE 0

gas_used == Greater(tx.gas_limit - remaining_gas_after_refund, floor)

execution_gas ==
    Greater(tx.gas_limit - result.remaining - result.state_used, floor)

Paid ==
    LET refunded == [world.balance EXCEPT
                       ![tx.sender] = @ + eff_gas_price(tx)
                                            * (tx.gas_limit - gas_used)]
    IN  [world EXCEPT !.balance = [refunded EXCEPT
                       ![Coinbase] = @ + eff_priority_fee(tx) * gas_used]]

block_gas_usage_add ==
    IF fork >= Amsterdam
    THEN [execution |-> usage.execution + execution_gas,
          state |-> usage.state + result.state_used,
          receipts |-> usage.receipts + gas_used]
    ELSE [execution |-> usage.execution + gas_used, state |-> usage.state,
          receipts |-> usage.receipts + gas_used]

(* k_tx_merge moves the transaction layer into the block layer, which this *)
(* model does not tell apart; an empty account is an absent one.           *)
settle_transaction ==
    /\ phase = "settling"
    /\ IF gas_used <= execution_gas + result.state_used
       THEN /\ phase' = "idle"
            /\ count' = count + 1
            /\ tx' = NoTransaction
            /\ frame' = NoFrame
            /\ context' = NoContext
            /\ result' = NoResult
            /\ world' = Paid
            /\ usage' = block_gas_usage_add
            /\ blob_gas' = IF fork < Cancun THEN blob_gas
                           ELSE blob_gas + tx.blobs
            /\ UNCHANGED scopes
       ELSE /\ phase' = "fatal"
            /\ UNCHANGED <<count, tx, frame, context, world, scopes, result,
                           usage, blob_gas>>

next_transaction ==
    /\ phase = "idle" /\ count < MaxTransactions
    /\ \E t \in Transactions[fork] : admit(t) \/ reject(t)

(* The cursor of the transaction list is empty.                            *)
finish_block ==
    /\ phase = "idle"
    /\ phase' = "done"
    /\ UNCHANGED <<count, tx, frame, context, world, scopes, result, usage,
                   blob_gas>>

Terminated ==
    /\ phase \in {"done", "invalid", "fatal"}
    /\ UNCHANGED vars

Step ==
    \/ next_transaction
    \/ apply_transaction_upfront_effects
    \/ process_auth
    \/ begin_preparation
    \/ process_amsterdam_auth
    \/ process_amsterdam_auth_fails
    \/ prepare_amsterdam_transaction_dispatch
    \/ enter_legacy_frame
    \/ run_call_transaction_frame
    \/ run_create_transaction_frame
    \/ create_transaction_collides
    \/ end_legacy_frame
    \/ end_amsterdam_frame
    \/ settle_transaction
    \/ finish_block

Next == (Step /\ UNCHANGED fork) \/ Terminated

Spec == Init /\ [][Next]_vars
=============================================================================
