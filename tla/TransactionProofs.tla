-------------------------- MODULE TransactionProofs --------------------------
(***************************************************************************)
(* The transaction loop, for every set of accounts, every block, every     *)
(* price and every limit: an inductive invariant of TransactionLedger, one *)
(* lemma per action, and the properties that follow from it.               *)
(***************************************************************************)
EXTENDS TransactionLedger, LedgerLemmas

(* The phases in which the upfront effects of tx are in place.             *)
InFlight == {"upfront", "authorizing", "frame", "ran", "settling"}

(* What admission has established of tx and keeps until it is settled.     *)
AdmittedOK ==
    /\ phase \in InFlight \cup {"validated"} =>
          /\ count < MaxTransactions
          /\ tx \in Transactions[fork]
          /\ BlockHasRoom(tx) /\ FloorCovered(tx)
          /\ tx.gas_limit <= transaction_total_limit
          /\ tx.intrinsic <= Regular(tx)
          /\ BaseFee <= tx.max_fee
          /\ tx.blobs > 0 => fork >= Cancun
          /\ tx.auths # <<>> => ~tx.is_create
    /\ phase = "validated" => ValidButForFloor(tx)

(* The pools of frame f with base units of state gas used before it come   *)
(* out of the gas limit, what is neither pool nor base is at most the      *)
(* regular allowance, and the state gas used is not negative.              *)
Fits(f, base) ==
    /\ f.gas + f.spill + f.reservoir + base <= tx.gas_limit
    /\ f.reservoir + base >= tx.gas_limit - Regular(tx)
    /\ f.state_gas <= f.reservoir + f.spill

FrameOK ==
    /\ phase = "upfront" => frame.status = "Running" /\ context.state_gas = 0
    /\ phase = "authorizing" =>
          /\ fork >= Amsterdam
          /\ context.state_gas = 0
          /\ frame.status # "Running" =>
                frame.status = "Exceptional" /\ ~AuthsDone
    /\ phase = "frame" => frame.status = "Running" /\ AuthsDone
    /\ phase = "ran" => frame.status # "Running" /\ AuthsDone
    /\ phase \in {"upfront", "authorizing", "frame", "ran"} =>
          \/ phase = "authorizing" /\ frame.status = "Exceptional"
          \/ Fits(frame, context.state_gas)
    /\ phase = "settling" =>
          /\ result.remaining + result.state_used <= tx.gas_limit
          /\ tx.gas_limit - result.remaining - result.state_used <= Regular(tx)

(* World w differs from the charged one by authorizations only.            *)
AuthorizedOnly(w) ==
    /\ w.balance = charged.balance
    /\ w.grown = charged.grown
    /\ \A a \in Accounts :
          /\ w.nonce[a] >= charged.nonce[a]
          /\ a \notin Authorities =>
                w.code[a] = charged.code[a] /\ w.nonce[a] = charged.nonce[a]

WorldsOK ==
    /\ phase \in InFlight =>
          /\ tx.value <= charged.balance[tx.sender]
          /\ charged.nonce[tx.sender] > 0
          /\ world.nonce[tx.sender] > 0
    /\ phase \in {"upfront", "authorizing", "frame"} => AuthorizedOnly(world)
    /\ phase = "authorizing" => scopes[1] = charged
    /\ phase = "frame" => scopes[Len(scopes)] = world
    /\ phase \in {"frame", "ran"} => AuthorizedOnly(scopes[Len(scopes)])
    /\ phase = "settling" /\ ~result.success =>
          AuthorizedOnly(world) /\ (PreparationFailed => world = charged)

Burned == BaseFee * usage.receipts + BlobPrice * blob_gas

EtherOK ==
    /\ phase \in {"idle", "validated", "done"} =>
          SumFunction(world.balance) + Burned
              = SumFunction(InitialWorld.balance)
    /\ phase \in InFlight =>
          /\ SumFunction(charged.balance) + eff_gas_price(tx) * tx.gas_limit
                + BlobPrice * tx.blobs + Burned
                  = SumFunction(InitialWorld.balance)
          /\ SumFunction(world.balance) = SumFunction(charged.balance)

(* The price of the authorizations applied to the charged world in world w.*)
AuthorizationPrice(w) ==
    StateNewAccount
      * Cardinality({a \in Accounts : account_info_empty(charged, a)
                        /\ ~account_info_empty(w, a)})
    + StateAuthBase
      * Cardinality({a \in context.set : charged.code[a] # "delegated"})

TrackerOK ==
    /\ phase \in {"authorizing", "frame"} /\ fork >= Amsterdam =>
          /\ context.set \cup context.originally \subseteq context.seen
          /\ \A a \in Accounts :
                /\ a \in context.seen =>
                      /\ world.nonce[a] > 0
                      /\ a \in context.originally <=> charged.code[a] = "delegated"
                /\ a \notin context.seen =>
                      world.code[a] = charged.code[a]
                      /\ world.nonce[a] = charged.nonce[a]
                /\ world.code[a] = "delegated" =>
                      charged.code[a] = "delegated" \/ a \in context.set
    /\ phase = "upfront" /\ fork >= Amsterdam =>
          context.set = {} /\ context.seen = {} /\ context.originally = {}
          /\ world = charged
          /\ frame_state_gas_used(frame) = 0
    /\ phase = "authorizing" /\ frame.status = "Running" =>
          frame_state_gas_used(frame) = AuthorizationPrice(world)
    /\ phase = "frame" /\ fork >= Amsterdam =>
          context.state_gas = AuthorizationPrice(world)

Opens(w) == (tx.is_create \/ tx.value > 0) /\ account_info_empty(w, tx.target)

GrowthOK ==
    BaseFee > 0 /\ fork >= Amsterdam =>
       /\ phase \in {"idle", "validated", "done"} => usage.state >= Growth(world)
       /\ phase \in InFlight => usage.state >= Growth(charged)
       /\ phase \in {"upfront", "authorizing", "frame"} /\ tx.is_create =>
             context.target_empty <=> account_info_empty(world, tx.target)
       /\ phase = "frame" =>
             /\ usage.state + context.state_gas >= Growth(world)
             /\ Opens(world) => frame_state_gas_used(frame) >= StateNewAccount
       /\ phase = "ran" =>
             /\ usage.state + context.state_gas >= Growth(scopes[Len(scopes)])
             /\ frame_succeeded(frame) =>
                   usage.state + context.state_gas + frame_state_gas_used(frame)
                       >= Growth(world)
       /\ phase = "settling" => usage.state + result.state_used >= Growth(world)

FatalOK == phase = "fatal" => PreparationFailed /\ tx.gas_limit > Regular(tx)

TransactionInv ==
    /\ TypeOK /\ AdmittedOK /\ FrameOK /\ WorldsOK
    /\ EtherOK /\ TrackerOK /\ GrowthOK /\ FatalOK /\ BlockWithinLimits

-----------------------------------------------------------------------------
(* The assumptions, in the form the steps use them.                        *)
LEMMA Numbers ==
    /\ Coinbase \in Accounts
    /\ IsFiniteSet(Accounts)
    /\ InitialWorld \in World
    /\ InitialWorld.grown = 0
    /\ MaxTransactions \in Nat /\ BlockLimit \in Nat /\ ProfileTotal \in Nat
    /\ BlobLimit \in Nat /\ BaseFee \in Nat /\ BlobPrice \in Nat
    /\ NonceBound \in Nat /\ DepositCost \in Nat
    /\ WarmAccess \in Nat /\ ColdAccess \in Nat
    /\ AccountWrite \in Nat /\ AuthRefund \in Nat
    /\ StateNewAccount \in Nat /\ StateAuthBase \in Nat /\ StateByte \in Nat
    /\ Refunds \subseteq Int
    /\ Deposits \subseteq Nat
  BY TransactionAssumption DEF TransactionAssumption

(* The profile of the fork the block runs under.                           *)
LEMMA ForkFacts ==
    ASSUME TypeOK
    PROVE  /\ fork \in Int
           /\ ProfileRegular[fork] \in Nat
           /\ ProfileRegular[fork] <= ProfileTotal
           /\ fork < Amsterdam => ProfileRegular[fork] = ProfileTotal
           /\ Transactions[fork] \subseteq Transaction
           /\ NoTransaction \notin Transactions[fork]
<1>1. fork \in Forks
  BY DEF TypeOK
<1>2. fork \in 5..16
  BY <1>1, PoolAssumption DEF PoolAssumption
<1>3. ProfileTotal \in Nat
  BY Numbers
<1>4. ProfileRegular[fork] \in 0..ProfileTotal
  BY <1>1, TransactionAssumption DEF TransactionAssumption
<1>5. fork < Amsterdam => ProfileRegular[fork] = ProfileTotal
  BY <1>1, TransactionAssumption DEF TransactionAssumption
<1>6. Transactions[fork] \subseteq Transaction /\ NoTransaction \notin Transactions[fork]
  BY <1>1, TransactionAssumption DEF TransactionAssumption
<1> QED  BY <1>2, <1>3, <1>4, <1>5, <1>6

(* The allowance of a transaction, and the price it pays.                  *)
LEMMA TxFacts ==
    ASSUME TypeOK, NEW t \in Transactions[fork]
    PROVE  /\ t.sender \in Accounts /\ t.target \in Accounts
           /\ t.is_create \in BOOLEAN
           /\ t.nonce \in Nat /\ t.value \in Nat /\ t.gas_limit \in Nat
           /\ t.max_fee \in Nat /\ t.max_priority_fee \in Nat
           /\ t.blobs \in Nat /\ t.max_blob_fee \in Nat
           /\ t.intrinsic \in Nat /\ t.intrinsic > 0 /\ t.floor \in Nat
           /\ t.auths \in Seq(Authorization)
           /\ t.is_create => t.target # t.sender
           /\ fork < Prague => t.auths = <<>>
           /\ t # NoTransaction
           /\ transaction_total_limit \in Nat
           /\ transaction_total_limit <= BlockLimit
           /\ Regular(t) \in Nat
           /\ Regular(t) <= t.gas_limit
           /\ fork < Amsterdam /\ t.gas_limit <= transaction_total_limit =>
                 Regular(t) = t.gas_limit
           /\ eff_gas_price(t) \in Nat
           /\ eff_gas_price(t) <= t.max_fee
           /\ BaseFee <= t.max_fee => BaseFee <= eff_gas_price(t)
<1>1. t \in Transaction /\ t # NoTransaction
  BY ForkFacts
<1>2. /\ t.sender \in Accounts /\ t.target \in Accounts
      /\ t.is_create \in BOOLEAN
      /\ t.nonce \in Nat /\ t.value \in Nat /\ t.gas_limit \in Nat
      /\ t.max_fee \in Nat /\ t.max_priority_fee \in Nat
      /\ t.blobs \in Nat /\ t.max_blob_fee \in Nat
      /\ t.intrinsic \in Nat /\ t.floor \in Nat
      /\ t.auths \in Seq(Authorization)
  BY <1>1 DEF Transaction
<1>3. /\ t.intrinsic > 0
      /\ t.is_create => t.target # t.sender
      /\ fork < Prague => t.auths = <<>>
  <2>1. fork \in Forks
    BY DEF TypeOK
  <2> QED  BY <2>1, TransactionAssumption DEF TransactionAssumption
<1>4. /\ transaction_total_limit \in Nat
      /\ transaction_total_limit <= BlockLimit
      /\ transaction_total_limit <= ProfileTotal
  BY Numbers DEF transaction_total_limit, Lesser
<1>5. /\ transaction_regular_limit \in Nat
      /\ fork < Amsterdam => transaction_regular_limit = transaction_total_limit
  BY <1>4, ForkFacts, Numbers DEF transaction_regular_limit, Lesser
<1>6. /\ Regular(t) \in Nat
      /\ Regular(t) <= t.gas_limit
      /\ fork < Amsterdam /\ t.gas_limit <= transaction_total_limit =>
            Regular(t) = t.gas_limit
  BY <1>2, <1>4, <1>5 DEF Regular, Lesser
<1>7. /\ eff_gas_price(t) \in Nat
      /\ eff_gas_price(t) <= t.max_fee
      /\ BaseFee <= t.max_fee => BaseFee <= eff_gas_price(t)
  BY <1>2, Numbers DEF eff_gas_price, Lesser
<1> QED  BY <1>1, <1>2, <1>3, <1>4, <1>6, <1>7

(* The fields of a world, a frame and a context.                           *)
LEMMA WorldFacts ==
    ASSUME NEW w \in World, NEW a \in Accounts
    PROVE  /\ w.balance \in [Accounts -> Nat] /\ w.nonce \in [Accounts -> Nat]
           /\ w.code \in [Accounts -> Codes] /\ w.grown \in Nat
           /\ w.balance[a] \in Nat /\ w.nonce[a] \in Nat /\ w.code[a] \in Codes
  BY DEF World

(* The fields of a frame.                                                  *)
LEMMA FrameFacts ==
    ASSUME NEW f \in Frame
    PROVE  /\ f.gas \in Nat /\ f.state_gas \in Nat /\ f.spill \in Nat
           /\ f.refund \in Int /\ f.reservoir \in Nat /\ f.static \in BOOLEAN
           /\ f.depth \in Nat /\ f.status \in Statuses
  BY DEF Frame

(* The state gas a frame has used is a number.                             *)
LEMMA UsedType ==
    ASSUME NEW f \in Frame
    PROVE  frame_state_gas_used(f) \in Int
<1>1. PICK r \in Nat, s \in Nat, p \in Nat :
        r = f.reservoir /\ s = f.state_gas /\ p = f.spill
  BY FrameFacts
<1>2. frame_state_gas_used(f) = r - s + p
  BY <1>1 DEF frame_state_gas_used
<1> QED  BY <1>2

(* The fields of a context.                                                *)
LEMMA ContextFacts ==
    ASSUME NEW c \in Context
    PROVE  /\ c.next \in Nat /\ c.next > 0 /\ c.refund \in Nat /\ c.target_empty \in BOOLEAN
           /\ c.seen \in SUBSET Accounts /\ c.originally \in SUBSET Accounts
           /\ c.set \in SUBSET Accounts /\ c.state_gas \in Nat
  BY DEF Context

(* Initially nothing is in flight and nothing has grown.                   *)
LEMMA NothingGrown == Growth(InitialWorld) = 0
<1>1. {a \in Accounts \ {Coinbase} : account_info_empty(InitialWorld, a)
                                     /\ ~account_info_empty(InitialWorld, a)} = {}
  OBVIOUS
<1>2. {a \in Accounts : InitialWorld.code[a] = "delegated"
                        /\ InitialWorld.code[a] # "delegated"} = {}
  OBVIOUS
<1>3. Cardinality({}) = 0
  BY FS_EmptySet
<1> QED  BY <1>1, <1>2, <1>3, Numbers DEF Growth

(* The invariant holds before the first transaction.                       *)
LEMMA TransactionInitially ==
    ASSUME LInit
    PROVE  TransactionInv
<1> USE DEF LInit, Init
<1>1. TypeOK
  BY Numbers DEF TypeOK, OpenScopes, Phases, NoFrame, NoContext, NoResult, Frame, Context,
         Statuses
<1>2. AdmittedOK /\ FrameOK /\ WorldsOK /\ TrackerOK /\ FatalOK
  BY DEF AdmittedOK, FrameOK, WorldsOK, TrackerOK, FatalOK, InFlight
<1>3. EtherOK
  <2>1. SumFunction(InitialWorld.balance) \in Int
    <3>1. InitialWorld.balance \in [Accounts -> Nat]
      BY Numbers DEF World
    <3>2. InitialWorld.balance \in [Accounts -> Int]
      BY <3>1
    <3> QED  BY <3>2, Numbers, SumType
  <2>2. Burned = 0
    BY Numbers DEF Burned
  <2> QED  BY <2>1, <2>2 DEF EtherOK, InFlight
<1>4. GrowthOK
  BY NothingGrown DEF GrowthOK, InFlight
<1>5. BlockWithinLimits
  BY Numbers DEF BlockWithinLimits
<1> QED  BY <1>1, <1>2, <1>3, <1>4, <1>5 DEF TransactionInv

(* Admission records what was checked; nothing else moves.                 *)
LEMMA AdmitKeeps ==
    ASSUME TransactionInv, phase = "idle", count < MaxTransactions,
           NEW t \in Transactions[fork], admit(t), UNCHANGED <<fork, charged>>
    PROVE  TransactionInv'
<1> USE DEF TransactionInv
<1>1. /\ phase' = "validated" /\ tx' = t /\ check_transaction_validity(t)
      /\ UNCHANGED <<count, frame, context, world, scopes, result, usage, blob_gas>>
  BY DEF admit
<1>2. TypeOK'
  BY <1>1 DEF TypeOK, OpenScopes, Phases
<1>3. AdmittedOK'
  <2>1. /\ BlockHasRoom(t) /\ FloorCovered(t) /\ ValidButForFloor(t)
    BY <1>1 DEF check_transaction_validity
  <2>2. /\ BlockHasRoom(t)' /\ FloorCovered(t)' /\ ValidButForFloor(t)'
    BY <1>1, <2>1 DEF BlockHasRoom, FloorCovered, ValidButForFloor, Regular,
           transaction_regular_limit
  <2>3. /\ t.gas_limit <= transaction_total_limit
        /\ t.intrinsic <= Regular(t)
        /\ BaseFee <= t.max_fee
        /\ t.blobs > 0 => fork >= Cancun
        /\ t.auths # <<>> => ~t.is_create
    BY <2>1 DEF ValidButForFloor
  <2>4. Regular(t)' = Regular(t)
    BY DEF Regular, transaction_regular_limit
  <2> QED  BY <1>1, <2>2, <2>3, <2>4 DEF AdmittedOK, InFlight
<1>4. FrameOK' /\ WorldsOK' /\ TrackerOK' /\ FatalOK'
  BY <1>1 DEF FrameOK, WorldsOK, TrackerOK, FatalOK, InFlight
<1>5. EtherOK'
  BY <1>1 DEF EtherOK, InFlight, Burned
<1>6. GrowthOK'
  BY <1>1 DEF GrowthOK, InFlight, Growth, account_info_empty
<1>7. BlockWithinLimits'
  BY <1>1 DEF BlockWithinLimits
<1> QED  BY <1>2, <1>3, <1>4, <1>5, <1>6, <1>7

(* A rejected transaction ends the block.                                  *)
LEMMA RejectKeeps ==
    ASSUME TransactionInv, phase = "idle", NEW t \in Transactions[fork],
           reject(t), UNCHANGED <<fork, charged>>
    PROVE  TransactionInv'
<1> USE DEF TransactionInv
<1>1. /\ phase' = "invalid" /\ tx' = t
      /\ UNCHANGED <<count, frame, context, world, scopes, result, usage, blob_gas>>
  BY DEF reject
<1>2. TypeOK'
  BY <1>1 DEF TypeOK, OpenScopes, Phases
<1>3. AdmittedOK' /\ FrameOK' /\ WorldsOK' /\ TrackerOK' /\ FatalOK'
  BY <1>1 DEF AdmittedOK, FrameOK, WorldsOK, TrackerOK, FatalOK, InFlight
<1>4. EtherOK' /\ GrowthOK'
  BY <1>1 DEF EtherOK, GrowthOK, InFlight
<1>5. BlockWithinLimits'
  BY <1>1 DEF BlockWithinLimits
<1> QED  BY <1>2, <1>3, <1>4, <1>5

(* So does the end of the list.                                            *)
LEMMA FinishKeeps ==
    ASSUME TransactionInv, finish_block, UNCHANGED <<fork, charged>>
    PROVE  TransactionInv'
<1> USE DEF TransactionInv
<1>1. /\ phase = "idle" /\ phase' = "done"
      /\ UNCHANGED <<count, tx, frame, context, world, scopes, result, usage, blob_gas>>
  BY DEF finish_block
<1>2. TypeOK'
  BY <1>1 DEF TypeOK, OpenScopes, Phases
<1>3. AdmittedOK' /\ FrameOK' /\ WorldsOK' /\ TrackerOK' /\ FatalOK'
  BY <1>1 DEF AdmittedOK, FrameOK, WorldsOK, TrackerOK, FatalOK, InFlight
<1>4. EtherOK'
  BY <1>1 DEF EtherOK, InFlight, Burned
<1>5. GrowthOK'
  BY <1>1 DEF GrowthOK, InFlight, Growth, account_info_empty
<1>6. BlockWithinLimits'
  BY <1>1 DEF BlockWithinLimits
<1> QED  BY <1>2, <1>3, <1>4, <1>5, <1>6

(* Nothing moves.                                                          *)
LEMMA StutterKeeps ==
    ASSUME TransactionInv, UNCHANGED <<vars, charged>>
    PROVE  TransactionInv'
<1>1. UNCHANGED <<fork, phase, count, tx, frame, context, world, scopes, result,
                  usage, blob_gas, charged>>
  BY DEF vars
<1>2. TypeOK' /\ AdmittedOK'
  BY <1>1 DEF TransactionInv, TypeOK, OpenScopes, AdmittedOK, BlockHasRoom, FloorCovered,
         ValidButForFloor, Regular, transaction_regular_limit
<1>3. FrameOK' /\ WorldsOK'
  BY <1>1 DEF TransactionInv, FrameOK, WorldsOK, Fits, AuthsDone, AuthorizedOnly, Authorities,
         PreparationFailed, Regular, transaction_regular_limit
<1>4. EtherOK' /\ TrackerOK'
  BY <1>1 DEF TransactionInv, EtherOK, Burned, TrackerOK, AuthorizationPrice,
         account_info_empty, frame_state_gas_used
<1>5. GrowthOK'
  BY <1>1 DEF TransactionInv, GrowthOK, Growth, Opens, account_info_empty,
         frame_state_gas_used, frame_succeeded
<1>6. FatalOK' /\ BlockWithinLimits'
  BY <1>1 DEF TransactionInv, FatalOK, PreparationFailed, AuthsDone, Regular,
         transaction_regular_limit, BlockWithinLimits
<1> QED  BY <1>2, <1>3, <1>4, <1>5, <1>6 DEF TransactionInv

-----------------------------------------------------------------------------
(* Products of naturals are monotone.                                      *)
LEMMA ProductMonotone ==
    ASSUME NEW a \in Nat, NEW b \in Nat, NEW n \in Nat, a <= b
    PROVE  /\ a * n \in Nat /\ b * n \in Nat
           /\ a * n <= b * n
           /\ n > 0 /\ b > 0 => b * n > 0
<1>1. PICK k \in Nat : b = a + k
  <2>1. b - a \in Nat
    OBVIOUS
  <2> QED  BY <2>1
<1>2. (a + k) * n = a * n + k * n
  OBVIOUS
<1>3. a * n \in Nat /\ k * n \in Nat /\ b * n \in Nat
  OBVIOUS
<1> QED  BY <1>1, <1>2, <1>3

(* The sums of balances are numbers, and change as one balance does.       *)
LEMMA BalanceSum ==
    ASSUME NEW w \in World
    PROVE  SumFunction(w.balance) \in Int
<1>1. w.balance \in [Accounts -> Int]
  BY DEF World
<1> QED  BY <1>1, Numbers, SumType

(* A sum of balances changes as one balance does.                          *)
LEMMA BalanceChange ==
    ASSUME NEW f \in [Accounts -> Nat], NEW g \in [Accounts -> Nat],
           NEW a \in Accounts, NEW d \in Int,
           g[a] = f[a] + d, \A x \in Accounts \ {a} : g[x] = f[x]
    PROVE  SumFunction(g) = SumFunction(f) + d
<1>1. f \in [Accounts -> Int] /\ g \in [Accounts -> Int]
  OBVIOUS
<1>2. IsFiniteSet(Accounts)
  BY Numbers
<1> QED  BY <1>1, <1>2, SumChange

(* The upfront cost is covered together with the value.                    *)
LEMMA UpfrontCovered ==
    ASSUME TypeOK, NEW t \in Transactions[fork], ValidButForFloor(t)
    PROVE  /\ eff_gas_price(t) * t.gas_limit \in Nat
           /\ BlobPrice * t.blobs \in Nat
           /\ eff_gas_price(t) * t.gas_limit + BlobPrice * t.blobs + t.value
                 <= world.balance[t.sender]
           /\ BaseFee > 0 => world.balance[t.sender] > 0
<1>1. world \in World
  BY DEF TypeOK
<1>2. world.balance[t.sender] \in Nat
  BY <1>1, TxFacts, WorldFacts
<1>3. /\ t.max_fee * t.gas_limit + t.value + t.max_blob_fee * t.blobs
            <= world.balance[t.sender]
      /\ t.blobs > 0 => BlobPrice <= t.max_blob_fee
      /\ BaseFee <= t.max_fee /\ t.intrinsic <= Regular(t)
  BY DEF ValidButForFloor
<1>4. /\ eff_gas_price(t) * t.gas_limit \in Nat /\ t.max_fee * t.gas_limit \in Nat
      /\ eff_gas_price(t) * t.gas_limit <= t.max_fee * t.gas_limit
      /\ t.gas_limit > 0 /\ t.max_fee > 0 => t.max_fee * t.gas_limit > 0
  BY TxFacts, ProductMonotone
<1>5. /\ BlobPrice * t.blobs \in Nat /\ t.max_blob_fee * t.blobs \in Nat
      /\ BlobPrice * t.blobs <= t.max_blob_fee * t.blobs
  <2>1. CASE t.blobs > 0
    BY <2>1, <1>3, TxFacts, Numbers, ProductMonotone
  <2>2. CASE t.blobs = 0
    BY <2>2, TxFacts, Numbers
  <2> QED  BY <2>1, <2>2, TxFacts
<1>6. t.gas_limit > 0
  BY <1>3, TxFacts
<1>7. BaseFee > 0 => t.max_fee > 0
  BY <1>3, TxFacts, Numbers
<1>8. t.value \in Nat
  BY TxFacts
<1> QED  BY <1>2, <1>3, <1>4, <1>5, <1>6, <1>7, <1>8

(* The world after the upfront debit.                                      *)
LEMMA DebitedFacts ==
    ASSUME TypeOK, NEW t \in Transactions[fork], ValidButForFloor(t)
    PROVE  /\ Debited(t) \in World
           /\ Debited(t).code = world.code /\ Debited(t).grown = world.grown
           /\ Debited(t).nonce = [world.nonce EXCEPT ![t.sender] = @ + 1]
           /\ t.value <= Debited(t).balance[t.sender]
           /\ \A a \in Accounts \ {t.sender} :
                 Debited(t).balance[a] = world.balance[a]
           /\ SumFunction(Debited(t).balance)
                + eff_gas_price(t) * t.gas_limit + BlobPrice * t.blobs
                  = SumFunction(world.balance)
<1> DEFINE b == world.balance
           g == eff_gas_price(t) * t.gas_limit
           p == BlobPrice * t.blobs
           nb == [b EXCEPT ![t.sender] = @ - g - p]
           nn == [world.nonce EXCEPT ![t.sender] = @ + 1]
<1>1. world \in World /\ t.sender \in Accounts
  BY TxFacts DEF TypeOK
<1>2. /\ b \in [Accounts -> Nat] /\ world.nonce \in [Accounts -> Nat]
      /\ world.code \in [Accounts -> Codes] /\ world.grown \in Nat
      /\ b[t.sender] \in Nat
  BY <1>1, WorldFacts
<1>3. g \in Nat /\ p \in Nat /\ t.value \in Nat /\ g + p + t.value <= b[t.sender]
  BY UpfrontCovered, TxFacts
<1>4. Debited(t) = [world EXCEPT !.balance = nb, !.nonce = nn]
  BY <1>1 DEF Debited, World
<1>5. /\ Debited(t).balance = nb /\ Debited(t).nonce = nn
      /\ Debited(t).code = world.code /\ Debited(t).grown = world.grown
  BY <1>1, <1>4 DEF World
<1>6. nb \in [Accounts -> Nat] /\ nb[t.sender] = b[t.sender] - g - p
      /\ \A a \in Accounts \ {t.sender} : nb[a] = b[a]
  <2> HIDE DEF b, g, p
  <2> QED  BY <1>1, <1>2, <1>3
<1>7. nn \in [Accounts -> Nat]
  BY <1>1, <1>2
<1>8. Debited(t) \in World
  <2> HIDE DEF nb, nn
  <2> QED  BY <1>1, <1>4, <1>6, <1>7 DEF World
<1>9. SumFunction(nb) + g + p = SumFunction(b)
  <2> HIDE DEF b, g, p
  <2>1. nb[t.sender] = b[t.sender] + (0 - g - p)
    BY <1>2, <1>3, <1>6
  <2>2. 0 - g - p \in Int
    BY <1>3
  <2> HIDE DEF nb
  <2>3. SumFunction(nb) = SumFunction(b) + (0 - g - p)
    BY <2>1, <2>2, <1>1, <1>2, <1>6, BalanceChange
  <2>4. SumFunction(b) \in Int
    BY <1>1, BalanceSum DEF b
  <2> QED  BY <2>3, <2>4, <1>3
<1>10. t.value <= nb[t.sender]
  <2> HIDE DEF b, g, p, nb
  <2> QED  BY <1>2, <1>3, <1>6
<1> HIDE DEF nb
<1> QED  BY <1>5, <1>6, <1>8, <1>9, <1>10

(* The frame a transaction enters with: both pools come out of its limit.  *)
LEMMA EntryFrame ==
    ASSUME TypeOK, NEW t \in Transactions[fork], t.intrinsic <= Regular(t)
    PROVE  LET f == enter_transaction_frame(t)
           IN  /\ f \in Frame
               /\ f.status = "Running"
               /\ f.gas = Regular(t) - t.intrinsic
               /\ f.spill = 0
               /\ f.state_gas = t.gas_limit - Regular(t)
               /\ f.reservoir = t.gas_limit - Regular(t)
<1>1. /\ Regular(t) \in Nat /\ t.intrinsic \in Nat /\ t.gas_limit \in Nat
      /\ Regular(t) <= t.gas_limit
  BY TxFacts
<1>2. PICK e \in Nat, r \in Nat :
        e = Regular(t) - t.intrinsic /\ r = t.gas_limit - Regular(t)
  BY <1>1
<1>3. enter_transaction_frame(t)
        = [NoFrame EXCEPT !.gas = e, !.state_gas = r, !.reservoir = r]
  BY <1>2 DEF enter_transaction_frame
<1>4. NoFrame \in Frame /\ NoFrame.spill = 0 /\ NoFrame.status = "Running"
  BY DEF NoFrame, Frame, Statuses
<1>5. PICK f : f = enter_transaction_frame(t)
  OBVIOUS
<1>6. /\ f \in Frame /\ f.status = "Running" /\ f.spill = 0
      /\ f.gas = e /\ f.state_gas = r /\ f.reservoir = r
  BY <1>3, <1>4, <1>5 DEF Frame
<1> QED  BY <1>2, <1>5, <1>6

NewAccounts(w) ==
    {a \in Accounts \ {Coinbase} : account_info_empty(InitialWorld, a)
                                   /\ ~account_info_empty(w, a)}

NewDelegations(w) ==
    {a \in Accounts : w.code[a] = "delegated" /\ InitialWorld.code[a] # "delegated"}

(* Growth grows by no more than the price of the accounts in A and the     *)
(* delegations in B, if those are all that is new.                         *)
LEMMA GrowthGain ==
    ASSUME NEW w \in World, NEW v \in World,
           NEW A \in SUBSET Accounts, NEW B \in SUBSET Accounts,
           NewAccounts(v) \subseteq NewAccounts(w) \cup A,
           NewDelegations(v) \subseteq NewDelegations(w) \cup B
    PROVE  /\ Growth(w) \in Nat /\ Growth(v) \in Nat
           /\ Cardinality(A) \in Nat /\ Cardinality(B) \in Nat
           /\ Growth(v) <= Growth(w) + StateNewAccount * Cardinality(A)
                             + StateAuthBase * Cardinality(B) + v.grown - w.grown
<1> DEFINE NA(x) == NewAccounts(x)
           ND(x) == NewDelegations(x)
<1>1. /\ NA(w) \in SUBSET Accounts /\ NA(v) \in SUBSET Accounts
      /\ ND(w) \in SUBSET Accounts /\ ND(v) \in SUBSET Accounts
  BY DEF NewAccounts, NewDelegations
<1>2. ASSUME NEW X \in SUBSET Accounts, NEW Y \in SUBSET Accounts,
             NEW Z \in SUBSET Accounts, Z \subseteq X \cup Y, NEW p \in Nat
      PROVE  /\ Cardinality(X) \in Nat /\ Cardinality(Y) \in Nat /\ Cardinality(Z) \in Nat
             /\ p * Cardinality(Z) <= p * Cardinality(X) + p * Cardinality(Y)
             /\ p * Cardinality(X) \in Nat /\ p * Cardinality(Y) \in Nat
             /\ p * Cardinality(Z) \in Nat
  <2>1. IsFiniteSet(Accounts)
    BY Numbers
  <2>2. IsFiniteSet(X) /\ IsFiniteSet(Y) /\ IsFiniteSet(Z)
    BY <2>1, FS_Subset
  <2>3. /\ Cardinality(X) \in Nat /\ Cardinality(Y) \in Nat /\ Cardinality(Z) \in Nat
        /\ Cardinality(X \cap Y) \in Nat
    <3>1. IsFiniteSet(X \cap Y)
      BY <2>2, FS_Intersection
    <3> QED  BY <3>1, <2>2, FS_CardinalityType
  <2>4. IsFiniteSet(X \cup Y) /\ Cardinality(X \cup Y) <= Cardinality(X) + Cardinality(Y)
    <3>1. /\ IsFiniteSet(X \cup Y)
          /\ Cardinality(X \cup Y)
               = Cardinality(X) + Cardinality(Y) - Cardinality(X \cap Y)
      BY <2>2, FS_Union
    <3> QED  BY <3>1, <2>3
  <2>5. Cardinality(Z) <= Cardinality(X \cup Y) /\ Cardinality(X \cup Y) \in Nat
    <3>1. Z \in SUBSET (X \cup Y)
      BY <1>2
    <3> QED  BY <3>1, <2>4, FS_Subset, FS_CardinalityType
  <2>6. PICK x \in Nat, y \in Nat, z \in Nat :
          x = Cardinality(X) /\ y = Cardinality(Y) /\ z = Cardinality(Z)
    BY <2>3
  <2>7. z <= x + y
    BY <2>3, <2>4, <2>5, <2>6
  <2>8. z * p <= (x + y) * p
    BY <2>7, ProductMonotone
  <2>9. p * z <= p * x + p * y /\ p * x \in Nat /\ p * y \in Nat /\ p * z \in Nat
    BY <2>8
  <2> QED  BY <2>3, <2>6, <2>9
<1>3. StateNewAccount \in Nat /\ StateAuthBase \in Nat /\ w.grown \in Nat /\ v.grown \in Nat
  BY Numbers DEF World
<1>4. /\ Cardinality(A) \in Nat
      /\ StateNewAccount * Cardinality(NA(v)) <= StateNewAccount * Cardinality(NA(w))
                                                   + StateNewAccount * Cardinality(A)
      /\ StateNewAccount * Cardinality(NA(v)) \in Nat
      /\ StateNewAccount * Cardinality(NA(w)) \in Nat
      /\ StateNewAccount * Cardinality(A) \in Nat
  <2> HIDE DEF NA
  <2>1. NA(v) \subseteq NA(w) \cup A
    BY DEF NA
  <2> QED  BY <1>1, <1>2, <1>3, <2>1
<1>5. /\ Cardinality(B) \in Nat
      /\ StateAuthBase * Cardinality(ND(v)) <= StateAuthBase * Cardinality(ND(w))
                                                 + StateAuthBase * Cardinality(B)
      /\ StateAuthBase * Cardinality(ND(v)) \in Nat
      /\ StateAuthBase * Cardinality(ND(w)) \in Nat
      /\ StateAuthBase * Cardinality(B) \in Nat
  <2> HIDE DEF ND
  <2>1. ND(v) \subseteq ND(w) \cup B
    BY DEF ND
  <2> QED  BY <1>1, <1>2, <1>3, <2>1
<1>6. \A x : Growth(x) = StateNewAccount * Cardinality(NA(x))
                           + StateAuthBase * Cardinality(ND(x)) + x.grown
  BY DEF Growth, NewAccounts, NewDelegations
<1> HIDE DEF NA, ND
<1> QED  BY <1>3, <1>4, <1>5, <1>6

(* Worlds in which the same accounts are there have the same growth.       *)
LEMMA GrowthSame ==
    ASSUME NEW w \in World, NEW v \in World, v.grown = w.grown,
           \A a \in Accounts \ {Coinbase} :
              account_info_empty(v, a) <=> account_info_empty(w, a),
           \A a \in Accounts : v.code[a] = w.code[a]
    PROVE  Growth(v) = Growth(w)
<1>1. NewAccounts(v) = NewAccounts(w) /\ NewDelegations(v) = NewDelegations(w)
  BY DEF NewAccounts, NewDelegations
<1> QED  BY <1>1 DEF Growth, NewAccounts, NewDelegations

(* What was burned is a number.                                            *)
LEMMA BurnedFacts ==
    ASSUME TypeOK
    PROVE  Burned \in Nat
<1>1. PICK u \in Nat, b \in Nat : u = usage.receipts /\ b = blob_gas
  BY DEF TypeOK
<1> QED  BY <1>1, Numbers DEF Burned

(* The upfront effects: debit, nonce, and the frame with its pools.        *)
LEMMA UpfrontKeeps ==
    ASSUME TransactionInv, apply_transaction_upfront_effects,
           UNCHANGED fork, charged' = world'
    PROVE  TransactionInv'
<1> USE DEF TransactionInv
<1>1. /\ phase = "validated" /\ phase' = "upfront"
      /\ world' = Debited(tx) /\ frame' = enter_transaction_frame(tx)
      /\ context' = [NoContext EXCEPT
                       !.target_empty = /\ fork >= Amsterdam
                                        /\ tx.is_create
                                        /\ account_info_empty(world, tx.target)]
      /\ UNCHANGED <<count, tx, scopes, result, usage, blob_gas>>
  BY DEF apply_transaction_upfront_effects
<1>2. /\ tx \in Transactions[fork] /\ ValidButForFloor(tx)
      /\ tx.intrinsic <= Regular(tx)
  BY <1>1 DEF AdmittedOK
<1>3. world \in World /\ world' \in World
  BY <1>1, <1>2, DebitedFacts DEF TypeOK
<1>4. /\ context' \in Context /\ context'.state_gas = 0
      /\ context'.set = {} /\ context'.seen = {} /\ context'.originally = {}
      /\ context'.target_empty <=> (fork >= Amsterdam /\ tx.is_create
                                     /\ account_info_empty(world, tx.target))
  <2>1. /\ NoContext \in Context /\ NoContext.state_gas = 0
        /\ NoContext.set = {} /\ NoContext.seen = {} /\ NoContext.originally = {}
    BY DEF NoContext, Context
  <2>2. PICK e \in BOOLEAN : e = (fork >= Amsterdam /\ tx.is_create
                                   /\ account_info_empty(world, tx.target))
    OBVIOUS
  <2>3. context' = [NoContext EXCEPT !.target_empty = e]
    BY <1>1, <2>2
  <2>4. /\ context' \in Context /\ context'.state_gas = 0
        /\ context'.set = {} /\ context'.seen = {} /\ context'.originally = {}
        /\ context'.target_empty = e
    BY <2>1, <2>3 DEF Context
  <2> QED  BY <2>2, <2>4
<1>5. /\ frame' \in Frame /\ frame'.status = "Running"
      /\ frame'.gas = Regular(tx) - tx.intrinsic /\ frame'.spill = 0
      /\ frame'.state_gas = tx.gas_limit - Regular(tx)
      /\ frame'.reservoir = tx.gas_limit - Regular(tx)
  BY <1>1, <1>2, EntryFrame
<1>6. TypeOK'
  BY <1>1, <1>3, <1>4, <1>5 DEF TypeOK, OpenScopes, Phases
<1>7. AdmittedOK'
  BY <1>1 DEF AdmittedOK, InFlight, BlockHasRoom, FloorCovered, Regular,
         transaction_regular_limit
<1>8. FrameOK'
  <2>1. Regular(tx)' = Regular(tx)
    BY <1>1 DEF Regular, transaction_regular_limit
  <2>2. Fits(frame, context.state_gas)'
    BY <1>1, <1>2, <1>4, <1>5, <2>1, TxFacts DEF Fits
  <2> QED  BY <1>1, <1>4, <1>5, <2>2 DEF FrameOK
<1>9. WorldsOK'
  <2>1. /\ tx'.value <= charged'.balance[tx'.sender]
        /\ world'.nonce[tx.sender] > 0
    <3>1. world'.nonce = [world.nonce EXCEPT ![tx.sender] = @ + 1]
      BY <1>1, <1>2, DebitedFacts
    <3>2. tx.sender \in Accounts /\ world.nonce \in [Accounts -> Nat]
      BY <1>2, <1>3, TxFacts, WorldFacts
    <3>3. world'.nonce[tx.sender] = world.nonce[tx.sender] + 1
          /\ world.nonce[tx.sender] \in Nat
      BY <3>1, <3>2
    <3>4. tx.value <= world'.balance[tx.sender]
      BY <1>1, <1>2, DebitedFacts
    <3>5. world'.nonce[tx.sender] > 0
      BY <3>3
    <3> QED  BY <1>1, <3>4, <3>5
  <2>2. AuthorizedOnly(world)'
    <3>1. \A a \in Accounts : world'.nonce[a] \in Nat
      BY <1>3, WorldFacts
    <3> QED  BY <3>1 DEF AuthorizedOnly
  <2> QED  BY <1>1, <2>1, <2>2 DEF WorldsOK, InFlight
<1>10. EtherOK'
  <2>1. SumFunction(world'.balance) + eff_gas_price(tx) * tx.gas_limit
          + BlobPrice * tx.blobs = SumFunction(world.balance)
    BY <1>1, <1>2, DebitedFacts
  <2>2. /\ SumFunction(world.balance) + Burned = SumFunction(InitialWorld.balance)
        /\ Burned' = Burned
    BY <1>1 DEF EtherOK, Burned
  <2>3. eff_gas_price(tx)' = eff_gas_price(tx)
    BY <1>1 DEF eff_gas_price
  <2>4. SumFunction(world'.balance) + eff_gas_price(tx) * tx.gas_limit
          + BlobPrice * tx.blobs + Burned = SumFunction(InitialWorld.balance)
    <3>1. PICK g \in Nat, p \in Nat :
            g = eff_gas_price(tx) * tx.gas_limit /\ p = BlobPrice * tx.blobs
      BY <1>2, UpfrontCovered
    <3>2. /\ SumFunction(world'.balance) \in Int /\ SumFunction(world.balance) \in Int
          /\ Burned \in Int
      BY <1>3, BalanceSum, BurnedFacts
    <3> QED  BY <2>1, <2>2, <3>1, <3>2
  <2> QED  BY <1>1, <2>2, <2>3, <2>4 DEF EtherOK, InFlight
<1>11. TrackerOK'
  <2>1. frame_state_gas_used(frame)' = 0
    BY <1>2, <1>5, TxFacts DEF frame_state_gas_used
  <2> QED  BY <1>1, <1>4, <2>1 DEF TrackerOK
<1>12. GrowthOK'
  <2> SUFFICES ASSUME BaseFee > 0, fork >= Amsterdam PROVE GrowthOK'
    BY DEF GrowthOK
  <2>1. /\ world'.code = world.code /\ world'.grown = world.grown
        /\ world'.nonce = [world.nonce EXCEPT ![tx.sender] = @ + 1]
        /\ \A a \in Accounts \ {tx.sender} : world'.balance[a] = world.balance[a]
    BY <1>1, <1>2, DebitedFacts
  <2>2. tx.sender \in Accounts /\ world.balance[tx.sender] > 0
    BY <1>2, UpfrontCovered, TxFacts
  <2>3. world.nonce \in [Accounts -> Nat]
    BY <1>3 DEF World
  <2>4. \A a \in Accounts \ {tx.sender} :
           account_info_empty(world', a) <=> account_info_empty(world, a)
    BY <2>1, <2>3 DEF account_info_empty
  <2>5. ~account_info_empty(world', tx.sender) /\ ~account_info_empty(world, tx.sender)
    <3>1. world'.nonce[tx.sender] = world.nonce[tx.sender] + 1
          /\ world.nonce[tx.sender] \in Nat
      BY <2>1, <2>2, <2>3
    <3> QED  BY <2>2, <3>1 DEF account_info_empty
  <2>6. Growth(world') = Growth(world)
    BY <1>3, <2>1, <2>4, <2>5, GrowthSame
  <2>7. usage.state >= Growth(world)
    BY <1>1 DEF GrowthOK
  <2>8. tx.is_create => (context'.target_empty <=> account_info_empty(world', tx.target))
    <3>1. tx.is_create => tx.target \in Accounts \ {tx.sender}
      BY <1>2, TxFacts
    <3> QED  BY <1>4, <2>4, <3>1
  <2>9. Growth(world)' = Growth(world') /\ Growth(charged)' = Growth(world')
    BY DEF Growth, account_info_empty
  <2>10. account_info_empty(world, tx.target)' = account_info_empty(world', tx.target)
    BY <1>1 DEF account_info_empty
  <2> QED  BY <1>1, <2>6, <2>7, <2>8, <2>9, <2>10 DEF GrowthOK, InFlight
<1>13. FatalOK' /\ BlockWithinLimits'
  BY <1>1 DEF FatalOK, BlockWithinLimits
<1> QED  BY <1>6, <1>7, <1>8, <1>9, <1>10, <1>11, <1>12, <1>13

-----------------------------------------------------------------------------
(* What no step of a transaction in flight touches before it is settled.   *)
LEMMA AdmittedKept ==
    ASSUME AdmittedOK, BlockWithinLimits, phase \in InFlight, phase' # "validated",
           UNCHANGED <<fork, count, tx, usage, blob_gas>>
    PROVE  AdmittedOK' /\ BlockWithinLimits'
<1>1. Regular(tx)' = Regular(tx)
  BY DEF Regular, transaction_regular_limit
<1>2. BlockHasRoom(tx)' = BlockHasRoom(tx) /\ FloorCovered(tx)' = FloorCovered(tx)
  BY <1>1 DEF BlockHasRoom, FloorCovered
<1>3. AdmittedOK'
  BY <1>1, <1>2 DEF AdmittedOK
<1> QED  BY <1>3 DEF BlockWithinLimits

(* No step in flight burns ether.                                          *)
LEMMA EtherKept ==
    ASSUME EtherOK, phase \in InFlight, phase' \notin {"idle", "validated", "done"},
           UNCHANGED <<tx, usage, blob_gas, charged>>,
           SumFunction(world'.balance) = SumFunction(charged.balance)
    PROVE  EtherOK'
<1>1. Burned' = Burned /\ eff_gas_price(tx)' = eff_gas_price(tx)
  BY DEF Burned, eff_gas_price
<1> QED  BY <1>1 DEF EtherOK

(* The authorization under the cursor, and the world it makes.             *)
LEMMA CursorFacts ==
    ASSUME TypeOK, tx \in Transactions[fork], ~AuthsDone
    PROVE  /\ Cursor \in Authorization
           /\ Cursor.authority \in Authorities
           /\ Cursor.authority \in Accounts
<1>1. tx.auths \in Seq(Authorization) /\ context.next \in Nat /\ context.next > 0
  BY TxFacts DEF TypeOK, Context
<1>2. context.next \in DOMAIN tx.auths
  BY <1>1 DEF AuthsDone
<1>3. Cursor \in Authorization
  BY <1>1, <1>2 DEF Cursor
<1> QED  BY <1>2, <1>3 DEF Cursor, Authorities, Authorization

(* The world an applied authorization makes.                               *)
LEMMA DelegatedFacts ==
    ASSUME TypeOK, NEW au \in Authorization
    PROVE  /\ Delegated(au) \in World
           /\ Delegated(au).balance = world.balance
           /\ Delegated(au).grown = world.grown
           /\ Delegated(au).nonce[au.authority] = world.nonce[au.authority] + 1
           /\ Delegated(au).nonce[au.authority] > 0
           /\ Delegated(au).code[au.authority] = IF au.clears THEN "empty" ELSE "delegated"
           /\ \A a \in Accounts \ {au.authority} :
                 /\ Delegated(au).nonce[a] = world.nonce[a]
                 /\ Delegated(au).code[a] = world.code[a]
<1>1. world \in World /\ au.authority \in Accounts
  BY DEF TypeOK, Authorization
<1>2. PICK c \in Codes : c = IF au.clears THEN "empty" ELSE "delegated"
  BY DEF Codes
<1> DEFINE nc == [world.code EXCEPT ![au.authority] = c]
           nn == [world.nonce EXCEPT ![au.authority] = @ + 1]
<1>3. /\ world.nonce \in [Accounts -> Nat] /\ world.code \in [Accounts -> Codes]
  BY <1>1 DEF World
<1>4. /\ nc \in [Accounts -> Codes] /\ nc[au.authority] = c
      /\ \A a \in Accounts \ {au.authority} : nc[a] = world.code[a]
  BY <1>1, <1>3
<1>5. /\ nn \in [Accounts -> Nat]
      /\ nn[au.authority] = world.nonce[au.authority] + 1 /\ nn[au.authority] > 0
      /\ \A a \in Accounts \ {au.authority} : nn[a] = world.nonce[a]
  BY <1>1, <1>3
<1>6. Delegated(au) = [world EXCEPT !.code = nc, !.nonce = nn]
  BY <1>1, <1>2 DEF Delegated, World
<1> HIDE DEF nc, nn
<1>7. PICK w : w = Delegated(au)
  OBVIOUS
<1>8. /\ w \in World /\ w.balance = world.balance /\ w.grown = world.grown
      /\ w.code = nc /\ w.nonce = nn
  BY <1>1, <1>4, <1>5, <1>6, <1>7 DEF World
<1> QED  BY <1>2, <1>4, <1>5, <1>7, <1>8

(* An authorization keeps the world within what authorizations may do.     *)
LEMMA AuthorizationKeeps ==
    ASSUME TypeOK, tx \in Transactions[fork], ~AuthsDone, AuthorizedOnly(world),
           charged.nonce[tx.sender] > 0,
           UNCHANGED <<tx, charged>>, world' = Delegated(Cursor)
    PROVE  AuthorizedOnly(world)' /\ world'.nonce[tx.sender] > 0
<1>1. PICK au \in Authorization : au = Cursor
  BY CursorFacts
<1>2. au.authority \in Authorities /\ au.authority \in Accounts /\ tx.sender \in Accounts
  BY <1>1, CursorFacts, TxFacts
<1>3. \A a \in Accounts : world.nonce[a] \in Nat /\ charged.nonce[a] \in Nat
  BY WorldFacts DEF TypeOK
<1>4. /\ world'.balance = charged.balance /\ world'.grown = charged.grown
  BY <1>1, DelegatedFacts DEF AuthorizedOnly
<1>5. /\ world'.nonce[au.authority] = world.nonce[au.authority] + 1
      /\ \A a \in Accounts \ {au.authority} :
            world'.nonce[a] = world.nonce[a] /\ world'.code[a] = world.code[a]
  BY <1>1, DelegatedFacts
<1>6. /\ \A a \in Accounts : world.nonce[a] >= charged.nonce[a]
      /\ \A a \in Accounts \ Authorities :
            world.code[a] = charged.code[a] /\ world.nonce[a] = charged.nonce[a]
  BY DEF AuthorizedOnly
<1>7. \A a \in Accounts : world'.nonce[a] >= charged.nonce[a]
  BY <1>3, <1>5, <1>6
<1>8. \A a \in Accounts \ Authorities :
         world'.code[a] = charged.code[a] /\ world'.nonce[a] = charged.nonce[a]
  BY <1>2, <1>5, <1>6
<1>9. Authorities' = Authorities
  BY DEF Authorities
<1>10. world'.nonce[tx.sender] > 0
  <2>1. PICK n \in Nat, m \in Nat : n = charged.nonce[tx.sender] /\ m = world.nonce[tx.sender]
    BY <1>2, <1>3
  <2>2. m >= n /\ n > 0
    BY <1>2, <1>6, <2>1
  <2>3. world'.nonce[tx.sender] = m \/ world'.nonce[tx.sender] = m + 1
    BY <1>2, <1>5, <2>1
  <2> QED  BY <2>1, <2>2, <2>3
<1> QED  BY <1>4, <1>7, <1>8, <1>9, <1>10 DEF AuthorizedOnly

(* An authorization before Amsterdam.                                      *)
LEMMA LegacyAuthKeeps ==
    ASSUME TransactionInv, process_auth, UNCHANGED <<fork, charged>>
    PROVE  TransactionInv'
<1> USE DEF TransactionInv
<1>1. /\ phase = "upfront" /\ phase' = "upfront" /\ fork < Amsterdam /\ ~AuthsDone
      /\ UNCHANGED <<count, tx, frame, scopes, result, usage, blob_gas>>
  BY DEF process_auth
<1>2. tx \in Transactions[fork] /\ fork \in Int /\ ~(fork >= Amsterdam)
  BY <1>1, ForkFacts DEF AdmittedOK, InFlight, Amsterdam
<1>3. PICK au \in Authorization : au = Cursor
  BY <1>2, <1>1, CursorFacts
<1>4. \/ world' = Delegated(au) \/ world' = world
  BY <1>3 DEF process_auth
<1>5. context' \in Context /\ context'.state_gas = context.state_gas
  <2>1. PICK r \in Nat : \/ context' = [context EXCEPT !.next = @ + 1, !.refund = @ + r]
                         \/ context' = [context EXCEPT !.next = @ + 1]
    <3>1. PICK r \in Nat : r = IF account_info_empty(world, au.authority) THEN 0 ELSE AuthRefund
      BY Numbers
    <3> QED  BY <1>3, <3>1 DEF process_auth
  <2>2. context \in Context
    BY DEF TypeOK
  <2>3. context.next + 1 \in Nat \ {0} /\ context.refund + r \in Nat
    BY <2>2, ContextFacts
  <2> QED  BY <2>1, <2>2, <2>3 DEF Context
<1>6. /\ AuthorizedOnly(world) /\ charged.nonce[tx.sender] > 0
      /\ tx.value <= charged.balance[tx.sender] /\ world.nonce[tx.sender] > 0
  BY <1>1 DEF WorldsOK, InFlight
<1>7. AuthorizedOnly(world)' /\ world'.nonce[tx.sender] > 0
  <2>1. CASE world' = world
    BY <2>1, <1>1, <1>6 DEF AuthorizedOnly, Authorities
  <2>2. CASE world' = Delegated(Cursor)
    BY <2>2, <1>1, <1>2, <1>6, AuthorizationKeeps
  <2> QED  BY <1>3, <1>4, <2>1, <2>2
<1>8. world' \in World
  BY <1>4, DelegatedFacts DEF TypeOK
<1>9. TypeOK'
  BY <1>1, <1>5, <1>8 DEF TypeOK, OpenScopes
<1>10. AdmittedOK' /\ BlockWithinLimits'
  BY <1>1, AdmittedKept DEF InFlight
<1>11. FrameOK'
  BY <1>1, <1>5 DEF FrameOK, Fits, Regular, transaction_regular_limit
<1>12. WorldsOK'
  BY <1>1, <1>6, <1>7 DEF WorldsOK, InFlight
<1>13. EtherOK'
  <2>1. world'.balance = charged.balance
    BY <1>7 DEF AuthorizedOnly
  <2> QED  BY <1>1, <2>1, EtherKept DEF InFlight
<1>14. TrackerOK' /\ GrowthOK' /\ FatalOK'
  BY <1>1, <1>2 DEF TrackerOK, GrowthOK, FatalOK
<1> QED  BY <1>9, <1>10, <1>11, <1>12, <1>13, <1>14

(* The one scope of a frame before Amsterdam is opened.                    *)
LEMMA LegacyEntryKeeps ==
    ASSUME TransactionInv, enter_legacy_frame, UNCHANGED <<fork, charged>>
    PROVE  TransactionInv'
<1> USE DEF TransactionInv
<1>1. /\ phase = "upfront" /\ phase' = "frame" /\ fork < Amsterdam /\ AuthsDone
      /\ scopes' = Append(scopes, world)
      /\ UNCHANGED <<count, tx, frame, context, world, result, usage, blob_gas>>
  BY DEF enter_legacy_frame
<1>2. tx \in Transactions[fork] /\ fork \in Int /\ ~(fork >= Amsterdam)
  BY <1>1, ForkFacts DEF AdmittedOK, InFlight, Amsterdam
<1>3. scopes' \in Seq(World) /\ Len(scopes') = 1 /\ scopes'[Len(scopes')] = world
  <2>1. scopes \in Seq(World) /\ Len(scopes) = 0 /\ world \in World
    BY <1>1 DEF TypeOK, OpenScopes
  <2> QED  BY <1>1, <2>1, PushFacts
<1>4. TypeOK'
  BY <1>1, <1>2, <1>3 DEF TypeOK, OpenScopes, Phases
<1>5. AdmittedOK' /\ BlockWithinLimits'
  BY <1>1, AdmittedKept DEF InFlight
<1>6. FrameOK'
  BY <1>1 DEF FrameOK, Fits, Regular, transaction_regular_limit, AuthsDone
<1>7. WorldsOK'
  <2>1. AuthorizedOnly(world) /\ AuthorizedOnly(world)'
    BY <1>1 DEF WorldsOK, AuthorizedOnly, Authorities
  <2>2. AuthorizedOnly(scopes[Len(scopes)])'
    BY <1>1, <1>3, <2>1 DEF AuthorizedOnly
  <2> QED  BY <1>1, <1>3, <2>1, <2>2 DEF WorldsOK, InFlight
<1>8. EtherOK'
  <2>1. SumFunction(world'.balance) = SumFunction(charged.balance)
    BY <1>1 DEF EtherOK, InFlight
  <2> QED  BY <1>1, <2>1, EtherKept DEF InFlight
<1>9. TrackerOK' /\ GrowthOK' /\ FatalOK'
  BY <1>1, <1>2 DEF TrackerOK, GrowthOK, FatalOK
<1> QED  BY <1>4, <1>5, <1>6, <1>7, <1>8, <1>9

(* The preparation scope of Amsterdam is opened.                           *)
LEMMA PreparationKeeps ==
    ASSUME TransactionInv, begin_preparation, UNCHANGED <<fork, charged>>
    PROVE  TransactionInv'
<1> USE DEF TransactionInv
<1>1. /\ phase = "upfront" /\ phase' = "authorizing" /\ fork >= Amsterdam
      /\ scopes' = Append(scopes, world)
      /\ UNCHANGED <<count, tx, frame, context, world, result, usage, blob_gas>>
  BY DEF begin_preparation
<1>2. tx \in Transactions[fork]
  BY <1>1 DEF AdmittedOK, InFlight
<1>3. /\ world = charged /\ context.set = {} /\ context.seen = {}
      /\ context.originally = {}
      /\ frame_state_gas_used(frame) = 0
  BY <1>1 DEF TrackerOK
<1>4. scopes' \in Seq(World) /\ Len(scopes') = 1 /\ scopes'[1] = world
  <2>1. scopes \in Seq(World) /\ Len(scopes) = 0 /\ world \in World
    BY <1>1 DEF TypeOK, OpenScopes
  <2> QED  BY <1>1, <2>1, PushFacts
<1>5. TypeOK'
  BY <1>1, <1>4 DEF TypeOK, OpenScopes, Phases
<1>6. AdmittedOK' /\ BlockWithinLimits'
  BY <1>1, AdmittedKept DEF InFlight
<1>7. FrameOK'
  BY <1>1 DEF FrameOK, Fits, Regular, transaction_regular_limit
<1>8. WorldsOK'
  <2>1. AuthorizedOnly(world) /\ AuthorizedOnly(world)'
    BY <1>1 DEF WorldsOK, AuthorizedOnly, Authorities
  <2> QED  BY <1>1, <1>3, <1>4, <2>1 DEF WorldsOK, InFlight
<1>9. EtherOK'
  <2>1. SumFunction(world'.balance) = SumFunction(charged.balance)
    BY <1>1 DEF EtherOK, InFlight
  <2> QED  BY <1>1, <2>1, EtherKept DEF InFlight
<1>10. TrackerOK'
  <2>1. AuthorizationPrice(world)' = 0
    <3>1. {a \in Accounts : account_info_empty(charged', a)
                            /\ ~account_info_empty(world', a)} = {}
      BY <1>1, <1>3
    <3>2. {a \in context'.set : charged'.code[a] # "delegated"} = {}
      BY <1>1, <1>3
    <3>3. Cardinality({}) = 0
      BY FS_EmptySet
    <3>4. AuthorizationPrice(world)' = StateNewAccount * 0 + StateAuthBase * 0
      BY <3>1, <3>2, <3>3 DEF AuthorizationPrice, account_info_empty
    <3>5. StateNewAccount * 0 + StateAuthBase * 0 = 0
      BY Numbers
    <3> QED  BY <3>4, <3>5
  <2>2. frame_state_gas_used(frame)' = 0
    BY <1>1, <1>3 DEF frame_state_gas_used
  <2> QED  BY <1>1, <1>3, <2>1, <2>2 DEF TrackerOK
<1>11. GrowthOK' /\ FatalOK'
  BY <1>1 DEF GrowthOK, FatalOK, InFlight, Growth, account_info_empty
<1> QED  BY <1>5, <1>6, <1>7, <1>8, <1>9, <1>10, <1>11

(* Frame g is the running frame f after n units of state gas were charged, *)
(* and perhaps some execution gas.                                         *)
ChargedBy(f, g, n) ==
    /\ f.status = "Running"
    /\ g.reservoir = f.reservoir
    /\ g.gas + g.spill <= f.gas + f.spill
    /\ frame_state_gas_used(g) = frame_state_gas_used(f) + n

(* A frame that cannot pay.                                                *)
LEMMA ExhaustedFacts ==
    ASSUME NEW f \in Frame
    PROVE  Exhausted(f) \in Frame /\ Exhausted(f).status = "Exceptional"
<1>1. PICK g : g = Exhausted(f)
  OBVIOUS
<1>2. g = [f EXCEPT !.gas = 0, !.status = "Exceptional"]
  BY <1>1 DEF Exhausted
<1>3. g \in Frame /\ g.status = "Exceptional"
  BY <1>2 DEF Frame, Statuses
<1> QED  BY <1>1, <1>3

(* A charge of state gas.                                                  *)
LEMMA ChargeStateFacts ==
    ASSUME NEW f \in Frame, NEW n \in Nat, f.status \in {"Running", "Exceptional"}
    PROVE  /\ ChargeState(f, n) \in Frame
           /\ ChargeState(f, n).status \in {"Running", "Exceptional"}
           /\ ChargeState(f, n).status = "Running" => ChargedBy(f, ChargeState(f, n), n)
<1>1. CASE f.status = "Exceptional" \/ state_gas_halt(f, n)
  <2>1. ChargeState(f, n) = Exhausted(f)
    BY <1>1 DEF ChargeState
  <2> QED  BY <2>1, ExhaustedFacts
<1>2. CASE ~(f.status = "Exceptional" \/ state_gas_halt(f, n))
  <2>1. PICK x \in Nat, s \in Nat, p \in Nat, r \in Nat :
          x = f.gas /\ s = f.state_gas /\ p = f.spill /\ r = f.reservoir
    BY FrameFacts
  <2>2. n <= s + x /\ f.status = "Running"
    BY <1>2, <2>1 DEF state_gas_halt
  <2>3. PICK t \in Nat : t = IF n <= s THEN n ELSE s
    OBVIOUS
  <2>4. s - t \in Nat /\ x - (n - t) \in Nat /\ p + (n - t) \in Nat
    BY <2>2, <2>3
  <2>5. PICK g : g = ChargeState(f, n)
    OBVIOUS
  <2>6. g = [f EXCEPT !.state_gas = s - t, !.gas = x - (n - t), !.spill = p + (n - t)]
    BY <1>2, <2>1, <2>3, <2>5 DEF ChargeState, charge_state_gas
  <2>7. /\ g \in Frame /\ g.status = "Running" /\ g.reservoir = r
        /\ g.state_gas = s - t /\ g.gas = x - (n - t) /\ g.spill = p + (n - t)
    BY <2>1, <2>2, <2>4, <2>6 DEF Frame
  <2>8. frame_state_gas_used(g) = frame_state_gas_used(f) + n
    BY <2>1, <2>3, <2>7 DEF frame_state_gas_used
  <2>9. g.gas + g.spill <= f.gas + f.spill
    BY <2>1, <2>3, <2>7
  <2> QED  BY <2>1, <2>2, <2>5, <2>7, <2>8, <2>9 DEF ChargedBy
<1> QED  BY <1>1, <1>2

(* A charge of execution gas.                                              *)
LEMMA ChargeExecutionFacts ==
    ASSUME NEW f \in Frame, NEW n \in Nat, f.status \in {"Running", "Exceptional"}
    PROVE  /\ ChargeExecution(f, n) \in Frame
           /\ ChargeExecution(f, n).status \in {"Running", "Exceptional"}
           /\ ChargeExecution(f, n).status = "Running" => ChargedBy(f, ChargeExecution(f, n), 0)
<1>1. CASE f.status = "Exceptional" \/ f.gas < n
  <2>1. ChargeExecution(f, n) = Exhausted(f)
    BY <1>1 DEF ChargeExecution
  <2> QED  BY <2>1, ExhaustedFacts
<1>2. CASE ~(f.status = "Exceptional" \/ f.gas < n)
  <2>1. PICK x \in Nat, s \in Nat, p \in Nat, r \in Nat :
          x = f.gas /\ s = f.state_gas /\ p = f.spill /\ r = f.reservoir
    BY FrameFacts
  <2>2. x - n \in Nat /\ f.status = "Running"
    BY <1>2, <2>1
  <2>3. PICK g : g = ChargeExecution(f, n)
    OBVIOUS
  <2>4. g = [f EXCEPT !.gas = x - n]
    BY <1>2, <2>1, <2>3 DEF ChargeExecution
  <2>5. /\ g \in Frame /\ g.status = "Running" /\ g.reservoir = r
        /\ g.state_gas = s /\ g.gas = x - n /\ g.spill = p
    BY <2>1, <2>2, <2>4 DEF Frame
  <2>6. frame_state_gas_used(g) = frame_state_gas_used(f) + 0
    BY <2>1, <2>5 DEF frame_state_gas_used
  <2>7. g.gas + g.spill <= f.gas + f.spill
    BY <2>1, <2>5
  <2> QED  BY <2>1, <2>2, <2>3, <2>5, <2>6, <2>7 DEF ChargedBy
<1> QED  BY <1>1, <1>2

(* Two charges add up.                                                     *)
LEMMA ChargedTwice ==
    ASSUME NEW f \in Frame, NEW g \in Frame, NEW h \in Frame,
           NEW n \in Nat, NEW m \in Nat, ChargedBy(f, g, n), ChargedBy(g, h, m)
    PROVE  ChargedBy(f, h, n + m)
<1>1. PICK a \in Int, b \in Int, c \in Int :
        /\ a = frame_state_gas_used(f) /\ b = frame_state_gas_used(g)
        /\ c = frame_state_gas_used(h)
  BY UsedType
<1>2. c = a + (n + m)
  <2>1. b = a + n
    BY <1>1 DEF ChargedBy
  <2>2. c = b + m
    BY <1>1 DEF ChargedBy
  <2> QED  BY <2>1, <2>2
<1>3. PICK x \in Nat, y \in Nat, z \in Nat :
        x = f.gas + f.spill /\ y = g.gas + g.spill /\ z = h.gas + h.spill
  BY FrameFacts
<1>4. z <= x
  BY <1>3 DEF ChargedBy
<1> QED  BY <1>1, <1>2, <1>3, <1>4 DEF ChargedBy

(* Charges leave a frame within the limits of the transaction.             *)
LEMMA ChargedFits ==
    ASSUME TypeOK, tx \in Transactions[fork],
           NEW f \in Frame, NEW g \in Frame, NEW n \in Nat, NEW base \in Nat,
           Fits(f, base), ChargedBy(f, g, n)
    PROVE  Fits(g, base)
<1>1. PICK x \in Nat, s \in Nat, p \in Nat, r \in Nat :
        x = f.gas /\ s = f.state_gas /\ p = f.spill /\ r = f.reservoir
  BY FrameFacts
<1>2. PICK y \in Nat, u \in Nat, q \in Nat :
        y = g.gas /\ u = g.state_gas /\ q = g.spill
  BY FrameFacts
<1>3. PICK l \in Nat, k \in Nat : l = tx.gas_limit /\ k = Regular(tx)
  BY TxFacts
<1>4. x + p + r + base <= l /\ r + base >= l - k /\ s <= r + p
  BY <1>1, <1>3 DEF Fits
<1>5. g.reservoir = r /\ y + q <= x + p /\ r - u + q = r - s + p + n
  BY <1>1, <1>2 DEF ChargedBy, frame_state_gas_used
<1>6. y + q + r + base <= l /\ u <= r + q
  BY <1>4, <1>5
<1> QED  BY <1>2, <1>3, <1>4, <1>5, <1>6 DEF Fits

(* The three charges of an authorization.                                  *)
LEMMA AuthChargedFacts ==
    ASSUME TypeOK, NEW au \in Authorization, frame.status = "Running"
    PROVE  /\ AccountCharge(au) \in Nat /\ DelegationCharge(au) \in Nat
           /\ AuthCharged(au) \in Frame
           /\ AuthCharged(au).status \in {"Running", "Exceptional"}
           /\ AuthCharged(au).status = "Running" =>
                 ChargedBy(frame, AuthCharged(au), AccountCharge(au) + DelegationCharge(au))
<1>1. /\ AccountCharge(au) \in Nat /\ WriteCharge(au) \in Nat /\ DelegationCharge(au) \in Nat
  BY Numbers DEF AccountCharge, WriteCharge, DelegationCharge
<1>2. frame \in Frame
  BY DEF TypeOK
<1>3. PICK f : f = ChargeState(frame, AccountCharge(au))
  OBVIOUS
<1>4. /\ f \in Frame /\ f.status \in {"Running", "Exceptional"}
      /\ f.status = "Running" => ChargedBy(frame, f, AccountCharge(au))
  BY <1>1, <1>2, <1>3, ChargeStateFacts
<1>5. PICK g : g = ChargeExecution(f, WriteCharge(au))
  OBVIOUS
<1>6. /\ g \in Frame /\ g.status \in {"Running", "Exceptional"}
      /\ g.status = "Running" => ChargedBy(f, g, 0)
  BY <1>1, <1>4, <1>5, ChargeExecutionFacts
<1>7. PICK h : h = ChargeState(g, DelegationCharge(au))
  OBVIOUS
<1>8. /\ h \in Frame /\ h.status \in {"Running", "Exceptional"}
      /\ h.status = "Running" => ChargedBy(g, h, DelegationCharge(au))
  BY <1>1, <1>6, <1>7, ChargeStateFacts
<1>9. h = AuthCharged(au)
  BY <1>3, <1>5, <1>7 DEF AuthCharged
<1>10. ASSUME h.status = "Running"
       PROVE  ChargedBy(frame, h, AccountCharge(au) + DelegationCharge(au))
  <2>1. ChargedBy(g, h, DelegationCharge(au)) /\ g.status = "Running"
    BY <1>8, <1>10 DEF ChargedBy
  <2>2. ChargedBy(f, g, 0) /\ f.status = "Running"
    BY <1>6, <2>1 DEF ChargedBy
  <2>3. ChargedBy(frame, f, AccountCharge(au))
    BY <1>4, <2>2
  <2>4. ChargedBy(f, h, 0 + DelegationCharge(au))
    BY <1>1, <1>4, <1>6, <1>8, <2>1, <2>2, ChargedTwice
  <2>5. 0 + DelegationCharge(au) = DelegationCharge(au)
    BY <1>1
  <2>6. ChargedBy(f, h, DelegationCharge(au))
    BY <2>4, <2>5
  <2> QED  BY <1>1, <1>2, <1>4, <1>8, <2>3, <2>6, ChargedTwice
<1> QED  BY <1>1, <1>8, <1>9, <1>10

(* The accounts and the delegations the authorizations have added.         *)
AddedAccounts(w) == {a \in Accounts : account_info_empty(charged, a)
                                      /\ ~account_info_empty(w, a)}
AddedDelegations(c) == {a \in c.set : charged.code[a] # "delegated"}

(* A set with one more member costs one price more.                        *)
LEMMA OneMore ==
    ASSUME NEW S \in SUBSET Accounts, NEW a \in Accounts, a \notin S, NEW p \in Nat
    PROVE  /\ Cardinality(S) \in Nat
           /\ p * Cardinality(S \cup {a}) = p * Cardinality(S) + p
<1>1. IsFiniteSet(S)
  BY Numbers, FS_Subset
<1>2. Cardinality(S) \in Nat
  BY <1>1, FS_CardinalityType
<1>3. Cardinality(S \cup {a}) = Cardinality(S) + 1
  BY <1>1, FS_AddElement
<1>4. PICK n \in Nat : n = Cardinality(S)
  BY <1>2
<1>5. p * (n + 1) = p * n + p
  OBVIOUS
<1> QED  BY <1>2, <1>3, <1>4, <1>5

(* The tracker clause on the accounts, for a world and a context.          *)
Tracks(w, c) ==
    /\ c.set \cup c.originally \subseteq c.seen
    /\ \A a \in Accounts :
          /\ a \in c.seen =>
                /\ w.nonce[a] > 0
                /\ a \in c.originally <=> charged.code[a] = "delegated"
          /\ a \notin c.seen =>
                w.code[a] = charged.code[a] /\ w.nonce[a] = charged.nonce[a]
          /\ w.code[a] = "delegated" => charged.code[a] = "delegated" \/ a \in c.set

(* The context authorization_tracker_commit leaves.                        *)
LEMMA TrackedFacts ==
    ASSUME TypeOK, NEW au \in Authorization
    PROVE  /\ Tracked(au) \in Context
           /\ Tracked(au).state_gas = context.state_gas
           /\ Tracked(au).seen = context.seen \cup {au.authority}
           /\ Tracked(au).originally =
                 context.originally \cup (IF /\ au.authority \notin context.seen
                                             /\ world.code[au.authority] = "delegated"
                                          THEN {au.authority} ELSE {})
           /\ Tracked(au).set = context.set \cup (IF au.clears THEN {} ELSE {au.authority})
<1>1. context \in Context /\ au.authority \in Accounts
  BY DEF TypeOK, Authorization
<1>2. PICK o \in SUBSET Accounts :
        o = context.originally \cup (IF /\ au.authority \notin context.seen
                                        /\ world.code[au.authority] = "delegated"
                                     THEN {au.authority} ELSE {})
  BY <1>1 DEF Context
<1>3. PICK s \in SUBSET Accounts :
        s = context.set \cup (IF au.clears THEN {} ELSE {au.authority})
  BY <1>1 DEF Context
<1>4. PICK e \in SUBSET Accounts : e = context.seen \cup {au.authority}
  BY <1>1 DEF Context
<1>5. PICK n \in Nat \ {0} : n = context.next + 1
  BY <1>1 DEF Context
<1>6. PICK c : c = Tracked(au)
  OBVIOUS
<1>7. c = [context EXCEPT !.next = n, !.seen = e, !.originally = o, !.set = s]
  BY <1>2, <1>3, <1>4, <1>5, <1>6 DEF Tracked
<1>8. c \in Context /\ c.state_gas = context.state_gas /\ c.seen = e
      /\ c.originally = o /\ c.set = s
  BY <1>1, <1>7 DEF Context
<1> QED  BY <1>2, <1>3, <1>4, <1>6, <1>8

(* The tracker follows an authorization that was applied, and the charges  *)
(* are exactly the price of what it adds.                                  *)
LEMMA TrackerFollows ==
    ASSUME TypeOK, NEW au \in Authorization, AuthorizedOnly(world),
           Tracks(world, context)
    PROVE  /\ Tracks(Delegated(au), Tracked(au))
           /\ AddedAccounts(Delegated(au)) =
                 AddedAccounts(world) \cup (IF account_info_empty(world, au.authority)
                                            THEN {au.authority} ELSE {})
           /\ account_info_empty(world, au.authority) =>
                 au.authority \notin AddedAccounts(world)
           /\ AddedDelegations(Tracked(au)) =
                 AddedDelegations(context) \cup
                    (IF /\ ~au.clears /\ ~delegated_before_tx(au)
                        /\ au.authority \notin context.set
                     THEN {au.authority} ELSE {})
<1> DEFINE b == au.authority
           w == Delegated(au)
           c == Tracked(au)
<1>1. /\ b \in Accounts /\ context \in Context /\ world \in World /\ charged \in World
  BY DEF TypeOK, Authorization
<1>2. /\ w.balance = world.balance /\ w.nonce[b] > 0
      /\ w.code[b] = IF au.clears THEN "empty" ELSE "delegated"
      /\ \A a \in Accounts \ {b} : w.nonce[a] = world.nonce[a] /\ w.code[a] = world.code[a]
  BY DelegatedFacts
<1>3. /\ c.seen = context.seen \cup {b}
      /\ c.originally = context.originally \cup
                          (IF b \notin context.seen /\ world.code[b] = "delegated"
                           THEN {b} ELSE {})
      /\ c.set = context.set \cup (IF au.clears THEN {} ELSE {b})
  BY TrackedFacts
<1> HIDE DEF w, c
<1>4. Tracks(w, c)
  <2>1. c.set \cup c.originally \subseteq c.seen
    BY <1>3 DEF Tracks
  <2>2. ASSUME NEW a \in Accounts \ {b}
        PROVE  /\ a \in c.seen =>
                    /\ w.nonce[a] > 0
                    /\ a \in c.originally <=> charged.code[a] = "delegated"
               /\ a \notin c.seen =>
                     w.code[a] = charged.code[a] /\ w.nonce[a] = charged.nonce[a]
               /\ w.code[a] = "delegated" => charged.code[a] = "delegated" \/ a \in c.set
    <3>1. /\ a \in c.seen <=> a \in context.seen
          /\ a \in c.originally <=> a \in context.originally
          /\ a \in c.set <=> a \in context.set
      BY <1>3, <2>2
    <3>2. w.nonce[a] = world.nonce[a] /\ w.code[a] = world.code[a]
      BY <1>2, <2>2
    <3> QED  BY <3>1, <3>2, <2>2 DEF Tracks
  <2>3. /\ w.nonce[b] > 0
        /\ b \in c.originally <=> charged.code[b] = "delegated"
    <3>1. CASE b \in context.seen
      BY <3>1, <1>1, <1>2, <1>3 DEF Tracks
    <3>2. CASE b \notin context.seen
      <4>1. world.code[b] = charged.code[b] /\ b \notin context.originally
        BY <3>2, <1>1 DEF Tracks
      <4> QED  BY <4>1, <3>2, <1>2, <1>3
    <3> QED  BY <3>1, <3>2
  <2>4. w.code[b] = "delegated" => b \in c.set
    BY <1>2, <1>3
  <2>5. b \in c.seen
    BY <1>3
  <2> QED  BY <2>1, <2>2, <2>3, <2>4, <2>5 DEF Tracks
<1>5. /\ \A a \in Accounts \ {b} : account_info_empty(w, a) <=> account_info_empty(world, a)
      /\ ~account_info_empty(w, b)
  BY <1>1, <1>2 DEF account_info_empty
<1>6. account_info_empty(world, b) => account_info_empty(charged, b)
  <2>1. world.balance = charged.balance
    BY DEF AuthorizedOnly
  <2>2. b \in context.seen => world.nonce[b] > 0
    BY <1>1 DEF Tracks
  <2>3. b \notin context.seen =>
           world.code[b] = charged.code[b] /\ world.nonce[b] = charged.nonce[b]
    BY <1>1 DEF Tracks
  <2> QED  BY <2>1, <2>2, <2>3 DEF account_info_empty
<1>7. AddedAccounts(w) = AddedAccounts(world) \cup
                           (IF account_info_empty(world, b) THEN {b} ELSE {})
  BY <1>1, <1>5, <1>6 DEF AddedAccounts
<1>8. delegated_before_tx(au) <=> charged.code[b] = "delegated"
  <2>1. CASE b \in context.seen
    BY <2>1, <1>1 DEF delegated_before_tx, Tracks
  <2>2. CASE b \notin context.seen
    BY <2>2, <1>1 DEF delegated_before_tx, Tracks
  <2> QED  BY <2>1, <2>2
<1>9. AddedDelegations(c) = AddedDelegations(context) \cup
                              (IF /\ ~au.clears /\ ~delegated_before_tx(au)
                                  /\ b \notin context.set
                               THEN {b} ELSE {})
  BY <1>3, <1>8 DEF AddedDelegations
<1>10. account_info_empty(world, b) => b \notin AddedAccounts(world)
  BY DEF AddedAccounts
<1> QED  BY <1>4, <1>7, <1>9, <1>10 DEF w, c

(* The price of the authorizations grows by what this one was charged.     *)
LEMMA PriceFollows ==
    ASSUME TypeOK, NEW au \in Authorization, AuthorizedOnly(world),
           Tracks(world, context)
    PROVE  /\ AuthorizationPrice(world) \in Nat
           /\ StateNewAccount * Cardinality(AddedAccounts(Delegated(au)))
                + StateAuthBase * Cardinality(AddedDelegations(Tracked(au)))
              = AuthorizationPrice(world) + (AccountCharge(au) + DelegationCharge(au))
<1> DEFINE b == au.authority
           A == AddedAccounts(world)
           D == AddedDelegations(context)
           A1 == AddedAccounts(Delegated(au))
           D1 == AddedDelegations(Tracked(au))
<1>1. b \in Accounts /\ A \in SUBSET Accounts /\ D \in SUBSET Accounts
  BY DEF Authorization, AddedAccounts, AddedDelegations, TypeOK, Context
<1>2. StateNewAccount \in Nat /\ StateAuthBase \in Nat
  BY Numbers
<1>3. Cardinality(A) \in Nat /\ Cardinality(D) \in Nat
  <2> HIDE DEF A, D
  <2>1. IsFiniteSet(A) /\ IsFiniteSet(D)
    BY <1>1, Numbers, FS_Subset
  <2> QED  BY <2>1, FS_CardinalityType
<1>4. StateNewAccount * Cardinality(A1)
        = StateNewAccount * Cardinality(A) + AccountCharge(au)
  <2>1. CASE account_info_empty(world, b)
    <3>1. A1 = A \cup {b} /\ b \notin A
      BY <2>1, TrackerFollows
    <3>2. AccountCharge(au) = StateNewAccount
      BY <2>1 DEF AccountCharge
    <3> HIDE DEF A, A1, b
    <3> QED  BY <3>1, <3>2, <1>1, <1>2, OneMore DEF b
  <2>2. CASE ~account_info_empty(world, b)
    <3>1. A1 = A
      BY <2>2, TrackerFollows
    <3>2. AccountCharge(au) = 0
      BY <2>2 DEF AccountCharge
    <3> HIDE DEF A, A1, b
    <3> QED  BY <3>1, <3>2, <1>2, <1>3
  <2> QED  BY <2>1, <2>2
<1>5. StateAuthBase * Cardinality(D1)
        = StateAuthBase * Cardinality(D) + DelegationCharge(au)
  <2>1. CASE ~au.clears /\ ~delegated_before_tx(au) /\ b \notin context.set
    <3>1. D1 = D \cup {b} /\ b \notin D
      BY <2>1, TrackerFollows DEF AddedDelegations
    <3>2. DelegationCharge(au) = StateAuthBase
      BY <2>1 DEF DelegationCharge
    <3> HIDE DEF D, D1, b
    <3> QED  BY <3>1, <3>2, <1>1, <1>2, OneMore DEF b
  <2>2. CASE ~(~au.clears /\ ~delegated_before_tx(au) /\ b \notin context.set)
    <3>1. D1 = D
      BY <2>2, TrackerFollows
    <3>2. DelegationCharge(au) = 0
      BY <2>2 DEF DelegationCharge
    <3> HIDE DEF D, D1, b
    <3> QED  BY <3>1, <3>2, <1>2, <1>3
  <2> QED  BY <2>1, <2>2
<1>6. AuthorizationPrice(world) = StateNewAccount * Cardinality(A) + StateAuthBase * Cardinality(D)
  BY DEF AuthorizationPrice, AddedAccounts, AddedDelegations
<1>7. AccountCharge(au) \in Nat /\ DelegationCharge(au) \in Nat
  BY Numbers DEF AccountCharge, DelegationCharge
<1>8. PICK x \in Nat, y \in Nat :
        x = StateNewAccount * Cardinality(A) /\ y = StateAuthBase * Cardinality(D)
  <2> HIDE DEF A, D
  <2> QED  BY <1>2, <1>3
<1> HIDE DEF A, D, A1, D1
<1> QED  BY <1>4, <1>5, <1>6, <1>7, <1>8 DEF A1, D1

(* An authorization from Amsterdam on: skipped, unpaid or applied.         *)
LEMMA AmsterdamAuthKeeps ==
    ASSUME TransactionInv, process_amsterdam_auth, UNCHANGED <<fork, charged>>
    PROVE  TransactionInv'
<1> USE DEF TransactionInv
<1>1. /\ phase = "authorizing" /\ phase' = "authorizing" /\ ~AuthsDone
      /\ frame.status = "Running"
      /\ UNCHANGED <<count, tx, scopes, result, usage, blob_gas>>
  BY DEF process_amsterdam_auth
<1>2. tx \in Transactions[fork] /\ (tx.auths # <<>> => ~tx.is_create)
  BY <1>1 DEF AdmittedOK, InFlight
<1>3. PICK au \in Authorization : au = Cursor
  BY <1>2, <1>1, CursorFacts
<1>4. ~tx.is_create
  <2>1. tx.auths \in Seq(Authorization) /\ context.next \in Nat /\ context.next > 0
    BY <1>2, TxFacts DEF TypeOK, Context
  <2>2. Len(tx.auths) > 0
    BY <1>1, <2>1 DEF AuthsDone
  <2> QED  BY <1>2, <2>1, <2>2
<1>5. /\ context.state_gas = 0 /\ Fits(frame, 0)
      /\ frame \in Frame /\ world \in World /\ context \in Context
  BY <1>1 DEF FrameOK, TypeOK
<1>6. /\ AuthorizedOnly(world) /\ charged.nonce[tx.sender] > 0
      /\ tx.value <= charged.balance[tx.sender] /\ world.nonce[tx.sender] > 0
      /\ scopes[1] = charged
  BY <1>1 DEF WorldsOK, InFlight
<1>7. /\ fork >= Amsterdam => Tracks(world, context)
      /\ frame_state_gas_used(frame) = AuthorizationPrice(world)
  BY <1>1 DEF TrackerOK, Tracks
<1>8. AdmittedOK' /\ BlockWithinLimits'
  BY <1>1, AdmittedKept DEF InFlight
<1>9. GrowthOK' /\ FatalOK'
  BY <1>1, <1>4 DEF GrowthOK, FatalOK, InFlight, Growth, account_info_empty
<1>10. CASE ~Applicable(au)
  <2>1. /\ context' = [context EXCEPT !.next = @ + 1]
        /\ UNCHANGED <<frame, world>>
    BY <1>3, <1>10 DEF process_amsterdam_auth
  <2>2. /\ context' \in Context /\ context'.state_gas = 0
        /\ context'.seen = context.seen /\ context'.set = context.set
        /\ context'.originally = context.originally
    <3>1. context.next + 1 \in Nat \ {0}
      BY <1>5 DEF Context
    <3> QED  BY <1>5, <2>1, <3>1 DEF Context
  <2>3. TypeOK'
    BY <1>1, <2>1, <2>2 DEF TypeOK, OpenScopes
  <2>4. FrameOK'
    BY <1>1, <1>5, <2>1, <2>2 DEF FrameOK, Fits, Regular, transaction_regular_limit
  <2>5. WorldsOK'
    <3>1. AuthorizedOnly(world)'
      BY <1>1, <1>6, <2>1 DEF AuthorizedOnly, Authorities
    <3> QED  BY <1>1, <1>6, <2>1, <3>1 DEF WorldsOK, InFlight
  <2>6. EtherOK'
    <3>1. SumFunction(world'.balance) = SumFunction(charged.balance)
      BY <1>6, <2>1 DEF AuthorizedOnly
    <3> QED  BY <1>1, <3>1, EtherKept DEF InFlight
  <2>7. TrackerOK'
    <3>1. AuthorizationPrice(world)' = AuthorizationPrice(world)
      BY <2>1, <2>2 DEF AuthorizationPrice, account_info_empty
    <3>2. frame_state_gas_used(frame)' = frame_state_gas_used(frame)
      BY <2>1 DEF frame_state_gas_used
    <3> QED  BY <1>1, <1>7, <2>1, <2>2, <3>1, <3>2 DEF TrackerOK, Tracks
  <2> QED  BY <1>8, <1>9, <2>3, <2>4, <2>5, <2>6, <2>7
<1>11. CASE Applicable(au) /\ AuthCharged(au).status # "Running"
  <2>1. frame' = AuthCharged(au) /\ UNCHANGED <<world, context>>
    BY <1>3, <1>11 DEF process_amsterdam_auth
  <2>2. frame' \in Frame /\ frame'.status = "Exceptional"
    BY <1>1, <1>11, <2>1, AuthChargedFacts
  <2>3. TypeOK'
    BY <1>1, <2>1, <2>2 DEF TypeOK, OpenScopes
  <2>4. FrameOK'
    BY <1>1, <1>5, <2>1, <2>2 DEF FrameOK, AuthsDone
  <2>5. WorldsOK'
    <3>1. AuthorizedOnly(world)'
      BY <1>1, <1>6, <2>1 DEF AuthorizedOnly, Authorities
    <3> QED  BY <1>1, <1>6, <2>1, <3>1 DEF WorldsOK, InFlight
  <2>6. EtherOK'
    <3>1. SumFunction(world'.balance) = SumFunction(charged.balance)
      BY <1>6, <2>1 DEF AuthorizedOnly
    <3> QED  BY <1>1, <3>1, EtherKept DEF InFlight
  <2>7. TrackerOK'
    BY <1>1, <1>7, <2>1, <2>2 DEF TrackerOK, Tracks
  <2> QED  BY <1>8, <1>9, <2>3, <2>4, <2>5, <2>6, <2>7
<1>12. CASE Applicable(au) /\ AuthCharged(au).status = "Running"
  <2>1. frame' = AuthCharged(au) /\ world' = Delegated(au) /\ context' = Tracked(au)
    BY <1>3, <1>12 DEF process_amsterdam_auth
  <2>2. PICK n \in Nat : n = AccountCharge(au) + DelegationCharge(au)
    BY <1>1, AuthChargedFacts
  <2>3. /\ frame' \in Frame /\ frame'.status = "Running" /\ ChargedBy(frame, frame', n)
    BY <1>1, <1>12, <2>1, <2>2, AuthChargedFacts
  <2>4. /\ context' \in Context /\ context'.state_gas = 0 /\ world' \in World
    BY <1>5, <2>1, TrackedFacts, DelegatedFacts
  <2>5. TypeOK'
    BY <1>1, <2>3, <2>4 DEF TypeOK, OpenScopes
  <2>6. FrameOK'
    <3>1. Fits(frame', 0)
      BY <1>2, <1>5, <2>3, ChargedFits
    <3>2. Fits(frame, context.state_gas)'
      BY <1>1, <2>4, <3>1 DEF Fits, Regular, transaction_regular_limit
    <3> QED  BY <1>1, <2>3, <2>4, <3>2 DEF FrameOK
  <2>7. WorldsOK'
    <3>1. AuthorizedOnly(world)' /\ world'.nonce[tx.sender] > 0
      BY <1>1, <1>2, <1>3, <1>6, <2>1, AuthorizationKeeps
    <3> QED  BY <1>1, <1>6, <3>1 DEF WorldsOK, InFlight
  <2>8. EtherOK'
    <3>1. SumFunction(world'.balance) = SumFunction(charged.balance)
      BY <1>6, <2>1, DelegatedFacts DEF AuthorizedOnly
    <3> QED  BY <1>1, <3>1, EtherKept DEF InFlight
  <2>9. TrackerOK'
    <3>0. fork >= Amsterdam
      BY <1>1 DEF FrameOK
    <3>1. Tracks(world', context')
      BY <1>6, <1>7, <2>1, <3>0, TrackerFollows
    <3>2. Tracks(world, context)'
      BY <3>1 DEF Tracks
    <3>3. frame_state_gas_used(frame') = AuthorizationPrice(world) + n
      BY <1>7, <2>3 DEF ChargedBy
    <3>4. StateNewAccount * Cardinality(AddedAccounts(world'))
            + StateAuthBase * Cardinality(AddedDelegations(context'))
            = AuthorizationPrice(world) + n
      BY <1>6, <1>7, <2>1, <2>2, <3>0, PriceFollows
    <3>5. AuthorizationPrice(world)'
            = StateNewAccount * Cardinality(AddedAccounts(world'))
              + StateAuthBase * Cardinality(AddedDelegations(context'))
      BY DEF AuthorizationPrice, AddedAccounts, AddedDelegations, account_info_empty
    <3>6. frame_state_gas_used(frame)' = AuthorizationPrice(world)'
      BY <3>3, <3>4, <3>5 DEF frame_state_gas_used
    <3> QED  BY <1>1, <3>2, <3>6 DEF TrackerOK, Tracks
  <2> QED  BY <1>8, <1>9, <2>5, <2>6, <2>7, <2>8, <2>9
<1> QED  BY <1>10, <1>11, <1>12

(* A failed preparation undoes the authorizations and consumes the limit.  *)
LEMMA PreparationFailsKeeps ==
    ASSUME TransactionInv, phase = "authorizing", PreparationFailed,
           preparation_fails, UNCHANGED <<fork, charged>>
    PROVE  TransactionInv'
<1> USE DEF TransactionInv
<1>1. /\ world' = Last(scopes) /\ scopes' = Front(scopes)
      /\ EndFrame(FALSE, 0, 0, 0, 0)
      /\ UNCHANGED <<count, tx, frame, context, usage, blob_gas>>
  BY DEF preparation_fails
<1>2. tx \in Transactions[fork]
  BY DEF AdmittedOK, InFlight
<1>3. PICK l \in Nat, k \in Nat : l = tx.gas_limit /\ k = Regular(tx) /\ k <= l
  BY <1>2, TxFacts
<1>4. \/ /\ phase' = "settling" /\ l <= k
         /\ result' = [success |-> FALSE, remaining |-> 0, state_used |-> 0, refund |-> 0]
      \/ phase' = "fatal" /\ l > k /\ result' = result
  <2>1. snapshot_valid(0, 0, 0) <=> l <= k
    BY <1>3 DEF snapshot_valid
  <2>2. tx_frame_gas_snapshot(FALSE, 0, 0, 0, 0)
          = [success |-> FALSE, remaining |-> 0, state_used |-> 0, refund |-> 0]
    BY DEF tx_frame_gas_snapshot, Greater
  <2>3. CASE snapshot_valid(0, 0, 0)
    BY <1>1, <2>1, <2>2, <2>3 DEF EndFrame
  <2>4. CASE ~snapshot_valid(0, 0, 0)
    BY <1>1, <1>3, <2>1, <2>4 DEF EndFrame
  <2> QED  BY <2>3, <2>4
<1>5. /\ world' = charged /\ world' \in World
      /\ scopes' \in Seq(World) /\ Len(scopes') = 0
  <2>1. scopes \in Seq(World) /\ Len(scopes) = 1 /\ scopes[1] = charged
    BY DEF TypeOK, OpenScopes, WorldsOK
  <2>2. scopes # <<>>
    <3>1. Len(scopes) # 0
      BY <2>1
    <3> QED  BY <3>1, NotEmpty
  <2>3. /\ Front(scopes) \in Seq(World) /\ Len(Front(scopes)) = Len(scopes) - 1
        /\ Last(scopes) = scopes[Len(scopes)] /\ Last(scopes) \in World
    BY <2>1, <2>2, PopFacts
  <2> QED  BY <1>1, <2>1, <2>3
<1>6. TypeOK'
  <2>1. /\ phase' \in Phases /\ OpenScopes' = 0
        /\ result' \in [success : BOOLEAN, remaining : Nat, state_used : Nat, refund : Int]
    <3>1. result \in [success : BOOLEAN, remaining : Nat, state_used : Nat, refund : Int]
      BY DEF TypeOK
    <3>2. CASE phase' = "settling"
      <4>1. result' = [success |-> FALSE, remaining |-> 0, state_used |-> 0, refund |-> 0]
        BY <1>4, <3>2
      <4>2. result' \in [success : BOOLEAN, remaining : Nat, state_used : Nat, refund : Int]
        BY <4>1
      <4> QED  BY <3>2, <4>2 DEF Phases, OpenScopes
    <3>3. CASE phase' = "fatal" /\ result' = result
      BY <3>1, <3>3 DEF Phases, OpenScopes
    <3> QED  BY <1>4, <3>2, <3>3
  <2> QED  BY <1>1, <1>5, <2>1 DEF TypeOK
<1>7. AdmittedOK' /\ BlockWithinLimits'
  BY <1>1, <1>4, AdmittedKept DEF InFlight
<1>8. Regular(tx)' = k /\ tx'.gas_limit = l
  BY <1>1, <1>3 DEF Regular, transaction_regular_limit
<1>9. FrameOK'
  BY <1>4, <1>8 DEF FrameOK
<1>10. WorldsOK'
  <2>1. AuthorizedOnly(world)'
    <3>1. \A a \in Accounts : charged.nonce[a] \in Nat
      BY WorldFacts DEF TypeOK
    <3> QED  BY <1>5, <3>1 DEF AuthorizedOnly
  <2>2. tx.value <= charged.balance[tx.sender] /\ charged.nonce[tx.sender] > 0
    BY DEF WorldsOK, InFlight
  <2> QED  BY <1>1, <1>4, <1>5, <2>1, <2>2 DEF WorldsOK, InFlight
<1>11. EtherOK'
  BY <1>1, <1>4, <1>5, EtherKept DEF InFlight
<1>12. TrackerOK'
  BY <1>4 DEF TrackerOK
<1>13. GrowthOK'
  <2> SUFFICES ASSUME BaseFee > 0, fork >= Amsterdam PROVE GrowthOK'
    BY DEF GrowthOK
  <2>1. usage.state >= Growth(charged)
    BY DEF GrowthOK, InFlight
  <2>2. Growth(world') = Growth(charged) /\ Growth(charged') = Growth(charged)
    BY <1>5
  <2>3. Growth(world)' = Growth(world') /\ Growth(charged)' = Growth(charged')
    BY DEF Growth, account_info_empty
  <2>4. usage.state + 0 = usage.state
    BY DEF TypeOK
  <2>5. phase' = "settling" => result'.state_used = 0
    BY <1>4
  <2> QED  BY <1>1, <1>4, <2>1, <2>2, <2>3, <2>4, <2>5 DEF GrowthOK, InFlight
<1>14. FatalOK'
  <2>1. PreparationFailed'
    BY <1>1 DEF PreparationFailed, AuthsDone
  <2> QED  BY <1>4, <1>8, <2>1 DEF FatalOK
<1> QED  BY <1>6, <1>7, <1>9, <1>10, <1>11, <1>12, <1>13, <1>14

(* An authorization that cannot be paid fails the preparation.             *)
LEMMA AuthFailsKeeps ==
    ASSUME TransactionInv, process_amsterdam_auth_fails, UNCHANGED <<fork, charged>>
    PROVE  TransactionInv'
<1>1. phase = "authorizing" /\ frame.status = "Exceptional" /\ preparation_fails
  BY DEF process_amsterdam_auth_fails
<1>2. PreparationFailed
  BY <1>1 DEF TransactionInv, FrameOK, PreparationFailed
<1> QED  BY <1>1, <1>2, PreparationFailsKeeps

(* The frame the dispatch charges leave: the state gas it has used is the  *)
(* price of an account it opens.                                           *)
LEMMA DispatchedFacts ==
    ASSUME TypeOK, tx \in Transactions[fork], NEW access \in Nat,
           frame.status = "Running", Fits(frame, 0), Dispatched(access).status = "Running"
    PROVE  /\ Dispatched(access) \in Frame
           /\ frame_state_gas_used(frame) \in Nat
           /\ Fits(Dispatched(access), frame_state_gas_used(frame))
           /\ frame_state_gas_used(Dispatched(access)) \in Nat
           /\ \/ tx.is_create /\ context.target_empty
              \/ /\ ~tx.is_create /\ tx.value > 0
                 /\ account_info_empty(world, tx.target)
              => frame_state_gas_used(Dispatched(access)) = StateNewAccount
<1> DEFINE new == \/ tx.is_create /\ context.target_empty
                  \/ /\ ~tx.is_create /\ tx.value > 0
                     /\ account_info_empty(world, tx.target)
           follows == ~tx.is_create /\ world.code[tx.target] = "delegated"
<1>1. frame \in Frame
  BY DEF TypeOK
<1>2. PICK x \in Nat, s \in Nat, p \in Nat, r \in Nat :
        x = frame.gas /\ s = frame.state_gas /\ p = frame.spill /\ r = frame.reservoir
  BY <1>1, FrameFacts
<1>3. PICK f : f = [frame EXCEPT !.reservoir = frame.state_gas, !.spill = 0]
  OBVIOUS
<1>4. /\ f \in Frame /\ f.status = "Running"
      /\ f.gas = x /\ f.state_gas = s /\ f.spill = 0 /\ f.reservoir = s
  BY <1>1, <1>2, <1>3 DEF Frame
<1>5. PICK n \in Nat : n = IF new THEN StateNewAccount ELSE 0
  BY Numbers
<1>6. PICK m \in Nat : m = IF follows THEN access ELSE 0
  OBVIOUS
<1>7. PICK g : g = ChargeState(f, n)
  OBVIOUS
<1>8. PICK h : h = ChargeExecution(g, m)
  OBVIOUS
<1>9. h = Dispatched(access)
  BY <1>3, <1>5, <1>6, <1>7, <1>8 DEF Dispatched
<1> HIDE DEF new, follows
<1>10. /\ g \in Frame /\ g.status \in {"Running", "Exceptional"}
       /\ g.status = "Running" => ChargedBy(f, g, n)
  BY <1>4, <1>7, ChargeStateFacts
<1>11. h \in Frame /\ ChargedBy(g, h, 0)
  BY <1>8, <1>9, <1>10, ChargeExecutionFacts
<1>12. ChargedBy(f, h, n + 0)
  BY <1>4, <1>10, <1>11, ChargedTwice DEF ChargedBy
<1>13. PICK u \in Nat : u = r - s + p /\ u = frame_state_gas_used(frame)
  BY <1>2 DEF Fits, frame_state_gas_used
<1>14. Fits(f, u)
  <2>1. PICK l \in Nat, k \in Nat : l = tx.gas_limit /\ k = Regular(tx)
    BY TxFacts
  <2>2. x + p + r + 0 <= l /\ r + 0 >= l - k /\ s <= r + p
    BY <1>2, <2>1 DEF Fits
  <2>3. x + 0 + s + u <= l /\ s + u >= l - k /\ s <= s + 0
    BY <1>13, <2>2
  <2> QED  BY <1>4, <2>1, <2>3 DEF Fits
<1>15. n + 0 = n
  OBVIOUS
<1>16. Fits(h, u)
  BY <1>4, <1>11, <1>12, <1>14, <1>15, ChargedFits
<1>17. frame_state_gas_used(h) = n
  <2>1. frame_state_gas_used(f) = 0
    BY <1>4 DEF frame_state_gas_used
  <2> QED  BY <1>12, <1>15, <2>1 DEF ChargedBy
<1>18. new => n = StateNewAccount
  BY <1>5
<1> QED  BY <1>9, <1>11, <1>13, <1>16, <1>17, <1>18 DEF new

(* What the authorizations have added to the growth was charged.           *)
LEMMA AuthorizationGrowth ==
    ASSUME TypeOK, AuthorizedOnly(world), Tracks(world, context)
    PROVE  /\ Growth(world) \in Nat /\ Growth(charged) \in Nat
           /\ AuthorizationPrice(world) \in Nat
           /\ Growth(world) <= Growth(charged) + AuthorizationPrice(world)
<1>1. /\ world \in World /\ charged \in World
      /\ world.grown \in Nat /\ world.grown = charged.grown
  BY DEF TypeOK, AuthorizedOnly, World
<1> DEFINE A == AddedAccounts(world)
           D == AddedDelegations(context)
<1>2. A \in SUBSET Accounts /\ D \in SUBSET Accounts
  BY DEF AddedAccounts, AddedDelegations, TypeOK, Context
<1>3. NewAccounts(world) \subseteq NewAccounts(charged) \cup A
  BY DEF NewAccounts, AddedAccounts
<1>4. NewDelegations(world) \subseteq NewDelegations(charged) \cup D
  BY DEF NewDelegations, AddedDelegations, Tracks
<1> HIDE DEF A, D
<1>5. /\ Growth(charged) \in Nat /\ Growth(world) \in Nat
      /\ Cardinality(A) \in Nat /\ Cardinality(D) \in Nat
      /\ Growth(world) <= Growth(charged) + StateNewAccount * Cardinality(A)
                            + StateAuthBase * Cardinality(D) + world.grown - charged.grown
  BY <1>1, <1>2, <1>3, <1>4, GrowthGain
<1>6. AuthorizationPrice(world) = StateNewAccount * Cardinality(A) + StateAuthBase * Cardinality(D)
  BY DEF AuthorizationPrice, AddedAccounts, AddedDelegations, A, D
<1>7. PICK x \in Nat, y \in Nat :
        x = StateNewAccount * Cardinality(A) /\ y = StateAuthBase * Cardinality(D)
  BY <1>5, Numbers
<1> QED  BY <1>1, <1>5, <1>6, <1>7

(* The dispatch charges, and the execution scope.                          *)
LEMMA DispatchKeeps ==
    ASSUME TransactionInv, prepare_amsterdam_transaction_dispatch,
           UNCHANGED <<fork, charged>>
    PROVE  TransactionInv'
<1> USE DEF TransactionInv
<1>1. /\ phase = "authorizing" /\ AuthsDone /\ frame.status = "Running"
  BY DEF prepare_amsterdam_transaction_dispatch
<1>2. /\ tx \in Transactions[fork] /\ fork >= Amsterdam /\ context.state_gas = 0
      /\ Fits(frame, 0)
  BY <1>1 DEF AdmittedOK, InFlight, FrameOK
<1>3. PICK access \in {WarmAccess, ColdAccess} :
         LET f == Dispatched(access)
         IN  IF f.status = "Running"
             THEN /\ phase' = "frame"
                  /\ frame' = f
                  /\ context' = [context EXCEPT
                                   !.state_gas = frame_state_gas_used(frame)]
                  /\ scopes' = Append(scopes, world)
                  /\ UNCHANGED <<count, tx, world, result, usage, blob_gas>>
             ELSE preparation_fails
  BY DEF prepare_amsterdam_transaction_dispatch
<1>4. access \in Nat
  BY Numbers
<1>5. CASE Dispatched(access).status # "Running"
  <2>1. preparation_fails
    BY <1>3, <1>5
  <2> QED  BY <1>1, <2>1, PreparationFailsKeeps DEF PreparationFailed
<1>6. CASE Dispatched(access).status = "Running"
  <2>1. /\ phase' = "frame" /\ frame' = Dispatched(access)
        /\ context' = [context EXCEPT !.state_gas = frame_state_gas_used(frame)]
        /\ scopes' = Append(scopes, world)
        /\ UNCHANGED <<count, tx, world, result, usage, blob_gas>>
    BY <1>3, <1>6
  <2>2. PICK u \in Nat : u = frame_state_gas_used(frame)
    BY <1>1, <1>2, <1>4, <1>6, DispatchedFacts
  <2>3. frame' \in Frame /\ frame'.status = "Running" /\ Fits(frame', u)
    BY <1>1, <1>2, <1>4, <1>6, <2>1, <2>2, DispatchedFacts
  <2>4. /\ context' \in Context /\ context'.state_gas = u /\ context'.next = context.next
        /\ context'.set = context.set /\ context'.seen = context.seen
        /\ context'.originally = context.originally
        /\ context'.target_empty = context.target_empty
    <3>1. context \in Context
      BY DEF TypeOK
    <3> QED  BY <2>1, <2>2, <3>1 DEF Context
  <2>5. scopes' \in Seq(World) /\ Len(scopes') = 2 /\ scopes'[Len(scopes')] = world
    <3>1. scopes \in Seq(World) /\ Len(scopes) = 1 /\ world \in World
      BY <1>1 DEF TypeOK, OpenScopes
    <3>2. PICK s : s = Append(scopes, world)
      OBVIOUS
    <3>3. s \in Seq(World) /\ Len(s) = Len(scopes) + 1 /\ s[Len(scopes) + 1] = world
      BY <3>1, <3>2, PushFacts
    <3>4. Len(scopes) + 1 = 2
      BY <3>1
    <3> QED  BY <2>1, <3>2, <3>3, <3>4
  <2>6. TypeOK'
    BY <1>2, <2>1, <2>3, <2>4, <2>5 DEF TypeOK, OpenScopes, Phases
  <2>7. AdmittedOK' /\ BlockWithinLimits'
    BY <1>1, <2>1, AdmittedKept DEF InFlight
  <2>8. FrameOK'
    <3>1. Fits(frame, context.state_gas)'
      BY <2>1, <2>3, <2>4 DEF Fits, Regular, transaction_regular_limit
    <3>2. AuthsDone'
      BY <1>1, <2>1, <2>4 DEF AuthsDone
    <3> QED  BY <2>1, <2>3, <3>1, <3>2 DEF FrameOK
  <2>9. AuthorizedOnly(world)
    BY <1>1 DEF WorldsOK
  <2>10. WorldsOK'
    <3>1. AuthorizedOnly(world)'
      BY <2>1, <2>9 DEF AuthorizedOnly, Authorities
    <3>2. AuthorizedOnly(scopes[Len(scopes)])'
      BY <2>1, <2>5, <3>1 DEF AuthorizedOnly
    <3> QED  BY <1>1, <2>1, <2>5, <3>1, <3>2 DEF WorldsOK, InFlight
  <2>11. EtherOK'
    <3>1. SumFunction(world'.balance) = SumFunction(charged.balance)
      BY <2>1, <2>9 DEF AuthorizedOnly
    <3> QED  BY <1>1, <2>1, <3>1, EtherKept DEF InFlight
  <2>12. Tracks(world, context) /\ u = AuthorizationPrice(world)
    BY <1>1, <1>2, <2>2 DEF TrackerOK, Tracks
  <2>13. TrackerOK'
    <3>1. AuthorizationPrice(world)' = AuthorizationPrice(world)
      BY <2>1, <2>4 DEF AuthorizationPrice, account_info_empty
    <3>2. Tracks(world, context)'
      BY <2>1, <2>4, <2>12 DEF Tracks
    <3> QED  BY <2>1, <2>4, <2>12, <3>1, <3>2 DEF TrackerOK, Tracks
  <2>14. GrowthOK'
    <3> SUFFICES ASSUME BaseFee > 0, fork >= Amsterdam PROVE GrowthOK'
      BY DEF GrowthOK
    <3>1. usage.state >= Growth(charged) /\ usage.state \in Nat
      BY <1>1 DEF GrowthOK, InFlight, TypeOK
    <3>2. usage.state + u >= Growth(world)
      BY <2>9, <2>12, <3>1, AuthorizationGrowth
    <3>3. tx.is_create => (context.target_empty <=> account_info_empty(world, tx.target))
      BY <1>1 DEF GrowthOK
    <3>4. Opens(world) => frame_state_gas_used(frame') >= StateNewAccount
      <4>1. Opens(world) => \/ tx.is_create /\ context.target_empty
                            \/ /\ ~tx.is_create /\ tx.value > 0
                               /\ account_info_empty(world, tx.target)
        BY <3>3 DEF Opens
      <4>2. Opens(world) => frame_state_gas_used(frame') = StateNewAccount
        BY <1>1, <1>2, <1>4, <1>6, <2>1, <4>1, DispatchedFacts
      <4> QED  BY <4>2, Numbers
    <3>5. /\ Growth(world)' = Growth(world) /\ Growth(charged)' = Growth(charged)
          /\ account_info_empty(world, tx.target)' = account_info_empty(world, tx.target)
          /\ Opens(world)' = Opens(world)
          /\ frame_state_gas_used(frame)' = frame_state_gas_used(frame')
      BY <2>1 DEF Growth, account_info_empty, Opens, frame_state_gas_used
    <3> QED  BY <2>1, <2>4, <3>1, <3>2, <3>3, <3>4, <3>5 DEF GrowthOK, InFlight
  <2>15. FatalOK'
    BY <2>1 DEF FatalOK
  <2> QED  BY <2>6, <2>7, <2>8, <2>10, <2>11, <2>13, <2>14, <2>15
<1> QED  BY <1>5, <1>6

-----------------------------------------------------------------------------
(* A frame that ends under the contract stays within the limits.           *)
LEMMA ContractFits ==
    ASSUME TypeOK, tx \in Transactions[fork],
           NEW f \in Frame, NEW g \in Frame, NEW base \in Nat,
           Fits(f, base), FrameContract(f, g)
    PROVE  /\ Fits(g, base)
           /\ frame_state_gas_used(f) \in Nat /\ frame_state_gas_used(g) \in Nat
<1>1. PICK x \in Nat, s \in Nat, p \in Nat, r \in Nat :
        x = f.gas /\ s = f.state_gas /\ p = f.spill /\ r = f.reservoir
  BY FrameFacts
<1>2. PICK y \in Nat, u \in Nat, q \in Nat :
        y = g.gas /\ u = g.state_gas /\ q = g.spill
  BY FrameFacts
<1>3. PICK l \in Nat, k \in Nat : l = tx.gas_limit /\ k = Regular(tx)
  BY TxFacts
<1>4. x + p + r + base <= l /\ r + base >= l - k /\ s <= r + p
  BY <1>1, <1>3 DEF Fits
<1>5. g.reservoir = r /\ y + q <= x + p
  BY <1>1, <1>2 DEF FrameContract
<1>6. u <= r + q
  <2>1. CASE frame_succeeded(g)
    <3>1. r - u + q >= r - s + p
      BY <2>1, <1>1, <1>2, <1>5 DEF FrameContract, frame_state_gas_used
    <3> QED  BY <1>4, <3>1
  <2>2. CASE ~frame_succeeded(g) /\ fork >= Amsterdam
    <3>1. q = 0 /\ u = r
      BY <2>2, <1>2, <1>5 DEF FrameContract
    <3> QED  BY <3>1
  <2>3. CASE ~(fork >= Amsterdam)
    <3>1. fork < Amsterdam
      BY <2>3, ForkFacts DEF Amsterdam
    <3>2. q = p /\ u = s
      BY <3>1, <1>1, <1>2 DEF FrameContract
    <3> QED  BY <1>4, <3>2
  <2> QED  BY <2>1, <2>2, <2>3
<1>7. y + q + r + base <= l
  BY <1>4, <1>5
<1>8. Fits(g, base)
  BY <1>2, <1>3, <1>4, <1>5, <1>6, <1>7 DEF Fits
<1>9. r - s + p \in Nat /\ r - u + q \in Nat
  BY <1>4, <1>6
<1> QED  BY <1>1, <1>2, <1>5, <1>8, <1>9 DEF frame_state_gas_used

-----------------------------------------------------------------------------
(* The pools of a frame that halts exceptionally.                          *)
LEMMA ExceptionalFacts ==
    ASSUME NEW g \in Frame
    PROVE  /\ exceptional_state(g) \in Frame
           /\ exceptional_state(g).status = "Exceptional"
           /\ exceptional_state(g).gas = 0
           /\ exceptional_state(g).reservoir = g.reservoir
           /\ fork >= Amsterdam => exceptional_state(g).state_gas = g.reservoir
                                   /\ exceptional_state(g).spill = 0
           /\ ~(fork >= Amsterdam) => exceptional_state(g).state_gas = g.state_gas
                                      /\ exceptional_state(g).spill = g.spill
<1>1. PICK s \in Nat, p \in Nat :
        /\ s = IF fork >= Amsterdam THEN g.reservoir ELSE g.state_gas
        /\ p = IF fork >= Amsterdam THEN 0 ELSE g.spill
  BY FrameFacts
<1>2. PICK e : e = exceptional_state(g)
  OBVIOUS
<1>3. e = [g EXCEPT !.gas = 0, !.status = "Exceptional", !.state_gas = s, !.spill = p]
  BY <1>1, <1>2 DEF exceptional_state, Frame
<1>4. /\ e \in Frame /\ e.status = "Exceptional" /\ e.gas = 0
      /\ e.reservoir = g.reservoir /\ e.state_gas = s /\ e.spill = p
  BY <1>3 DEF Frame, Statuses
<1> QED  BY <1>1, <1>2, <1>4

(* An exception keeps the contract, whether the frame ran or not.          *)
LEMMA ExceptionalContract ==
    ASSUME TypeOK, NEW f \in Frame, NEW g \in Frame,
           f = g \/ FrameContract(f, g)
    PROVE  FrameContract(f, exceptional_state(g))
<1>1. PICK e \in Frame : e = exceptional_state(g)
  BY ExceptionalFacts
<1>2. PICK x \in Nat, p \in Nat, y \in Nat, q \in Nat :
        x = f.gas /\ p = f.spill /\ y = g.gas /\ q = g.spill
  BY FrameFacts
<1>3. y + q <= x + p /\ g.reservoir = f.reservoir
  BY <1>2 DEF FrameContract
<1>4. fork < Amsterdam => q = p /\ g.state_gas = f.state_gas
  BY <1>2 DEF FrameContract
<1>5. /\ e.status = "Exceptional" /\ e.gas = 0 /\ e.reservoir = g.reservoir
      /\ fork >= Amsterdam => e.state_gas = g.reservoir /\ e.spill = 0
      /\ ~(fork >= Amsterdam) => e.state_gas = g.state_gas /\ e.spill = q
  BY <1>1, <1>2, ExceptionalFacts
<1>6. e.gas + e.spill <= f.gas + f.spill
  <2>1. CASE fork >= Amsterdam
    BY <2>1, <1>2, <1>5
  <2>2. CASE ~(fork >= Amsterdam)
    BY <2>2, <1>2, <1>3, <1>5
  <2> QED  BY <2>1, <2>2
<1>7. fork < Amsterdam => ~(fork >= Amsterdam)
  BY ForkFacts DEF Amsterdam
<1>8. ~frame_succeeded(e)
  BY <1>5 DEF frame_succeeded
<1> QED  BY <1>1, <1>2, <1>3, <1>4, <1>5, <1>6, <1>7, <1>8 DEF FrameContract

(* So does paying the deposit for deployed code.                           *)
LEMMA DeployedContract ==
    ASSUME TypeOK, NEW f \in Frame, NEW g \in Frame, NEW n \in Nat,
           FrameContract(f, g), frame_succeeded(g)
    PROVE  Deployed(g, n) \in Frame /\ FrameContract(f, Deployed(g, n))
<1>1. PICK c \in Nat, d \in Nat : c = DepositCost * n /\ d = StateByte * n
  BY Numbers
<1>2. PICK x \in Nat, s \in Nat, p \in Nat, r \in Nat :
        x = f.gas /\ s = f.state_gas /\ p = f.spill /\ r = f.reservoir
  BY FrameFacts
<1>3. PICK y \in Nat, u \in Nat, q \in Nat :
        y = g.gas /\ u = g.state_gas /\ q = g.spill
  BY FrameFacts
<1>4. /\ y + q <= x + p /\ g.reservoir = r /\ r - u + q >= r - s + p
      /\ fork < Amsterdam => q = p /\ u = s
  BY <1>2, <1>3 DEF FrameContract, frame_state_gas_used
<1>5. g.status # "Running" /\ g.status # "Exceptional" /\ g.status \in Statuses
  BY FrameFacts DEF FrameContract, frame_succeeded
<1>6. CASE g.gas < DepositCost * n
  <2>1. Deployed(g, n) = exceptional_state(g)
    BY <1>6 DEF Deployed
  <2> QED  BY <2>1, ExceptionalFacts, ExceptionalContract
<1>7. CASE ~(g.gas < DepositCost * n)
  <2>1. PICK v \in Nat : v = y - c
    BY <1>1, <1>3, <1>7
  <2>2. PICK h : h = [g EXCEPT !.gas = @ - DepositCost * n]
    OBVIOUS
  <2>3. h = [g EXCEPT !.gas = v]
    BY <1>1, <1>3, <2>1, <2>2
  <2>4. /\ h \in Frame /\ h.gas = v /\ h.state_gas = u /\ h.spill = q
        /\ h.reservoir = r /\ h.status = g.status
    BY <1>3, <1>4, <2>3 DEF Frame
  <2>5. frame_succeeded(h)
    BY <2>4 DEF frame_succeeded
  <2>6. v + q <= x + p
    BY <1>1, <1>3, <1>4, <2>1
  <2>7. FrameContract(f, h)
    <3>1. frame_state_gas_used(h) >= frame_state_gas_used(f)
      BY <1>2, <1>4, <2>4 DEF frame_state_gas_used
    <3> QED  BY <1>2, <1>4, <1>5, <2>4, <2>5, <2>6, <3>1 DEF FrameContract
  <2>8. CASE fork < Amsterdam
    <3>1. Deployed(g, n) = h
      BY <1>7, <2>2, <2>8 DEF Deployed
    <3> QED  BY <3>1, <2>4, <2>7
  <2>9. CASE ~(fork < Amsterdam) /\ state_gas_halt(h, StateByte * n)
    <3>1. Deployed(g, n) = exceptional_state(h)
      BY <1>7, <2>2, <2>9 DEF Deployed
    <3> QED  BY <3>1, <2>4, <2>7, ExceptionalFacts, ExceptionalContract
  <2>10. CASE ~(fork < Amsterdam) /\ ~state_gas_halt(h, StateByte * n)
    <3>1. PICK e : e = charge_state_gas(h, d)
      OBVIOUS
    <3>2. Deployed(g, n) = e
      BY <1>1, <1>7, <2>2, <2>10, <3>1 DEF Deployed
    <3>3. d <= u + v
      BY <1>1, <2>4, <2>10 DEF state_gas_halt
    <3>4. PICK t \in Nat : t = IF d <= u THEN d ELSE u
      OBVIOUS
    <3>5. u - t \in Nat /\ v - (d - t) \in Nat /\ q + (d - t) \in Nat
      BY <3>3, <3>4
    <3>6. e = [h EXCEPT !.state_gas = u - t, !.gas = v - (d - t), !.spill = q + (d - t)]
      BY <2>4, <3>1, <3>4 DEF charge_state_gas
    <3>7. /\ e \in Frame /\ e.status = g.status /\ e.reservoir = r
          /\ e.state_gas = u - t /\ e.gas = v - (d - t) /\ e.spill = q + (d - t)
      BY <2>4, <3>5, <3>6 DEF Frame
    <3>8. frame_succeeded(e)
      BY <3>7 DEF frame_succeeded
    <3>9. e.gas + e.spill <= f.gas + f.spill
      BY <1>2, <2>6, <3>4, <3>7
    <3>10. frame_state_gas_used(e) >= frame_state_gas_used(f)
      <4>1. r - (u - t) + (q + (d - t)) >= r - s + p
        BY <1>4, <3>4
      <4> QED  BY <1>2, <3>7, <4>1 DEF frame_state_gas_used
    <3>11. FrameContract(f, e)
      BY <1>2, <1>5, <2>10, <3>7, <3>8, <3>9, <3>10 DEF FrameContract
    <3> QED  BY <3>2, <3>7, <3>11
  <2> QED  BY <2>8, <2>9, <2>10
<1> QED  BY <1>6, <1>7

(* The interpreter ends a frame as a frame, under the contract.            *)
LEMMA InterpretFacts ==
    ASSUME NEW f \in Frame, NEW g \in interpret(f)
    PROVE  g \in Frame /\ FrameContract(f, g)
<1>1. PICK pool \in Nat, room \in Nat : pool = f.gas + f.spill /\ room = f.reservoir + pool
  BY FrameFacts
<1>2. /\ FrameContract(f, g)
      /\ \E e \in [gas : 0..pool, spill : 0..pool, state_gas : 0..room,
                   refund : Refunds, status : Statuses] :
            g = [f EXCEPT !.gas = e.gas, !.spill = e.spill, !.state_gas = e.state_gas,
                          !.refund = e.refund, !.status = e.status]
  BY <1>1 DEF interpret
<1>3. PICK x \in Nat, p \in Nat, s \in Nat, r \in Int, z \in Statuses :
        g = [f EXCEPT !.gas = x, !.spill = p, !.state_gas = s, !.refund = r, !.status = z]
  <2>1. PICK e \in [gas : 0..pool, spill : 0..pool, state_gas : 0..room,
                    refund : Refunds, status : Statuses] :
            g = [f EXCEPT !.gas = e.gas, !.spill = e.spill, !.state_gas = e.state_gas,
                          !.refund = e.refund, !.status = e.status]
    BY <1>2
  <2>2. /\ e.gas \in Nat /\ e.spill \in Nat /\ e.state_gas \in Nat
        /\ e.refund \in Int /\ e.status \in Statuses
    BY <2>1, Numbers
  <2> QED  BY <2>1, <2>2
<1>4. g \in Frame
  BY <1>3 DEF Frame
<1> QED  BY <1>2, <1>4

(* What the transaction itself does to the world before its frame runs: it *)
(* moves ether, and makes no account but the target, when it opens that.   *)
Effect(w) ==
    /\ w \in World
    /\ SumFunction(w.balance) = SumFunction(world.balance)
    /\ w.nonce[tx.sender] > 0
    /\ w.grown = world.grown
    /\ NewAccounts(w) \subseteq
          NewAccounts(world) \cup (IF Opens(world) THEN {tx.target} ELSE {})
    /\ NewDelegations(w) \subseteq NewDelegations(world)

(* Growth after the effect, and d units grown by the frame.                *)
LEMMA EffectGrowth ==
    ASSUME TypeOK, tx \in Transactions[fork], NEW w, Effect(w),
           NEW v \in World, v.balance = w.balance, v.nonce = w.nonce, v.code = w.code,
           NEW d \in Nat, v.grown = w.grown + d
    PROVE  /\ Growth(v) \in Nat /\ Growth(world) \in Nat
           /\ Growth(v) <= Growth(world)
                             + (IF Opens(world) THEN StateNewAccount ELSE 0) + d
<1>1. world \in World /\ tx.target \in Accounts /\ w \in World
  BY TxFacts DEF TypeOK, Effect
<1>2. PICK A \in SUBSET Accounts : A = IF Opens(world) THEN {tx.target} ELSE {}
  BY <1>1
<1>3. NewAccounts(v) = NewAccounts(w) /\ NewDelegations(v) = NewDelegations(w)
  BY DEF NewAccounts, NewDelegations, account_info_empty
<1>4. /\ NewAccounts(v) \subseteq NewAccounts(world) \cup A
      /\ NewDelegations(v) \subseteq NewDelegations(world) \cup {}
  BY <1>2, <1>3 DEF Effect
<1>5. /\ Growth(world) \in Nat /\ Growth(v) \in Nat
      /\ Cardinality(A) \in Nat /\ Cardinality({}) \in Nat
      /\ Growth(v) <= Growth(world) + StateNewAccount * Cardinality(A)
                        + StateAuthBase * Cardinality({}) + v.grown - world.grown
  <2>1. {} \in SUBSET Accounts
    OBVIOUS
  <2> QED  BY <1>1, <1>4, <2>1, GrowthGain
<1>6. Cardinality({}) = 0
  BY FS_EmptySet
<1>7. Cardinality(A) = IF Opens(world) THEN 1 ELSE 0
  BY <1>2, <1>6, FS_Singleton
<1>8. PICK x \in Nat, y \in Nat :
        /\ x = StateNewAccount * Cardinality(A) /\ x = IF Opens(world) THEN StateNewAccount ELSE 0
        /\ y = StateAuthBase * Cardinality({}) /\ y = 0
  <2>1. StateAuthBase * 0 = 0 /\ StateNewAccount * 0 = 0 /\ StateNewAccount * 1 = StateNewAccount
    BY Numbers
  <2> QED  BY <1>6, <1>7, <2>1, Numbers
<1>9. PICK g \in Nat : g = world.grown /\ v.grown = g + d
  BY <1>1 DEF Effect, World
<1> QED  BY <1>5, <1>8, <1>9

(* The frame has ended: either it kept the effect and what it grew, or the *)
(* scope it leaves behind is still what was paid for.                      *)
LEMMA FrameEndsKeeps ==
    ASSUME TransactionInv, phase = "frame", NEW g \in Frame, FrameContract(frame, g),
           NEW w, Effect(w), FrameEnds(g, w), UNCHANGED <<fork, charged>>
    PROVE  TransactionInv'
<1> USE DEF TransactionInv
<1>1. /\ phase' = "ran" /\ frame' = g
      /\ world' = IF frame_succeeded(g) THEN Grown(w, frame, g) ELSE w
      /\ UNCHANGED <<count, tx, context, scopes, result, usage, blob_gas>>
  BY DEF FrameEnds
<1>2. tx \in Transactions[fork] /\ frame \in Frame /\ w \in World
  BY DEF AdmittedOK, InFlight, TypeOK, Effect
<1>3. context.state_gas \in Nat /\ Fits(frame, context.state_gas) /\ AuthsDone
  BY DEF FrameOK, TypeOK, Context
<1>4. /\ Fits(g, context.state_gas)
      /\ frame_state_gas_used(frame) \in Nat /\ frame_state_gas_used(g) \in Nat
  BY <1>2, <1>3, ContractFits
<1>5. PICK d \in Nat : d = IF frame_succeeded(g)
                           THEN frame_state_gas_used(g) - frame_state_gas_used(frame) ELSE 0
  BY <1>4 DEF FrameContract
<1>6. /\ world' \in World /\ world'.balance = w.balance /\ world'.nonce = w.nonce
      /\ world'.code = w.code /\ world'.grown = w.grown + d
  <2>1. w.grown \in Nat
    BY <1>2 DEF World
  <2>2. CASE frame_succeeded(g)
    <3>1. w.grown + frame_state_gas_used(g) - frame_state_gas_used(frame) = w.grown + d
          /\ w.grown + d \in Nat
      BY <1>4, <1>5, <2>1, <2>2
    <3>2. world' = [w EXCEPT !.grown = w.grown + d]
      BY <1>1, <2>2, <3>1 DEF Grown
    <3> QED  BY <1>2, <3>1, <3>2 DEF World
  <2>3. CASE ~frame_succeeded(g)
    <3>1. world' = w /\ w.grown + d = w.grown
      BY <1>1, <1>5, <2>1, <2>3
    <3> QED  BY <1>2, <3>1
  <2> QED  BY <2>2, <2>3
<1>7. TypeOK'
  BY <1>1, <1>6 DEF TypeOK, OpenScopes, Phases
<1>8. AdmittedOK' /\ BlockWithinLimits'
  BY <1>1, AdmittedKept DEF InFlight
<1>9. FrameOK'
  <2>1. Fits(frame, context.state_gas)'
    BY <1>1, <1>4 DEF Fits, Regular, transaction_regular_limit
  <2>2. AuthsDone' /\ frame'.status # "Running"
    BY <1>1, <1>3 DEF AuthsDone, FrameContract
  <2> QED  BY <1>1, <2>1, <2>2 DEF FrameOK
<1>10. WorldsOK'
  <2>1. world'.nonce[tx.sender] > 0
    BY <1>6 DEF Effect
  <2>2. AuthorizedOnly(scopes[Len(scopes)])
    BY DEF WorldsOK
  <2>3. AuthorizedOnly(scopes[Len(scopes)])'
    BY <1>1, <2>2 DEF AuthorizedOnly, Authorities
  <2>4. tx.value <= charged.balance[tx.sender] /\ charged.nonce[tx.sender] > 0
    BY DEF WorldsOK, InFlight
  <2> QED  BY <1>1, <2>1, <2>3, <2>4 DEF WorldsOK, InFlight
<1>11. EtherOK'
  <2>1. SumFunction(world'.balance) = SumFunction(charged.balance)
    BY <1>6 DEF Effect, EtherOK, InFlight
  <2> QED  BY <1>1, <2>1, EtherKept DEF InFlight
<1>12. TrackerOK' /\ FatalOK'
  BY <1>1 DEF TrackerOK, FatalOK
<1>13. GrowthOK'
  <2> SUFFICES ASSUME BaseFee > 0, fork >= Amsterdam PROVE GrowthOK'
    BY DEF GrowthOK
  <2>1. /\ usage.state >= Growth(charged) /\ usage.state \in Nat
        /\ usage.state + context.state_gas >= Growth(world)
        /\ Opens(world) => frame_state_gas_used(frame) >= StateNewAccount
        /\ scopes[Len(scopes)] = world
    BY DEF GrowthOK, InFlight, TypeOK, WorldsOK
  <2>2. /\ Growth(world') \in Nat /\ Growth(world) \in Nat
        /\ Growth(world') <= Growth(world)
                               + (IF Opens(world) THEN StateNewAccount ELSE 0) + d
    BY <1>2, <1>6, EffectGrowth
  <2>3. frame_succeeded(g) =>
           usage.state + context.state_gas + frame_state_gas_used(g) >= Growth(world')
    <3>1. PICK o \in Nat : o = IF Opens(world) THEN StateNewAccount ELSE 0
      BY Numbers
    <3>2. frame_state_gas_used(frame) >= o
      BY <1>4, <2>1, <3>1
    <3>3. PICK a \in Nat, b \in Nat, u \in Nat :
            a = frame_state_gas_used(frame) /\ b = frame_state_gas_used(g)
            /\ u = usage.state + context.state_gas
      BY <1>3, <1>4, <2>1
    <3>4. frame_succeeded(g) => d = b - a
      BY <1>5, <3>3
    <3>5. Growth(world') <= Growth(world) + o + d
      BY <2>2, <3>1
    <3>6. PICK x \in Nat, y \in Nat : x = Growth(world) /\ y = Growth(world')
      BY <2>2
    <3>7. u >= x
      BY <2>1, <3>3, <3>6
    <3>8. y <= x + o + d /\ a >= o
      BY <3>2, <3>3, <3>5, <3>6
    <3>9. frame_succeeded(g) => u + b >= y
      BY <3>4, <3>7, <3>8
    <3> QED  BY <3>3, <3>6, <3>9
  <2>4. /\ Growth(world)' = Growth(world') /\ Growth(charged)' = Growth(charged)
        /\ Growth(scopes[Len(scopes)])' = Growth(world)
        /\ frame_succeeded(frame)' = frame_succeeded(g)
        /\ frame_state_gas_used(frame)' = frame_state_gas_used(g)
    BY <1>1, <2>1 DEF Growth, account_info_empty, frame_succeeded, frame_state_gas_used
  <2> QED  BY <1>1, <2>1, <2>3, <2>4 DEF GrowthOK, InFlight
<1> QED  BY <1>7, <1>8, <1>9, <1>10, <1>11, <1>12, <1>13

(* A value transfer conserves ether and pays for what it opens.            *)
LEMMA TransferFacts ==
    ASSUME TypeOK, tx \in Transactions[fork], NEW w \in World,
           tx.value <= w.balance[tx.sender]
    PROVE  /\ k_transfer(w) \in World
           /\ k_transfer(w).nonce = w.nonce /\ k_transfer(w).code = w.code
           /\ k_transfer(w).grown = w.grown
           /\ SumFunction(k_transfer(w).balance) = SumFunction(w.balance)
           /\ \A a \in Accounts \ {tx.sender, tx.target} :
                 k_transfer(w).balance[a] = w.balance[a]
           /\ tx.value = 0 => \A a \in Accounts : k_transfer(w).balance[a] = w.balance[a]
<1>1. tx.sender \in Accounts /\ tx.target \in Accounts
  BY TxFacts
<1>2. PICK v \in Nat : v = tx.value
  BY TxFacts
<1>3. PICK b \in [Accounts -> Nat] : b = w.balance
  BY DEF World
<1> DEFINE m == [b EXCEPT ![tx.sender] = @ - v]
           n == [m EXCEPT ![tx.target] = @ + v]
<1>4. /\ m \in [Accounts -> Nat] /\ m[tx.sender] = b[tx.sender] - v
      /\ \A a \in Accounts \ {tx.sender} : m[a] = b[a]
  BY <1>1, <1>2, <1>3
<1>5. /\ n \in [Accounts -> Nat] /\ n[tx.target] = m[tx.target] + v
      /\ \A a \in Accounts \ {tx.target} : n[a] = m[a]
  <2> HIDE DEF m
  <2> QED  BY <1>1, <1>4
<1>7. k_transfer(w) = [w EXCEPT !.balance = n]
  BY <1>2, <1>3 DEF k_transfer
<1> HIDE DEF m, n
<1>8. PICK x : x = k_transfer(w)
  OBVIOUS
<1>9. /\ x \in World /\ x.nonce = w.nonce /\ x.code = w.code /\ x.grown = w.grown
      /\ x.balance = n
  BY <1>5, <1>7, <1>8 DEF World
<1>10. SumFunction(n) = SumFunction(b)
  <2>1. m[tx.sender] = b[tx.sender] + (0 - v) /\ 0 - v \in Int /\ v \in Int
    BY <1>1, <1>3, <1>4
  <2>2. SumFunction(m) = SumFunction(b) + (0 - v)
    BY <2>1, <1>1, <1>4, BalanceChange
  <2>3. SumFunction(n) = SumFunction(m) + v
    BY <2>1, <1>1, <1>4, <1>5, BalanceChange
  <2>4. SumFunction(b) \in Int
    BY <1>3, BalanceSum
  <2> QED  BY <2>2, <2>3, <2>4
<1>11. \A a \in Accounts \ {tx.sender, tx.target} : n[a] = b[a]
  BY <1>4, <1>5
<1>12. tx.value = 0 => \A a \in Accounts : n[a] = b[a]
  <2>1. SUFFICES ASSUME v = 0, NEW a \in Accounts PROVE n[a] = b[a]
    BY <1>2
  <2>2. m[a] = b[a]
    BY <1>1, <1>3, <1>4, <2>1
  <2>3. m[a] \in Nat /\ (n[a] = m[a] \/ n[a] = m[a] + 0)
    BY <1>4, <1>5, <2>1
  <2> QED  BY <2>2, <2>3
<1> QED  BY <1>3, <1>8, <1>9, <1>10, <1>11, <1>12

(* What holds of the world when the frame is entered.                      *)
LEMMA EntryWorld ==
    ASSUME TransactionInv, phase = "frame"
    PROVE  /\ tx \in Transactions[fork]
           /\ tx.sender \in Accounts /\ tx.target \in Accounts
           /\ tx.is_create => tx.target # tx.sender
           /\ frame \in Frame /\ frame.status = "Running"
           /\ world \in World
           /\ tx.value <= world.balance[tx.sender]
           /\ world.nonce[tx.sender] > 0
<1>1. tx \in Transactions[fork] /\ TypeOK
  BY DEF TransactionInv, AdmittedOK, InFlight
<1>2. /\ world.nonce[tx.sender] > 0 /\ tx.value <= charged.balance[tx.sender]
      /\ world.balance = charged.balance
  BY DEF TransactionInv, WorldsOK, InFlight, AuthorizedOnly
<1>3. frame.status = "Running"
  BY DEF TransactionInv, FrameOK
<1> QED  BY <1>1, <1>2, <1>3, TxFacts DEF TypeOK

(* What a message call does before its frame runs.                         *)
LEMMA CallEffect ==
    ASSUME TransactionInv, phase = "frame", ~tx.is_create
    PROVE  Effect(k_transfer(world))
<1>1. /\ tx \in Transactions[fork] /\ world \in World
      /\ tx.sender \in Accounts /\ tx.target \in Accounts
      /\ tx.value <= world.balance[tx.sender] /\ world.nonce[tx.sender] > 0
  BY EntryWorld
<1>2. PICK w : w = k_transfer(world)
  OBVIOUS
<1>3. /\ w \in World /\ w.nonce = world.nonce /\ w.code = world.code
      /\ w.grown = world.grown /\ SumFunction(w.balance) = SumFunction(world.balance)
      /\ \A a \in Accounts \ {tx.sender, tx.target} : w.balance[a] = world.balance[a]
      /\ tx.value = 0 => \A a \in Accounts : w.balance[a] = world.balance[a]
  BY <1>1, <1>2, TransferFacts DEF TransactionInv
<1>4. ASSUME NEW a \in NewAccounts(w), a \notin NewAccounts(world)
      PROVE  a = tx.target /\ Opens(world)
  <2>1. /\ a \in Accounts \ {Coinbase} /\ ~account_info_empty(w, a)
        /\ account_info_empty(world, a)
    BY <1>4 DEF NewAccounts
  <2>2. a # tx.sender
    BY <1>1, <2>1 DEF account_info_empty
  <2>3. w.balance[a] # world.balance[a]
    BY <1>3, <2>1 DEF account_info_empty
  <2>4. a = tx.target /\ tx.value # 0
    BY <1>3, <2>1, <2>2, <2>3
  <2>5. tx.value > 0
    BY <1>1, <2>4, TxFacts DEF TransactionInv
  <2> QED  BY <2>1, <2>4, <2>5 DEF Opens
<1>5. NewDelegations(w) = NewDelegations(world)
  BY <1>3 DEF NewDelegations
<1>6. NewAccounts(w) \subseteq
        NewAccounts(world) \cup (IF Opens(world) THEN {tx.target} ELSE {})
  BY <1>4
<1> QED  BY <1>1, <1>2, <1>3, <1>5, <1>6 DEF Effect

(* The frame of a message call.                                            *)
LEMMA CallFrameKeeps ==
    ASSUME TransactionInv, run_call_transaction_frame, UNCHANGED <<fork, charged>>
    PROVE  TransactionInv'
<1>1. phase = "frame" /\ ~tx.is_create
  BY DEF run_call_transaction_frame
<1>2. PICK g \in interpret(frame) : FrameEnds(g, k_transfer(world))
  BY DEF run_call_transaction_frame
<1>3. g \in Frame /\ FrameContract(frame, g)
  BY <1>1, EntryWorld, InterpretFacts
<1>4. Effect(k_transfer(world))
  BY <1>1, CallEffect
<1> QED  BY <1>1, <1>2, <1>3, <1>4, FrameEndsKeeps

(* The world with the created account.                                     *)
LEMMA BornFacts ==
    ASSUME TransactionInv, phase = "frame", NEW n
    PROVE  /\ Born(world, n) \in World
           /\ Born(world, n).balance = world.balance
           /\ Born(world, n).grown = world.grown
           /\ Born(world, n).code[tx.target] # "delegated"
           /\ \A a \in Accounts \ {tx.target} :
                 /\ Born(world, n).nonce[a] = world.nonce[a]
                 /\ Born(world, n).code[a] = world.code[a]
<1>1. world \in World /\ tx.target \in Accounts
  BY EntryWorld
<1>2. world.nonce \in [Accounts -> Nat] /\ world.code \in [Accounts -> Codes]
  BY <1>1 DEF World
<1>3. PICK c \in Codes : c = (IF n = 0 THEN "empty" ELSE "contract")
  BY DEF Codes
<1> DEFINE nn == [world.nonce EXCEPT ![tx.target] = @ + 1]
           nc == [world.code EXCEPT ![tx.target] = c]
<1>4. /\ nn \in [Accounts -> Nat]
      /\ \A a \in Accounts \ {tx.target} : nn[a] = world.nonce[a]
  BY <1>1, <1>2
<1>5. /\ nc \in [Accounts -> Codes] /\ nc[tx.target] = c
      /\ \A a \in Accounts \ {tx.target} : nc[a] = world.code[a]
  BY <1>1, <1>2
<1>6. Born(world, n) = [world EXCEPT !.nonce = nn, !.code = nc]
  BY <1>1, <1>3 DEF Born, World
<1> HIDE DEF nn, nc
<1>7. PICK w : w = Born(world, n)
  OBVIOUS
<1>8. /\ w \in World /\ w.balance = world.balance /\ w.grown = world.grown
      /\ w.nonce = nn /\ w.code = nc
  BY <1>1, <1>4, <1>5, <1>6, <1>7 DEF World
<1>9. c # "delegated"
  BY <1>3
<1> QED  BY <1>4, <1>5, <1>7, <1>8, <1>9

(* What a creation does before its frame runs.                             *)
LEMMA CreateEffect ==
    ASSUME TransactionInv, phase = "frame", tx.is_create, NEW n
    PROVE  Effect(k_transfer(Born(world, n)))
<1>1. /\ tx \in Transactions[fork] /\ world \in World
      /\ tx.sender \in Accounts /\ tx.target \in Accounts /\ tx.target # tx.sender
      /\ tx.value <= world.balance[tx.sender] /\ world.nonce[tx.sender] > 0
  BY EntryWorld
<1>2. PICK b : b = Born(world, n)
  OBVIOUS
<1>3. /\ b \in World /\ b.balance = world.balance /\ b.grown = world.grown
      /\ b.code[tx.target] # "delegated"
      /\ \A a \in Accounts \ {tx.target} :
            b.nonce[a] = world.nonce[a] /\ b.code[a] = world.code[a]
  BY <1>2, BornFacts
<1>4. PICK w : w = k_transfer(b)
  OBVIOUS
<1>5. /\ w \in World /\ w.nonce = b.nonce /\ w.code = b.code
      /\ w.grown = world.grown /\ SumFunction(w.balance) = SumFunction(world.balance)
      /\ \A a \in Accounts \ {tx.sender, tx.target} : w.balance[a] = world.balance[a]
  <2>1. tx.value <= b.balance[tx.sender]
    BY <1>1, <1>3
  <2> QED  BY <1>1, <1>3, <1>4, <2>1, TransferFacts DEF TransactionInv
<1>6. ASSUME NEW a \in NewAccounts(w), a \notin NewAccounts(world)
      PROVE  a = tx.target /\ Opens(world)
  <2>1. /\ a \in Accounts \ {Coinbase} /\ ~account_info_empty(w, a)
        /\ account_info_empty(world, a)
    BY <1>6 DEF NewAccounts
  <2>2. a # tx.sender
    BY <1>1, <2>1 DEF account_info_empty
  <2>3. a = tx.target
    BY <1>3, <1>5, <2>1, <2>2 DEF account_info_empty
  <2> QED  BY <2>1, <2>3 DEF Opens
<1>7. NewDelegations(w) \subseteq NewDelegations(world)
  <2>1. SUFFICES ASSUME NEW a \in NewDelegations(w) PROVE a \in NewDelegations(world)
    OBVIOUS
  <2>2. a \in Accounts /\ w.code[a] = "delegated" /\ InitialWorld.code[a] # "delegated"
    BY <2>1 DEF NewDelegations
  <2>3. a # tx.target
    BY <1>3, <1>5, <2>2
  <2>4. world.code[a] = "delegated"
    BY <1>3, <1>5, <2>2, <2>3
  <2> QED  BY <2>2, <2>4 DEF NewDelegations
<1>8. NewAccounts(w) \subseteq
        NewAccounts(world) \cup (IF Opens(world) THEN {tx.target} ELSE {})
  BY <1>6
<1>9. w.nonce[tx.sender] > 0
  BY <1>1, <1>3, <1>5
<1> QED  BY <1>2, <1>4, <1>5, <1>7, <1>8, <1>9 DEF Effect

(* The frame of a creation, and the deposit for its code.                  *)
LEMMA CreateFrameKeeps ==
    ASSUME TransactionInv, run_create_transaction_frame, UNCHANGED <<fork, charged>>
    PROVE  TransactionInv'
<1>1. phase = "frame" /\ tx.is_create
  BY DEF run_create_transaction_frame
<1>2. PICK g \in interpret(frame), n \in Deposits :
        LET ended == IF frame_succeeded(g)
                     THEN {Deployed(g, n), exceptional_state(g)} ELSE {g}
        IN  \E e \in ended : FrameEnds(e, k_transfer(Born(world, n)))
  BY DEF run_create_transaction_frame
<1>3. PICK e : /\ \/ e = g
                  \/ frame_succeeded(g) /\ e = Deployed(g, n)
                  \/ e = exceptional_state(g)
               /\ FrameEnds(e, k_transfer(Born(world, n)))
  BY <1>2
<1>4. g \in Frame /\ FrameContract(frame, g) /\ frame \in Frame
  BY <1>1, EntryWorld, InterpretFacts
<1>5. n \in Nat /\ TypeOK
  BY Numbers DEF TransactionInv
<1>6. e \in Frame /\ FrameContract(frame, e)
  <2>1. CASE e = g
    BY <2>1, <1>4
  <2>2. CASE frame_succeeded(g) /\ e = Deployed(g, n)
    BY <2>2, <1>4, <1>5, DeployedContract
  <2>3. CASE e = exceptional_state(g)
    BY <2>3, <1>4, <1>5, ExceptionalFacts, ExceptionalContract
  <2> QED  BY <1>3, <2>1, <2>2, <2>3
<1>7. Effect(k_transfer(Born(world, n)))
  BY <1>1, CreateEffect
<1> QED  BY <1>1, <1>3, <1>6, <1>7, FrameEndsKeeps

(* A creation that collides ends like an exception.                        *)
LEMMA CollisionKeeps ==
    ASSUME TransactionInv, create_transaction_collides, UNCHANGED <<fork, charged>>
    PROVE  TransactionInv'
<1>1. phase = "frame" /\ FrameEnds(exceptional_state(frame), world)
  BY DEF create_transaction_collides
<1>2. exceptional_state(frame) \in Frame /\ FrameContract(frame, exceptional_state(frame))
  BY <1>1, EntryWorld, ExceptionalFacts, ExceptionalContract DEF TransactionInv
<1>3. Effect(world)
  BY <1>1, EntryWorld DEF Effect
<1> QED  BY <1>1, <1>2, <1>3, FrameEndsKeeps

-----------------------------------------------------------------------------
(* The gas of a frame that fits adds up.                                   *)
LEMMA SnapshotFacts ==
    ASSUME TypeOK, tx \in Transactions[fork], frame \in Frame,
           NEW base \in Nat, Fits(frame, base), NEW ok \in BOOLEAN
    PROVE  LET delta == base + frame_state_gas_used(frame)
               res == tx_frame_gas_snapshot(ok, frame.gas, frame.state_gas,
                                            delta, frame.refund)
           IN  /\ snapshot_valid(frame.gas, frame.state_gas, delta)
               /\ res \in [success : BOOLEAN, remaining : Nat, state_used : Nat,
                           refund : Int]
               /\ res.success = ok
               /\ res.state_used = delta /\ delta \in Nat /\ delta >= base
               /\ res.remaining + res.state_used <= tx.gas_limit
               /\ tx.gas_limit - res.remaining - res.state_used <= Regular(tx)
<1>1. PICK x \in Nat, s \in Nat, p \in Nat, r \in Nat, q \in Int :
        x = frame.gas /\ s = frame.state_gas /\ p = frame.spill /\ r = frame.reservoir
        /\ q = frame.refund
  BY FrameFacts
<1>2. PICK l \in Nat, k \in Nat : l = tx.gas_limit /\ k = Regular(tx)
  BY TxFacts
<1>3. x + p + r + base <= l /\ r + base >= l - k /\ s <= r + p
  BY <1>1, <1>2 DEF Fits
<1>4. PICK d \in Nat : d = base + frame_state_gas_used(frame) /\ d = base + (r - s + p)
                       /\ d >= base
  <2>1. r - s + p \in Nat /\ frame_state_gas_used(frame) = r - s + p
    BY <1>1, <1>3 DEF frame_state_gas_used
  <2> QED  BY <2>1
<1>5. l - x - s >= 0 /\ d <= l - x - s /\ l - x - s - d <= k
  BY <1>3, <1>4
<1>6. snapshot_valid(x, s, d)
  <2>1. d <= 0 => l - x - s <= k
    BY <1>5
  <2> QED  BY <1>2, <1>5, <2>1 DEF snapshot_valid
<1>7. PICK res : res = tx_frame_gas_snapshot(ok, x, s, d, q)
  OBVIOUS
<1>8. PICK e \in Int : e = IF ok THEN q ELSE 0
  OBVIOUS
<1>9. Greater(d, 0) = d
  BY DEF Greater
<1>10. res = [success |-> ok, remaining |-> x + s, state_used |-> d, refund |-> e]
  BY <1>7, <1>8, <1>9 DEF tx_frame_gas_snapshot
<1>11. /\ res.success = ok /\ res.state_used = d /\ res.remaining = x + s
  BY <1>10
<1>12. x + s \in Nat
  OBVIOUS
<1>13. res \in [success : BOOLEAN, remaining : Nat, state_used : Nat, refund : Int]
  BY <1>10, <1>12
<1>14. x + s + d <= l /\ l - (x + s) - d <= k
  BY <1>5
<1> QED  BY <1>1, <1>2, <1>4, <1>6, <1>7, <1>11, <1>13, <1>14

(* The scopes are closed and the gas captured.                             *)
LEMMA EndFrameKeeps ==
    ASSUME TransactionInv, phase = "ran", NEW base \in Nat, Fits(frame, base),
           fork >= Amsterdam => base = context.state_gas,
           EndFrame(frame_succeeded(frame), frame.gas, frame.state_gas,
                    base + frame_state_gas_used(frame), frame.refund),
           scopes' \in Seq(World), Len(scopes') = 0,
           world' = IF frame_succeeded(frame) THEN world ELSE scopes[Len(scopes)],
           scopes[Len(scopes)] \in World,
           UNCHANGED <<fork, charged, count, tx, frame, context, usage, blob_gas>>
    PROVE  TransactionInv'
<1> USE DEF TransactionInv
<1>1. tx \in Transactions[fork] /\ frame \in Frame
  BY DEF AdmittedOK, InFlight, TypeOK
<1>2. PICK ok \in BOOLEAN : ok <=> frame_succeeded(frame)
  BY DEF frame_succeeded
<1>3. PICK d \in Nat : d = base + frame_state_gas_used(frame) /\ d >= base
  BY <1>1, SnapshotFacts
<1>4. /\ snapshot_valid(frame.gas, frame.state_gas, d)
      /\ tx_frame_gas_snapshot(ok, frame.gas, frame.state_gas, d, frame.refund)
           \in [success : BOOLEAN, remaining : Nat, state_used : Nat, refund : Int]
      /\ tx_frame_gas_snapshot(ok, frame.gas, frame.state_gas, d, frame.refund).success = ok
      /\ tx_frame_gas_snapshot(ok, frame.gas, frame.state_gas, d, frame.refund).state_used = d
      /\ tx_frame_gas_snapshot(ok, frame.gas, frame.state_gas, d, frame.refund).remaining
           + d <= tx.gas_limit
      /\ tx.gas_limit
           - tx_frame_gas_snapshot(ok, frame.gas, frame.state_gas, d, frame.refund).remaining
           - d <= Regular(tx)
  BY <1>1, <1>3, SnapshotFacts
<1>5. frame_succeeded(frame) = ok
  BY <1>2 DEF frame_succeeded
<1>6. /\ phase' = "settling"
      /\ result' = tx_frame_gas_snapshot(ok, frame.gas, frame.state_gas, d, frame.refund)
  BY <1>3, <1>4, <1>5 DEF EndFrame
<1>7. /\ result' \in [success : BOOLEAN, remaining : Nat, state_used : Nat, refund : Int]
      /\ result'.success = ok /\ result'.state_used = d
      /\ result'.remaining + result'.state_used <= tx.gas_limit
      /\ tx.gas_limit - result'.remaining - result'.state_used <= Regular(tx)
  BY <1>4, <1>6
<1>8. TypeOK'
  <2>1. world' \in World
    BY DEF TypeOK
  <2> QED  BY <1>6, <1>7, <2>1 DEF TypeOK, OpenScopes, Phases
<1>9. AdmittedOK' /\ BlockWithinLimits'
  BY <1>6, AdmittedKept DEF InFlight
<1>10. FrameOK'
  <2>1. Regular(tx)' = Regular(tx)
    BY DEF Regular, transaction_regular_limit
  <2> QED  BY <1>6, <1>7, <2>1 DEF FrameOK
<1>11. /\ tx.value <= charged.balance[tx.sender] /\ charged.nonce[tx.sender] > 0
       /\ world.nonce[tx.sender] > 0 /\ AuthorizedOnly(scopes[Len(scopes)])
  BY DEF WorldsOK, InFlight
<1>12. CASE ok
  <2>1. world' = world
    BY <1>2, <1>12
  <2>2. WorldsOK'
    BY <1>6, <1>7, <1>11, <1>12, <2>1 DEF WorldsOK, InFlight
  <2>3. EtherOK'
    <3>1. SumFunction(world'.balance) = SumFunction(charged.balance)
      BY <2>1 DEF EtherOK, InFlight
    <3> QED  BY <1>6, <3>1, EtherKept DEF InFlight
  <2>4. GrowthOK'
    <3> SUFFICES ASSUME BaseFee > 0, fork >= Amsterdam PROVE GrowthOK'
      BY DEF GrowthOK
    <3>1. /\ usage.state >= Growth(charged)
          /\ usage.state + base + frame_state_gas_used(frame) >= Growth(world)
      BY <1>2, <1>12 DEF GrowthOK, InFlight
    <3>2. usage.state + d >= Growth(world)
      <4>1. frame_state_gas_used(frame) \in Int /\ usage.state \in Nat
        BY <1>1, UsedType DEF TypeOK
      <4>2. PICK u \in Nat, x \in Int : u = usage.state /\ x = frame_state_gas_used(frame)
        BY <4>1
      <4>3. d = base + x
        BY <1>3, <4>2
      <4>4. u + d = u + base + x
        BY <4>3
      <4> QED  BY <3>1, <4>2, <4>4
    <3>3. Growth(world)' = Growth(world) /\ Growth(charged)' = Growth(charged)
      BY <2>1 DEF Growth, account_info_empty
    <3> QED  BY <1>6, <1>7, <3>1, <3>2, <3>3 DEF GrowthOK, InFlight
  <2>5. TrackerOK' /\ FatalOK'
    BY <1>6 DEF TrackerOK, FatalOK
  <2> QED  BY <1>8, <1>9, <1>10, <2>2, <2>3, <2>4, <2>5
<1>13. CASE ~ok
  <2>1. world' = scopes[Len(scopes)]
    BY <1>2, <1>13
  <2>2. AuthorizedOnly(world)'
    BY <1>11, <2>1 DEF AuthorizedOnly, Authorities
  <2>3. ~PreparationFailed'
    <3>1. frame.status # "Running" /\ AuthsDone
      BY DEF FrameOK
    <3> QED  BY <3>1 DEF PreparationFailed, AuthsDone
  <2>4. world'.nonce[tx.sender] > 0
    <3>1. tx.sender \in Accounts
      BY <1>1, TxFacts
    <3>2. world'.nonce[tx.sender] \in Nat /\ charged.nonce[tx.sender] \in Nat
      BY <2>1, <3>1, WorldFacts DEF TypeOK
    <3>3. world'.nonce[tx.sender] >= charged.nonce[tx.sender]
      BY <2>2, <3>1 DEF AuthorizedOnly
    <3> QED  BY <1>11, <3>2, <3>3
  <2>5. WorldsOK'
    BY <1>6, <1>7, <1>11, <2>2, <2>3, <2>4 DEF WorldsOK, InFlight
  <2>6. EtherOK'
    <3>1. SumFunction(world'.balance) = SumFunction(charged.balance)
      BY <2>2 DEF AuthorizedOnly
    <3> QED  BY <1>6, <3>1, EtherKept DEF InFlight
  <2>7. GrowthOK'
    <3> SUFFICES ASSUME BaseFee > 0, fork >= Amsterdam PROVE GrowthOK'
      BY DEF GrowthOK
    <3>1. /\ usage.state >= Growth(charged)
          /\ usage.state + base >= Growth(scopes[Len(scopes)])
      BY DEF GrowthOK, InFlight
    <3>2. usage.state + d >= Growth(world')
      <4>1. usage.state \in Nat /\ Growth(world') \in Nat
        <5>1. {} \in SUBSET Accounts /\ world' \in World
          BY <2>1
        <5> QED  BY <5>1, GrowthGain DEF TypeOK
      <4> QED  BY <1>3, <2>1, <3>1, <4>1
    <3>3. Growth(world)' = Growth(world') /\ Growth(charged)' = Growth(charged)
      BY DEF Growth, account_info_empty
    <3> QED  BY <1>6, <1>7, <3>1, <3>2, <3>3 DEF GrowthOK, InFlight
  <2>8. TrackerOK' /\ FatalOK'
    BY <1>6 DEF TrackerOK, FatalOK
  <2> QED  BY <1>8, <1>9, <1>10, <2>5, <2>6, <2>7, <2>8
<1> QED  BY <1>12, <1>13

(* The end of a frame before Amsterdam.                                    *)
LEMMA LegacyEndKeeps ==
    ASSUME TransactionInv, end_legacy_frame, UNCHANGED <<fork, charged>>
    PROVE  TransactionInv'
<1> USE DEF TransactionInv
<1>1. /\ phase = "ran" /\ fork < Amsterdam
      /\ scopes' = Front(scopes)
      /\ world' = IF frame_succeeded(frame) THEN world ELSE Last(scopes)
      /\ EndFrame(frame_succeeded(frame), frame.gas, frame.state_gas,
                  frame_state_gas_used(frame), frame.refund)
      /\ UNCHANGED <<count, tx, frame, context, usage, blob_gas>>
  BY DEF end_legacy_frame
<1>2. /\ tx \in Transactions[fork] /\ frame \in Frame /\ ~(fork >= Amsterdam)
      /\ tx.gas_limit <= transaction_total_limit
  BY <1>1, ForkFacts DEF AdmittedOK, InFlight, TypeOK, Amsterdam
<1>3. scopes \in Seq(World) /\ Len(scopes) = 1 /\ scopes # <<>>
  <2>1. scopes \in Seq(World) /\ Len(scopes) = 1
    BY <1>1, <1>2 DEF TypeOK, OpenScopes
  <2> QED  BY <2>1, NotEmpty
<1>4. /\ scopes' \in Seq(World) /\ Len(scopes') = 0
      /\ Last(scopes) = scopes[Len(scopes)] /\ scopes[Len(scopes)] \in World
  <2>1. /\ Front(scopes) \in Seq(World) /\ Len(Front(scopes)) = Len(scopes) - 1
        /\ Last(scopes) = scopes[Len(scopes)] /\ Last(scopes) \in World
    BY <1>3, PopFacts
  <2> QED  BY <1>1, <1>3, <2>1
<1>5. Fits(frame, 0)
  <2>1. context.state_gas \in Nat /\ Fits(frame, context.state_gas)
    BY <1>1 DEF FrameOK, TypeOK, Context
  <2>2. Regular(tx) = tx.gas_limit /\ tx.gas_limit \in Nat
    BY <1>1, <1>2, TxFacts
  <2>3. PICK x \in Nat, s \in Nat, p \in Nat, r \in Nat :
          x = frame.gas /\ s = frame.state_gas /\ p = frame.spill /\ r = frame.reservoir
    BY <1>2, FrameFacts
  <2>4. PICK c \in Nat, l \in Nat : c = context.state_gas /\ l = tx.gas_limit
    BY <2>1, <2>2
  <2>5. x + p + r + c <= l /\ s <= r + p
    BY <2>1, <2>3, <2>4 DEF Fits
  <2>6. x + p + r + 0 <= l /\ r + 0 >= l - l
    BY <2>5
  <2> QED  BY <2>2, <2>3, <2>4, <2>5, <2>6 DEF Fits
<1>6. 0 + frame_state_gas_used(frame) = frame_state_gas_used(frame)
  <2>1. frame_state_gas_used(frame) \in Int
    BY <1>2, FrameFacts DEF frame_state_gas_used
  <2> QED  BY <2>1
<1>7. EndFrame(frame_succeeded(frame), frame.gas, frame.state_gas,
               0 + frame_state_gas_used(frame), frame.refund)
  BY <1>1, <1>6
<1>8. world' = IF frame_succeeded(frame) THEN world ELSE scopes[Len(scopes)]
  BY <1>1, <1>4
<1>9. 0 \in Nat
  OBVIOUS
<1> QED  BY <1>1, <1>2, <1>4, <1>5, <1>7, <1>8, <1>9, EndFrameKeeps

(* The end of a frame from Amsterdam on.                                   *)
LEMMA AmsterdamEndKeeps ==
    ASSUME TransactionInv, end_amsterdam_frame, UNCHANGED <<fork, charged>>
    PROVE  TransactionInv'
<1> USE DEF TransactionInv
<1>1. /\ phase = "ran" /\ fork >= Amsterdam
      /\ scopes' = Front(Front(scopes))
      /\ world' = IF frame_succeeded(frame) THEN world ELSE Last(scopes)
      /\ EndFrame(frame_succeeded(frame), frame.gas, frame.state_gas,
                  context.state_gas + frame_state_gas_used(frame), frame.refund)
      /\ UNCHANGED <<count, tx, frame, context, usage, blob_gas>>
  BY DEF end_amsterdam_frame
<1>2. scopes \in Seq(World) /\ Len(scopes) = 2 /\ scopes # <<>>
  <2>1. scopes \in Seq(World) /\ Len(scopes) = 2
    BY <1>1 DEF TypeOK, OpenScopes
  <2> QED  BY <2>1, NotEmpty
<1>3. /\ scopes' \in Seq(World) /\ Len(scopes') = 0
      /\ Last(scopes) = scopes[Len(scopes)] /\ scopes[Len(scopes)] \in World
  <2>1. PICK s : s = Front(scopes)
    OBVIOUS
  <2>2. /\ s \in Seq(World) /\ Len(s) = Len(scopes) - 1
        /\ Last(scopes) = scopes[Len(scopes)] /\ Last(scopes) \in World
    BY <1>2, <2>1, PopFacts
  <2>3. Len(s) = 1
    BY <1>2, <2>2
  <2>4. s # <<>>
    BY <2>3, NotEmpty
  <2>5. Front(s) \in Seq(World) /\ Len(Front(s)) = Len(s) - 1
    BY <2>2, <2>4, PopFacts
  <2>6. scopes' = Front(s) /\ Len(s) - 1 = 0
    BY <1>1, <2>1, <2>3
  <2> QED  BY <2>2, <2>5, <2>6
<1>4. context.state_gas \in Nat /\ Fits(frame, context.state_gas)
  BY <1>1 DEF FrameOK, TypeOK, Context
<1>5. world' = IF frame_succeeded(frame) THEN world ELSE scopes[Len(scopes)]
  BY <1>1, <1>3
<1> QED  BY <1>1, <1>3, <1>4, <1>5, EndFrameKeeps

-----------------------------------------------------------------------------
(* The gas a transaction is charged: never more than its limit, and never  *)
(* more than the block accounts for in its two dimensions.                 *)
LEMMA GasUsedFacts ==
    ASSUME TransactionInv, phase = "settling"
    PROVE  /\ gas_used \in Nat /\ gas_used <= tx.gas_limit
           /\ execution_gas \in Nat /\ execution_gas <= Regular(tx)
           /\ gas_used <= execution_gas + result.state_used
           /\ result.state_used \in Nat /\ result.state_used <= tx.gas_limit
<1>1. tx \in Transactions[fork] /\ TypeOK /\ FloorCovered(tx)
  BY DEF TransactionInv, AdmittedOK, InFlight
<1>2. PICK l \in Nat, k \in Nat : l = tx.gas_limit /\ k = Regular(tx) /\ k <= l
  BY <1>1, TxFacts
<1>3. PICK m \in Nat, s \in Nat, q \in Int :
        m = result.remaining /\ s = result.state_used /\ q = result.refund
  BY <1>1 DEF TypeOK
<1>4. m + s <= l /\ l - m - s <= k
  BY <1>2, <1>3 DEF TransactionInv, FrameOK
<1>5. PICK f \in Nat : f = floor /\ f <= k
  <2>1. tx.floor \in Nat /\ tx.floor <= k
    BY <1>1, <1>2, TxFacts DEF FloorCovered
  <2> QED  BY <1>2, <2>1 DEF floor
<1>6. PICK c \in Nat : c = (l - m) \div refund_divisor /\ c <= l - m
  <2>1. PICK g \in Nat : g = l - m
    BY <1>4
  <2>2. refund_divisor = 2 \/ refund_divisor = 5
    BY DEF refund_divisor
  <2>3. g \div 2 \in Nat /\ g \div 2 <= g /\ g \div 5 \in Nat /\ g \div 5 <= g
    OBVIOUS
  <2> QED  BY <2>1, <2>2, <2>3
<1>7. PICK t \in Int : t = context.refund + q
  BY <1>1 DEF TypeOK, Context
<1>8. PICK r \in Nat : r = Lesser(Greater(t, 0), c) /\ r <= l - m
  BY <1>6 DEF Lesser, Greater
<1>9. remaining_gas_after_refund = m + r
  BY <1>2, <1>3, <1>6, <1>7, <1>8 DEF remaining_gas_after_refund
<1>10. /\ gas_used = Greater(l - (m + r), f)
       /\ execution_gas = Greater(l - m - s, f)
  BY <1>2, <1>3, <1>5, <1>9 DEF gas_used, execution_gas
<1>11. gas_used \in Nat /\ gas_used <= l
  BY <1>2, <1>5, <1>8, <1>10 DEF Greater
<1>12. execution_gas \in Nat /\ execution_gas <= k
  BY <1>4, <1>5, <1>10 DEF Greater
<1>13. gas_used <= execution_gas + s
  BY <1>4, <1>5, <1>8, <1>10 DEF Greater
<1> QED  BY <1>2, <1>3, <1>4, <1>11, <1>12, <1>13

(* What is paid back and what the coinbase gets leave the base fee burned. *)
LEMMA FeeSplit ==
    ASSUME NEW price \in Nat, NEW fee \in Nat, fee <= price,
           NEW limit \in Nat, NEW used \in Nat, used <= limit
    PROVE  /\ price * (limit - used) \in Nat /\ (price - fee) * used \in Nat
           /\ price * limit \in Nat /\ fee * used \in Nat
           /\ price * (limit - used) + (price - fee) * used
                = price * limit - fee * used
<1>1. PICK back \in Nat : back = limit - used
  OBVIOUS
<1>2. PICK tip \in Nat : tip = price - fee
  OBVIOUS
<1>3. limit = back + used /\ price = tip + fee
  BY <1>1, <1>2
<1>4. price * (back + used) = price * back + price * used
  OBVIOUS
<1>5. (tip + fee) * used = tip * used + fee * used
  OBVIOUS
<1>6. price * back \in Nat /\ price * used \in Nat /\ tip * used \in Nat /\ fee * used \in Nat
      /\ price * limit \in Nat
  OBVIOUS
<1> QED  BY <1>1, <1>2, <1>3, <1>4, <1>5, <1>6

(* The world after settlement.                                             *)
LEMMA PaidFacts ==
    ASSUME TransactionInv, phase = "settling"
    PROVE  /\ Paid \in World
           /\ Paid.nonce = world.nonce /\ Paid.code = world.code /\ Paid.grown = world.grown
           /\ \A a \in Accounts \ {tx.sender, Coinbase} :
                 Paid.balance[a] = world.balance[a]
           /\ SumFunction(Paid.balance) = SumFunction(world.balance)
                + (eff_gas_price(tx) * tx.gas_limit - BaseFee * gas_used)
           /\ eff_gas_price(tx) * tx.gas_limit \in Nat /\ BaseFee * gas_used \in Nat
<1>1. tx \in Transactions[fork] /\ TypeOK /\ BaseFee <= tx.max_fee
  BY DEF TransactionInv, AdmittedOK, InFlight
<1>2. /\ world \in World /\ tx.sender \in Accounts /\ Coinbase \in Accounts
  BY <1>1, TxFacts, Numbers DEF TypeOK
<1>3. PICK u \in Nat, l \in Nat, p \in Nat, e \in Nat :
        /\ u = gas_used /\ l = tx.gas_limit /\ p = eff_gas_price(tx) /\ e = BaseFee
        /\ u <= l /\ e <= p
  BY <1>1, GasUsedFacts, TxFacts, Numbers
<1>4. PICK x \in Nat, y \in Nat, z \in Nat, o \in Nat :
        /\ x = p * (l - u) /\ y = (p - e) * u /\ z = p * l /\ o = e * u
        /\ x + y = z - o
  <2>1. /\ p * (l - u) \in Nat /\ (p - e) * u \in Nat /\ p * l \in Nat /\ e * u \in Nat
        /\ p * (l - u) + (p - e) * u = p * l - e * u
    BY <1>3, FeeSplit
  <2> QED  BY <2>1
<1>5. PICK b \in [Accounts -> Nat] : b = world.balance
  BY <1>2 DEF World
<1> DEFINE m == [b EXCEPT ![tx.sender] = @ + x]
           n == [m EXCEPT ![Coinbase] = @ + y]
<1>6. /\ m \in [Accounts -> Nat] /\ m[tx.sender] = b[tx.sender] + x
      /\ \A a \in Accounts \ {tx.sender} : m[a] = b[a]
  BY <1>2, <1>5
<1>7. /\ n \in [Accounts -> Nat] /\ n[Coinbase] = m[Coinbase] + y
      /\ \A a \in Accounts \ {Coinbase} : n[a] = m[a]
  <2> HIDE DEF m
  <2> QED  BY <1>2, <1>6
<1>8. Paid = [world EXCEPT !.balance = n]
  BY <1>3, <1>4, <1>5 DEF Paid, eff_priority_fee
<1> HIDE DEF m, n
<1>9. PICK w : w = Paid
  OBVIOUS
<1>10. /\ w \in World /\ w.nonce = world.nonce /\ w.code = world.code
       /\ w.grown = world.grown /\ w.balance = n
  BY <1>2, <1>7, <1>8, <1>9 DEF World
<1>11. SumFunction(n) = SumFunction(b) + (z - o)
  <2>1. SumFunction(m) = SumFunction(b) + x
    BY <1>2, <1>6, BalanceChange
  <2>2. SumFunction(n) = SumFunction(m) + y
    BY <1>2, <1>6, <1>7, BalanceChange
  <2>3. SumFunction(b) \in Int
    BY <1>2, <1>5, BalanceSum
  <2>4. SumFunction(n) = SumFunction(b) + (x + y)
    BY <2>1, <2>2, <2>3
  <2> QED  BY <1>4, <2>4
<1>12. \A a \in Accounts \ {tx.sender, Coinbase} : n[a] = b[a]
  BY <1>6, <1>7
<1> QED  BY <1>3, <1>4, <1>5, <1>9, <1>10, <1>11, <1>12

(* The block's usage after the transaction stays within its limits.        *)
LEMMA UsageFacts ==
    ASSUME TransactionInv, phase = "settling"
    PROVE  LET v == block_gas_usage_add
           IN  /\ v \in [execution : Nat, state : Nat, receipts : Nat]
               /\ v.execution <= BlockLimit /\ v.state <= BlockLimit
               /\ v.receipts <= v.execution + v.state
               /\ v.receipts = usage.receipts + gas_used
               /\ fork >= Amsterdam => v.state = usage.state + result.state_used
<1>1. tx \in Transactions[fork] /\ TypeOK /\ BlockHasRoom(tx) /\ BlockWithinLimits
  BY DEF TransactionInv, AdmittedOK, InFlight
<1>2. PICK l \in Nat, k \in Nat, L \in Nat :
        l = tx.gas_limit /\ k = Regular(tx) /\ L = BlockLimit
  BY <1>1, TxFacts, Numbers
<1>3. PICK x \in Nat, s \in Nat, r \in Nat :
        x = usage.execution /\ s = usage.state /\ r = usage.receipts
  BY <1>1 DEF TypeOK
<1>4. PICK u \in Nat, e \in Nat, t \in Nat :
        /\ u = gas_used /\ e = execution_gas /\ t = result.state_used
        /\ u <= l /\ e <= k /\ t <= l /\ u <= e + t
  BY <1>2, GasUsedFacts
<1>5. x <= L /\ s <= L /\ r <= x + s
  BY <1>1, <1>2, <1>3 DEF BlockWithinLimits
<1>6. PICK v : v = block_gas_usage_add
  OBVIOUS
<1>7. CASE fork >= Amsterdam
  <2>1. v = [execution |-> x + e, state |-> s + t, receipts |-> r + u]
    BY <1>3, <1>4, <1>6, <1>7 DEF block_gas_usage_add
  <2>2. k <= L - x /\ l <= L - s
    BY <1>1, <1>2, <1>3, <1>7 DEF BlockHasRoom
  <2>3. x + e <= L /\ s + t <= L /\ r + u <= (x + e) + (s + t)
    BY <1>4, <1>5, <2>2
  <2>4. v.execution = x + e /\ v.state = s + t /\ v.receipts = r + u
        /\ v \in [execution : Nat, state : Nat, receipts : Nat]
    BY <2>1
  <2> QED  BY <1>2, <1>3, <1>4, <1>6, <1>7, <2>3, <2>4
<1>8. CASE ~(fork >= Amsterdam)
  <2>1. v = [execution |-> x + u, state |-> s, receipts |-> r + u]
    BY <1>3, <1>4, <1>6, <1>8 DEF block_gas_usage_add
  <2>2. l <= L - x
    BY <1>1, <1>2, <1>3, <1>8 DEF BlockHasRoom
  <2>3. x + u <= L /\ r + u <= (x + u) + s
    BY <1>4, <1>5, <2>2
  <2>4. v.execution = x + u /\ v.state = s /\ v.receipts = r + u
        /\ v \in [execution : Nat, state : Nat, receipts : Nat]
    BY <2>1
  <2> QED  BY <1>2, <1>3, <1>4, <1>5, <1>6, <1>8, <2>3, <2>4
<1> QED  BY <1>7, <1>8

(* Settlement: refund, fees, and the usage of the block.                   *)
LEMMA SettleKeeps ==
    ASSUME TransactionInv, settle_transaction, UNCHANGED fork, charged' \in World
    PROVE  TransactionInv'
<1>1. phase = "settling"
  BY DEF settle_transaction
<1>2. gas_used <= execution_gas + result.state_used
  BY <1>1, GasUsedFacts
<1>3. /\ phase' = "idle" /\ count' = count + 1 /\ tx' = NoTransaction
      /\ frame' = NoFrame /\ context' = NoContext /\ result' = NoResult
      /\ world' = Paid /\ usage' = block_gas_usage_add
      /\ blob_gas' = (IF fork < Cancun THEN blob_gas ELSE blob_gas + tx.blobs)
      /\ scopes' = scopes
  BY <1>1, <1>2 DEF settle_transaction
<1>4. /\ tx \in Transactions[fork] /\ count < MaxTransactions
      /\ tx.blobs > 0 => fork >= Cancun
      /\ TypeOK /\ EtherOK /\ GrowthOK /\ WorldsOK
  BY <1>1 DEF TransactionInv, AdmittedOK, InFlight
<1>5. /\ tx.blobs \in Nat /\ tx.sender \in Accounts /\ blob_gas \in Nat
      /\ fork \in Int /\ count \in Nat /\ MaxTransactions \in Nat
  BY <1>4, TxFacts, ForkFacts, Numbers DEF TypeOK
<1>6. blob_gas' \in Nat /\ blob_gas' = blob_gas + tx.blobs
  <2>1. CASE fork < Cancun
    <3>1. tx.blobs = 0
      BY <1>4, <1>5, <2>1 DEF Cancun
    <3> QED  BY <1>3, <1>5, <2>1, <3>1
  <2>2. CASE ~(fork < Cancun)
    BY <1>3, <1>5, <2>2
  <2> QED  BY <2>1, <2>2
<1>7. TypeOK'
  <2>1. NoFrame \in Frame /\ NoContext \in Context
        /\ NoResult \in [success : BOOLEAN, remaining : Nat, state_used : Nat, refund : Int]
    BY DEF NoFrame, NoContext, NoResult, Frame, Context, Statuses
  <2>2. count' \in 0..MaxTransactions
    BY <1>3, <1>4, <1>5
  <2>3. world' \in World
    BY <1>1, <1>3, PaidFacts
  <2>4. usage' \in [execution : Nat, state : Nat, receipts : Nat]
    BY <1>1, <1>3, UsageFacts
  <2>5. scopes' \in Seq(World) /\ Len(scopes') = 0
    BY <1>1, <1>3, <1>4 DEF TypeOK, OpenScopes
  <2>6. OpenScopes' = 0 /\ phase' \in Phases
    BY <1>3 DEF OpenScopes, Phases
  <2> QED  BY <1>3, <1>4, <1>6, <2>1, <2>2, <2>3, <2>4, <2>5, <2>6 DEF TypeOK
<1>8. AdmittedOK' /\ FrameOK' /\ WorldsOK' /\ TrackerOK' /\ FatalOK'
  BY <1>3 DEF AdmittedOK, FrameOK, WorldsOK, TrackerOK, FatalOK, InFlight
<1>9. BlockWithinLimits'
  BY <1>1, <1>3, UsageFacts DEF BlockWithinLimits
<1>10. EtherOK'
  <2>1. /\ SumFunction(charged.balance) + eff_gas_price(tx) * tx.gas_limit
             + BlobPrice * tx.blobs + Burned = SumFunction(InitialWorld.balance)
        /\ SumFunction(world.balance) = SumFunction(charged.balance)
    BY <1>1, <1>4 DEF EtherOK, InFlight
  <2>2. PICK c \in Int, z \in Nat, o \in Nat :
          /\ c = SumFunction(world.balance) /\ z = eff_gas_price(tx) * tx.gas_limit
          /\ o = BaseFee * gas_used /\ SumFunction(world'.balance) = c + (z - o)
    <3>1. SumFunction(world.balance) \in Int
      BY <1>4, BalanceSum DEF TypeOK
    <3> QED  BY <1>1, <1>3, <3>1, PaidFacts
  <2>3. PICK v \in Nat, g \in Nat, r \in Nat, h \in Nat, p \in Nat, e \in Nat :
          /\ v = tx.blobs /\ g = gas_used /\ r = usage.receipts /\ h = blob_gas
          /\ p = BlobPrice /\ e = BaseFee
    BY <1>1, <1>4, <1>5, GasUsedFacts, Numbers DEF TypeOK
  <2>4. usage'.receipts = r + g
    BY <1>1, <1>3, <2>3, UsageFacts
  <2>5. Burned' = e * (r + g) + p * (h + v) /\ Burned = e * r + p * h
    BY <1>6, <2>3, <2>4 DEF Burned
  <2>6. /\ e * (r + g) = e * r + e * g /\ p * (h + v) = p * h + p * v
        /\ e * r \in Nat /\ e * g \in Nat /\ p * h \in Nat /\ p * v \in Nat
    OBVIOUS
  <2>7. PICK er \in Nat, eg \in Nat, ph \in Nat, pv \in Nat :
          er = e * r /\ eg = e * g /\ ph = p * h /\ pv = p * v
    BY <2>6
  <2>8. Burned' = er + eg + (ph + pv) /\ Burned = er + ph
    BY <2>5, <2>6, <2>7
  <2>9. c + z + pv + Burned = SumFunction(InitialWorld.balance)
    BY <2>1, <2>2, <2>3, <2>7
  <2>10. eg = o
    BY <2>2, <2>3, <2>7
  <2>11. SumFunction(world'.balance) + Burned' = SumFunction(InitialWorld.balance)
    BY <2>2, <2>8, <2>9, <2>10
  <2> QED  BY <1>3, <2>11 DEF EtherOK, InFlight
<1>11. GrowthOK'
  <2> SUFFICES ASSUME BaseFee > 0, fork >= Amsterdam PROVE GrowthOK'
    BY DEF GrowthOK
  <2>1. usage.state + result.state_used >= Growth(world)
    BY <1>1, <1>4 DEF GrowthOK
  <2>2. usage'.state = usage.state + result.state_used
    BY <1>1, <1>3, UsageFacts
  <2>3. /\ world \in World /\ world' \in World
        /\ world'.nonce = world.nonce /\ world'.code = world.code
        /\ world'.grown = world.grown
        /\ \A a \in Accounts \ {tx.sender, Coinbase} : world'.balance[a] = world.balance[a]
    BY <1>1, <1>3, <1>4, PaidFacts DEF TypeOK
  <2>4. world.nonce[tx.sender] > 0
    BY <1>1, <1>4 DEF WorldsOK, InFlight
  <2>5. \A a \in Accounts \ {Coinbase} :
           account_info_empty(world', a) <=> account_info_empty(world, a)
    BY <2>3, <2>4 DEF account_info_empty
  <2>6. Growth(world') = Growth(world)
    BY <2>3, <2>5, GrowthSame
  <2>7. Growth(world)' = Growth(world')
    BY DEF Growth, account_info_empty
  <2> QED  BY <1>3, <2>1, <2>2, <2>6, <2>7 DEF GrowthOK, InFlight
<1> QED  BY <1>7, <1>8, <1>9, <1>10, <1>11 DEF TransactionInv

-----------------------------------------------------------------------------
(* Every step of the loop keeps the invariant.                             *)
LEMMA StepKeeps ==
    ASSUME TransactionInv, LNext
    PROVE  TransactionInv'
<1>1. CASE Terminated
  <2>1. UNCHANGED vars /\ phase \in {"done", "invalid", "fatal"}
    BY <1>1 DEF Terminated
  <2>2. UNCHANGED charged
    BY <2>1 DEF LNext, vars
  <2> QED  BY <2>1, <2>2, StutterKeeps
<1>2. CASE Step /\ UNCHANGED fork
  <2>1. /\ charged' = IF phase = "validated" THEN world'
                      ELSE IF phase' = "idle" THEN InitialWorld ELSE charged
        /\ UNCHANGED fork
    BY <1>2 DEF LNext
  <2>2. CASE next_transaction
    <3>1. phase = "idle" /\ count < MaxTransactions
      BY <2>2 DEF next_transaction
    <3>2. PICK t \in Transactions[fork] : admit(t) \/ reject(t)
      BY <2>2 DEF next_transaction
    <3>3. CASE admit(t)
      <4>1. UNCHANGED <<fork, charged>>
        BY <2>1, <3>1, <3>3 DEF admit
      <4> QED  BY <3>1, <3>3, <4>1, AdmitKeeps
    <3>4. CASE reject(t)
      <4>1. UNCHANGED <<fork, charged>>
        BY <2>1, <3>1, <3>4 DEF reject
      <4> QED  BY <3>1, <3>4, <4>1, RejectKeeps
    <3> QED  BY <3>2, <3>3, <3>4
  <2>3. CASE apply_transaction_upfront_effects
    <3>1. charged' = world'
      BY <2>1, <2>3 DEF apply_transaction_upfront_effects
    <3> QED  BY <2>1, <2>3, <3>1, UpfrontKeeps
  <2>4. CASE process_auth
    <3>1. UNCHANGED <<fork, charged>>
      BY <2>1, <2>4 DEF process_auth
    <3> QED  BY <2>4, <3>1, LegacyAuthKeeps
  <2>5. CASE begin_preparation
    <3>1. UNCHANGED <<fork, charged>>
      BY <2>1, <2>5 DEF begin_preparation
    <3> QED  BY <2>5, <3>1, PreparationKeeps
  <2>6. CASE process_amsterdam_auth
    <3>1. UNCHANGED <<fork, charged>>
      BY <2>1, <2>6 DEF process_amsterdam_auth
    <3> QED  BY <2>6, <3>1, AmsterdamAuthKeeps
  <2>7. CASE process_amsterdam_auth_fails
    <3>1. UNCHANGED <<fork, charged>>
      BY <2>1, <2>7 DEF process_amsterdam_auth_fails, preparation_fails, EndFrame
    <3> QED  BY <2>7, <3>1, AuthFailsKeeps
  <2>8. CASE prepare_amsterdam_transaction_dispatch
    <3>1. UNCHANGED <<fork, charged>>
      <4>1. phase = "authorizing" /\ phase' \in {"frame", "settling", "fatal"}
        BY <2>8 DEF prepare_amsterdam_transaction_dispatch, preparation_fails, EndFrame
      <4> QED  BY <2>1, <4>1
    <3> QED  BY <2>8, <3>1, DispatchKeeps
  <2>9. CASE enter_legacy_frame
    <3>1. UNCHANGED <<fork, charged>>
      BY <2>1, <2>9 DEF enter_legacy_frame
    <3> QED  BY <2>9, <3>1, LegacyEntryKeeps
  <2>10. CASE run_call_transaction_frame
    <3>1. UNCHANGED <<fork, charged>>
      BY <2>1, <2>10 DEF run_call_transaction_frame, FrameEnds
    <3> QED  BY <2>10, <3>1, CallFrameKeeps
  <2>11. CASE run_create_transaction_frame
    <3>1. UNCHANGED <<fork, charged>>
      <4>1. phase = "frame" /\ phase' = "ran"
        BY <2>11 DEF run_create_transaction_frame, FrameEnds
      <4> QED  BY <2>1, <4>1
    <3> QED  BY <2>11, <3>1, CreateFrameKeeps
  <2>12. CASE create_transaction_collides
    <3>1. UNCHANGED <<fork, charged>>
      BY <2>1, <2>12 DEF create_transaction_collides, FrameEnds
    <3> QED  BY <2>12, <3>1, CollisionKeeps
  <2>13. CASE end_legacy_frame
    <3>1. UNCHANGED <<fork, charged>>
      BY <2>1, <2>13 DEF end_legacy_frame, EndFrame
    <3> QED  BY <2>13, <3>1, LegacyEndKeeps
  <2>14. CASE end_amsterdam_frame
    <3>1. UNCHANGED <<fork, charged>>
      BY <2>1, <2>14 DEF end_amsterdam_frame, EndFrame
    <3> QED  BY <2>14, <3>1, AmsterdamEndKeeps
  <2>15. CASE settle_transaction
    <3>1. charged' \in World
      BY <2>1, <2>15, Numbers DEF settle_transaction, TransactionInv, TypeOK
    <3> QED  BY <2>1, <2>15, <3>1, SettleKeeps
  <2>16. CASE finish_block
    <3>1. UNCHANGED <<fork, charged>>
      BY <2>1, <2>16 DEF finish_block
    <3> QED  BY <2>16, <3>1, FinishKeeps
  <2> QED  BY <1>2, <2>2, <2>3, <2>4, <2>5, <2>6, <2>7, <2>8, <2>9, <2>10, <2>11,
              <2>12, <2>13, <2>14, <2>15, <2>16 DEF Step
<1> QED  BY <1>1, <1>2 DEF LNext, Next

(* The transaction loop never leaves its invariant: for every set of       *)
(* accounts, every block of transactions, every price and every limit.     *)
THEOREM TransactionInvariant == LSpec => []TransactionInv
<1>1. LInit => TransactionInv
  BY TransactionInitially
<1>2. TransactionInv /\ [LNext]_<<vars, charged>> => TransactionInv'
  BY StepKeeps, StutterKeeps
<1> QED  BY <1>1, <1>2, PTL DEF LSpec

(* Between transactions every wei of the block is accounted for: debit at  *)
(* the gas limit, refund, floor, tip, blob fee and the transfers a failed  *)
(* frame takes back agree (apply_transaction_upfront_effects,              *)
(* settle_transaction).                                                    *)
THEOREM EtherConservedAlways == LSpec => []EtherConserved
<1>1. TransactionInv => EtherConserved
  <2> SUFFICES ASSUME TransactionInv, phase \in {"idle", "done"}
      PROVE SumFunction(world.balance) + BaseFee * usage.receipts + BlobPrice * blob_gas
              = SumFunction(InitialWorld.balance)
    BY DEF EtherConserved
  <2>1. SumFunction(world.balance) + Burned = SumFunction(InitialWorld.balance)
    BY DEF TransactionInv, EtherOK
  <2>2. PICK x \in Nat, y \in Nat : x = BaseFee * usage.receipts /\ y = BlobPrice * blob_gas
    <3>1. PICK u \in Nat, b \in Nat : u = usage.receipts /\ b = blob_gas
      BY DEF TransactionInv, TypeOK
    <3> QED  BY <3>1, Numbers
  <2>3. SumFunction(world.balance) \in Int
    BY BalanceSum DEF TransactionInv, TypeOK
  <2>4. Burned = x + y
    BY <2>2 DEF Burned
  <2> QED  BY <2>1, <2>2, <2>3, <2>4
<1> QED  BY <1>1, TransactionInvariant, PTL

(* Both gas dimensions of a block stay within the header limit, although   *)
(* block_gas_usage_add checks nothing: admission reserves enough.          *)
THEOREM BlockWithinLimitsAlways == LSpec => []BlockWithinLimits
<1>1. TransactionInv => BlockWithinLimits
  BY DEF TransactionInv
<1> QED  BY <1>1, TransactionInvariant, PTL

(* The checks of tx_frame_gas_snapshot and settle_transaction hold of      *)
(* every frame that was run; only a failed preparation can reach           *)
(* fatal_error, and only with gas admitted above the regular limit.        *)
THEOREM SnapshotsAddUpAlways == LSpec => []SnapshotsAddUp
<1>1. TransactionInv => SnapshotsAddUp
  BY DEF TransactionInv, SnapshotsAddUp, FatalOK
<1> QED  BY <1>1, TransactionInvariant, PTL

(* A failed transaction keeps its nonce, its debit and, unless preparing   *)
(* them failed, its authorizations, and nothing else.                      *)
THEOREM FailureKeepsOnlyAuthorizationsAlways ==
    LSpec => []FailureKeepsOnlyAuthorizations
<1>1. TransactionInv => FailureKeepsOnlyAuthorizations
  BY DEF TransactionInv, WorldsOK, AuthorizedOnly, FailureKeepsOnlyAuthorizations
<1> QED  BY <1>1, TransactionInvariant, PTL

(* However often an authorization list names, clears and sets an authority *)
(* again, its new account and its delegation are charged exactly once      *)
(* (authorization_tracker).                                                *)
THEOREM AuthorizationsPayOnceAlways == LSpec => []AuthorizationsPayOnce
<1>1. TransactionInv => AuthorizationsPayOnce
  BY DEF TransactionInv, TrackerOK, AuthorizationPrice, AuthorizationsPayOnce
<1> QED  BY <1>1, TransactionInvariant, PTL

(* From Amsterdam on the state gas of the block covers the price of all    *)
(* the state its transactions leave behind.  The base fee has to be        *)
(* positive: with a free gas price an absent account may send, and its     *)
(* account then appears unpaid.                                            *)
THEOREM GrowthIsPaidAlways == ASSUME BaseFee > 0 PROVE LSpec => []GrowthIsPaid
<1>1. TransactionInv => GrowthIsPaid
  BY DEF TransactionInv, GrowthOK, GrowthIsPaid
<1> QED  BY <1>1, TransactionInvariant, PTL
=============================================================================
