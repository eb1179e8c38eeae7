SPECIFICATION LSpec
CONSTANTS
    Forks = {12, 16}
    MaxGas = 20
    SpillCap = 20
    RefundBound = 10
    alice = alice
    miner = miner
    ghost = ghost
    NoTransaction = NoTransaction
    Accounts = {alice, miner, ghost}
    Coinbase = miner
    InitialWorld <- MCWorld
    Transactions <- MCTransactionsOf
    MaxTransactions = 2
    BlockLimit = 12
    ProfileTotal = 20
    ProfileRegular <- MCProfileRegular
    BlobLimit = 1
    BaseFee = 2
    BlobPrice = 2
    NonceBound = 99
    Refunds = {0, 2}
    Deposits = {0, 1}
    DepositCost = 1
    WarmAccess = 1
    ColdAccess = 2
    AccountWrite = 1
    AuthRefund = 1
    StateNewAccount = 2
    StateAuthBase = 1
    StateByte = 1
INVARIANTS EtherConserved BlockWithinLimits SnapshotsAddUp
           FailureKeepsOnlyAuthorizations AuthorizationsPayOnce GrowthIsPaid
