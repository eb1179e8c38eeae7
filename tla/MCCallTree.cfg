SPECIFICATION LSpec
CONSTANTS
    Forks = {5, 16}
    MaxGas = 12
    SpillCap = 9
    RefundBound = 24
    InitialGas <- MCInitialGas
    InitialStateGas <- MCInitialStateGas
    fresh = fresh
    old = old
    Slots = {fresh, old}
    Original <- MCOriginal
    Values = {0, 1}
    Accounts = {a, b}
    Nonempty = {a}
    CallDepthLimit = 2
    CapDivisor = 4
    OpCosts = {1}
    MemoryCosts = {0}
    Requests = {1, 99}
    Deposits = {0, 1}
    CallValueCost = 2
    CallStipend = 1
    NewAccountCost = 1
    CreateAccessCost = 1
    SelfdestructCost = 1
    AccountWriteCost = 1
    StorageSet = 3
    StorageReset = 2
    WarmAccess = 1
    ColdAccess = 2
    StorageWrite = 1
    StorageSentry = 1
    ClearRefund = 2
    SelfdestructRefund = 2
    RefundRate = 3
    DepositCost = 1
    StateStorageSet = 2
    StateNewAccount = 3
    StateByte = 1
INVARIANTS StateGasPaysGrowth GasConserved TopFrameKeepsContract NeverFatal
           RefundsFollowWrites StaticFramesOnlyRead StepsSuffice
