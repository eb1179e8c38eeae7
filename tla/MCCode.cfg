SPECIFICATION Spec
CONSTANTS
    Forks <- MCForks
    CalldataSizes <- MCCalldataSizes
    Codes <- MCCodes
    StartGas = 60
    STACK_LIMIT = 1024
    MaxHeight = 1000000
    WordBytes = 32
    SquareDivisor = 512
    ModexpBound = 1024
    AcceleratorMax = 2097152
    Discounts <- MCDiscounts
    MaxDiscount = 519
    CodeSizeLimit = 24576
    FrameGas = 120
    Offsets <- MCOffsets
    Sizes <- MCSizes
    Budgets <- MCBudgets
    ModexpInputs <- MCModexpInputs
    PairCounts <- MCPairCounts
    PrecompileForks <- MCPrecompileForks
    G2Discounts <- MCG2Discounts
    G2MaxDiscount = 524
    MaxCalls = 2
    Inputs <- MCInputs
    CallGas = 110000
    NoCall = NoCall
INVARIANTS
    JumpsLandOnInstructions
    DecodersAgree
    ChargesAreExact
    PrecompilesAreGuarded
