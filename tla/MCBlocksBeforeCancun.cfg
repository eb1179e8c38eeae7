SPECIFICATION Spec
CONSTANTS
    Blocks <- MCBlocks
    Effects <- MCEffects
    SystemEffects <- MCSystemEffects
    Addresses = {"a", "b"}
    Hash <- MCHash
    HeaderBlooms <- MCHeaderBlooms
    DEPOSIT_CONTRACT_ADDR = "deposit"
    DEPOSIT_EVENT_TOPIC = "event"
    Fatal = Fatal
    BlobGas = 2
    WordBits = 6
    Fractions <- MCFractions
    Forks <- MCForks
    MaxChain = 4
    DearFee = 40
    Window = 3
    NumericOverflow = NumericOverflow
    InvalidConfig = InvalidConfig
    WitnessDeficient = WitnessDeficient
    RlpDecode = RlpDecode
    InvalidGasUsed = InvalidGasUsed
    InvalidParentHash = InvalidParentHash
    InvalidBlobGasUsed = InvalidBlobGasUsed
    InvalidExcessBlobGas = InvalidExcessBlobGas
    InvalidBlockHash = InvalidBlockHash
    NoReason = NoReason
INVARIANT
    ValidBlocksOfEveryFork
