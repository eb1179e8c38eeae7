SPECIFICATION Spec
CONSTANTS
    WordBytes = 2
    ByteBits = 2
    AddressBytes = 1
    MaxHeight = 24
    STACK_LIMIT = 16
    SquareDivisor = 4
    CodeSizeLimit = 8
    Amsterdam = TRUE
    Price <- MCPrice
    Env <- MCEnv
    External <- MCExternal
    InputBytes <- MCInput
    FrameCode <- MCCode
    ExternalCode <- MCExternalCode
    BlockHashes <- MCBlockHashes
    BlobHashes <- MCBlobHashes
    Scenes <- MCScenes
INVARIANTS
    StagedChargesAddUp
    FramesArePrivate
