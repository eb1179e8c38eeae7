SPECIFICATION Spec
CONSTANTS
    LengthCap = 4194304
    Fatal = Fatal
    Refused = Refused
    NotYet = NotYet
    SECP_N_FULL <- MCNFull
    SECP_N_HALF <- MCNHalf
    CONFIGURED_CHAIN_ID = 1
    RlpInputs <- MCRlpInputs
    MaxFields = 3
    Receipts <- MCReceipts
    Values <- MCValues
    MaxReceipts = 2
    MaxScratch = 1
    Envelopes <- MCEnvelopes
    BlobLimit = 2
    AuthorizationBound = 2
    Inputs <- MCInputs
INVARIANTS
    FieldsTileTheInput
    EncodingsReadBack
    TransactionsReadBack
    InputIsTiled
    RootNamesTheRequest
CHECK_DEADLOCK FALSE
