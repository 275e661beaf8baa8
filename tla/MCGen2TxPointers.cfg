SPECIFICATION Spec
CONSTANTS
    MaxTxCommandCount = 2
    TxBufferBytes = 12
    EncodeBytes = 40
    Applications <- LongPointers
    TransactionIds = {1}
    RepLens = {0, 64}
    MaxCalls = 3
    MaxFailures = 1
INVARIANTS
    LongPointersDecode
CHECK_DEADLOCK FALSE
