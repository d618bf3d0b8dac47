CONSTANTS
    ChunkSamples = 5
    PoolSize = 4
    RxRing = 2
    TxRing = 2
    BurstSize = 2
    MaxFrames = 4
    Payloads <- MCPayloads
SPECIFICATION Spec
INVARIANTS
    MbufsConserved
    SpeechInOrder
PROPERTIES
    LoopLives
CHECK_DEADLOCK FALSE
