CONSTANTS
    h1 = h1
    h2 = h2
    h3 = h3
    c1 = c1
    c2 = c2
    c3 = c3
    c4 = c4
    None = None
    Handles <- MCHandles
    Calls <- MCCalls
    KvHandle <- MCKvHandle
    BadTtl <- MCBadTtl
    Bus <- MCBus
    MaxConcurrent = 1
SPECIFICATION Spec
INVARIANTS
    RegisteredMeansReady
    CountAccounts
    ReturnedHandleIsGood
    TranscriptNeedsBus
PROPERTIES
    RequestEnds
CHECK_DEADLOCK FALSE
