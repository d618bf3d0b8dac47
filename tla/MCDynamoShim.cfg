CONSTANTS
    Capacity = 2
    MaxBatch = 3
    BatchTimeout = 3
    MaxFrames = 9
SPECIFICATION Spec
INVARIANTS
    TypeOK
    NoFrameLostOrReordered
    
    BatchesCarryFrames
    PartialBatchWaitsAtMostTimeout
PROPERTIES
    EveryFrameDispatched
    ImplementsRelay
CHECK_DEADLOCK FALSE
