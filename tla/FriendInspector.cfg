SPECIFICATION Spec
CONSTANTS
    FrameKinds <- AllKinds
    MaxFrames = 3
    MaxPayload = 3
    MaxControl = 1
    ChunkMax = 10
CHECK_DEADLOCK FALSE
INVARIANTS
    HandsOverWhatArrived
    OffOnlyIfIllegal
