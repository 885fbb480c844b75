SPECIFICATION ProtocolSpec
CONSTANTS
    FrameKinds <- ClientKinds
    MaxFrames = 3
    MaxPayload = 3
    MaxControl = 1
    ChunkMax = 9
    ExpectedMask = TRUE
CHECK_DEADLOCK FALSE
INVARIANTS
    ReturnsWhatArrived
    FailsOnlyAtIllegal
    FinishTellsCut
