SPECIFICATION FairSpec
CONSTANTS
    Size = 5
    ChunkSize = 2
    MaxChunkAttempts = 2
    SpoolChunks = TRUE
    EmptyRange <- AbsentOnly
    MaxFaults = 3
INVARIANTS
    SessionsHoldPrefix
    PutIsComplete
    TempFilesBounded
PROPERTIES
    NeverPoisonsState
    EventuallyUploaded
