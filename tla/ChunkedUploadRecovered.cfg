SPECIFICATION Spec
CONSTANTS
    Size = 3
    ChunkSize = 2
    MaxChunkAttempts = 2
    SpoolChunks = FALSE
    EmptyRange <- ZeroZeroOnly
    MaxFaults = 1
INVARIANT
    RecoveredMeansAccepted
