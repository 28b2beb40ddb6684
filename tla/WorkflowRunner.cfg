SPECIFICATION FairWorkflow
CONSTANTS
    Stages = 3
    Steps <- MCSteps
    Optional <- MCOptional
    Recoverable <- MCRecoverable
    OpenSteps <- MCOpenSteps
    CleanupStage = 2
    LogCap = 2
    BatchSize = 1
    MaxRetries = 2
    MaxDrops = 2
INVARIANTS
    CompleteMeansAllPassed
    StageDataFresh
    TunnelClosedAfterCleanup
PROPERTY WorkflowEnds
