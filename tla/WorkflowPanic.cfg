SPECIFICATION WorkflowSpec
CONSTANTS
    Stages = 3
    Steps <- MCSteps
    Optional <- MCOptional
    Recoverable <- MCRecoverable
    OpenSteps <- MCOpenSteps
    CleanupStage = 2
    LogCap = 2
    BatchSize = 1
    MaxRetries = 2
    MaxDrops = 2
INVARIANT DoneScreenStays
